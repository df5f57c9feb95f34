------------------------------- MODULE Signals ------------------------------
(***************************************************************************)
(* How one thread receives signals (the second half of                     *)
(* sys/process/signals.rs and deliver_pending_signal and do_sigreturn of   *)
(* sys/syscall/mod.rs): pending signals and the queues of real-time ones,  *)
(* the mask, the calls that wait for signals, and the stack of handlers.   *)
(* Other processes send at any time; the thread takes a signal at the end  *)
(* of a system call, and when a handler returns do_sigreturn takes the     *)
(* next one at once, within the budget the outermost delivery has set.     *)
(* Signals are numbered; those from SIGRTMIN on are real-time.             *)
(***************************************************************************)
EXTENDS Integers, Sequences, SequencesExt, FiniteSetsExt

CONSTANTS
    Sigs, SIGRTMIN,
    Default,            \* the default disposition: "ignore", "term" or "stop"
    RT_QUEUE_CAP,
    SaMask,             \* the sa_mask a handler of each signal is installed with
    NoDefer,            \* the signals whose handlers have SA_NODEFER
    HandlerCalls,       \* bound: system calls a handler makes before it returns
    MaxNested,          \* bound: handlers active when one more makes no call
    WrapAt              \* the counts of the budget are u16: 2^16

Rt == {s \in Sigs : s >= SIGRTMIN}
None == [taken |-> FALSE]

VARIABLE proc

RtCounts(n) == [s \in Rt |-> n]

\* has_interrupting_signal
Ignored(q, s) == q.act[s] = "ignore" \/ (q.act[s] = "default" /\ Default[s] = "ignore")
Deliverable(q) == q.pending \ q.blocked
has_interrupting_signal(q) == \E s \in Deliverable(q) : ~Ignored(q, s)

\* record_pending: a full queue refuses the signal (EAGAIN).
record_pending(q, s) ==
    [q EXCEPT !.pending = @ \cup {s},
              !.queue = [r \in Rt |-> IF r = s /\ @[r] < RT_QUEUE_CAP THEN @[r] + 1 ELSE @[r]]]

\* One instance of s leaves what is pending.
Consumed(q, s) ==
    [q EXCEPT !.pending = IF s \in Rt /\ q.queue[s] > 1 THEN @ ELSE @ \ {s},
              !.queue = [r \in Rt |-> IF r = s THEN @[r] - 1 ELSE @[r]]]

-----------------------------------------------------------------------------
\* take_deliverable_signal.  An episode begins when no handler is active; what
\* can be delivered then is the budget of the chain of deliveries that follows.
Snapshot(q) ==
    LET now == Deliverable(q)
    IN [taken |-> TRUE, standard |-> now \ Rt,
        rt |-> [s \in Rt |-> IF s \in now THEN q.queue[s] ELSE 0]]

Budgeted_MUT(q, s) == s \notin Rt \/ (q.budget.taken /\ q.budget.rt[s] > 0)
Budgeted(q, s) == q.budget.taken /\ IF s \in Rt THEN q.budget.rt[s] > 0 ELSE s \in q.budget.standard

Charged(q, s) ==
    IF ~q.budget.taken THEN q
    ELSE IF s \in Rt THEN [q EXCEPT !.budget.rt[s] = (@ - 1) % WrapAt]
    ELSE [q EXCEPT !.budget.standard = @ \ {s}]

RECURSIVE Take(_, _)
Take(q, chained) ==
    LET s == Min(Deliverable(q))
        taken == Charged(Consumed(q, s), s)
        ended == [q EXCEPT !.budget = IF chained THEN None ELSE @]
    IN  IF Deliverable(q) = {} \/ (chained /\ ~Budgeted(q, s)) THEN [q |-> ended, sig |-> 0]
        ELSE IF Ignored(q, s) THEN Take(taken, chained)
        ELSE [q |-> IF chained THEN [taken EXCEPT !.chain[s] = Min({@, RT_QUEUE_CAP}) + 1] ELSE taken, sig |-> s]

take_deliverable_signal(q, chained) ==
    Take(IF ~chained /\ q.stack = <<>>
         THEN [q EXCEPT !.budget = Snapshot(q), !.snap = Snapshot(q), !.chain = [s \in Sigs |-> 0]]
         ELSE q, chained)

\* deliver_pending_signal, at the end of a system call or chained to a
\* sigreturn: what the thread may look like after it.  A frame that cannot be
\* written to the user stack ends the process.
blocked_before(q) == IF q.restore.taken THEN q.restore.mask ELSE q.blocked

Dead(q) == [q EXCEPT !.run = "dead", !.at = "user"]

\* The signals blocked while a handler of s runs.
mask_to_add(s) == (SaMask[s] \cup {s}) \ (IF s \in NoDefer THEN {s} ELSE {})

deliver_pending_signal(q, chained) ==
    LET t == take_deliverable_signal([q EXCEPT !.restore = None], chained)
        user == [t.q EXCEPT !.at = "user", !.run = "run"]
    IN  CASE t.sig = 0 -> {[user EXCEPT !.blocked = blocked_before(q)]}
          [] t.sig # 0 /\ q.act[t.sig] = "default" /\ Default[t.sig] = "term" -> {Dead(q)}
          [] t.sig # 0 /\ q.act[t.sig] = "default" /\ Default[t.sig] = "stop" ->
               {[t.q EXCEPT !.at = "stop_self", !.run = "stopped", !.saved = blocked_before(q)]}
          [] OTHER ->
               {[user EXCEPT !.blocked = @ \cup mask_to_add(t.sig),
                             !.stack = Append(@,
                   [before |-> blocked_before(q),
                    calls |-> IF Len(q.stack) < MaxNested THEN HandlerCalls ELSE 0])],
                Dead(q)}

-----------------------------------------------------------------------------
\* A system call of the main program, or one of those a handler still makes.
InUser == proc.run = "run" /\ proc.at = "user"
InMain == InUser /\ proc.stack = <<>>
MayCall == InUser /\ (proc.stack # <<>> => Last(proc.stack).calls > 0)
Called ==
    IF proc.stack = <<>> THEN proc
    ELSE [proc EXCEPT !.stack[Len(proc.stack)].calls = @ - 1]

Syscall == MayCall /\ proc' \in deliver_pending_signal(Called, FALSE)

\* kill or sigqueue to itself.
Raise(s) == MayCall /\ proc' \in deliver_pending_signal(record_pending(Called, s), FALSE)

do_sigprocmask(set) ==
    /\ InMain
    /\ proc' \in deliver_pending_signal([proc EXCEPT !.blocked = set, !.own = set], FALSE)

do_sigaction(s, act) ==
    /\ InMain
    /\ proc' \in deliver_pending_signal([proc EXCEPT !.act[s] = act], FALSE)

do_execve ==
    /\ InMain
    /\ proc' \in deliver_pending_signal(
            [proc EXCEPT !.act = [s \in Sigs |-> IF @[s] = "handler" THEN "default" ELSE @[s]]], FALSE)

\* The loops of do_pause, do_sigsuspend, ppoll and do_sigtimedwait, entered by
\* the call and again after each wake-up.  q is the thread inside the call.
Sleep(q) == [q EXCEPT !.run = "asleep"]

SuspendLoop(q) ==
    IF has_interrupting_signal(q)
    THEN deliver_pending_signal([q EXCEPT !.restore = [taken |-> TRUE, mask |-> q.saved]], FALSE)
    ELSE {Sleep(q)}

PauseLoop(q) == IF has_interrupting_signal(q) THEN deliver_pending_signal(q, FALSE) ELSE {Sleep(q)}

\* end_temporary_sigmask
EndTemporaryMask(q) ==
    IF has_interrupting_signal(q) THEN [q EXCEPT !.restore = [taken |-> TRUE, mask |-> q.saved]]
    ELSE [q EXCEPT !.blocked = q.saved]

PollLoop(q, ready) ==
    IF ready \/ has_interrupting_signal(q)
    THEN deliver_pending_signal(EndTemporaryMask(q), FALSE) ELSE {Sleep(q)}

SigwaitLoop(q, expired) ==
    LET ready == q.pending \cap q.saved
    IN  IF ready # {} THEN deliver_pending_signal(Consumed(q, Min(ready)), FALSE)
        ELSE IF expired THEN deliver_pending_signal(q, FALSE) ELSE {Sleep(q)}

do_pause == InMain /\ proc' \in PauseLoop([proc EXCEPT !.at = "pause"])

do_sigsuspend(mask) ==
    /\ InMain
    /\ proc' \in SuspendLoop([proc EXCEPT !.at = "sigsuspend", !.saved = proc.blocked, !.blocked = mask])

do_ppoll(mask, ready) ==
    /\ InMain
    /\ proc' \in PollLoop([proc EXCEPT !.at = "ppoll", !.saved = proc.blocked, !.blocked = mask], ready)

do_sigtimedwait(set) == InMain /\ proc' \in SigwaitLoop([proc EXCEPT !.at = "sigwait", !.saved = set], FALSE)

Resume(ready) ==
    /\ proc.run = "run"
    /\ \/ proc.at = "pause" /\ proc' \in PauseLoop(proc)
       \/ proc.at = "sigsuspend" /\ proc' \in SuspendLoop(proc)
       \/ proc.at = "ppoll" /\ proc' \in PollLoop(proc, ready)
       \/ proc.at = "sigwait" /\ proc' \in SigwaitLoop(proc, ready)
       \/ proc.at = "stop_self" /\ proc' = [proc EXCEPT !.at = "user", !.blocked = proc.saved]

\* A descriptor becomes ready, or the timer interrupt passes the deadline.
Event == /\ proc.run = "asleep" /\ proc.at \in {"ppoll", "sigwait"}
         /\ proc' = [proc EXCEPT !.run = "run"]

\* take_signal_saved_frame, then the chained delivery; a context that cannot be
\* read back ends the process.
do_sigreturn ==
    /\ InUser /\ proc.stack # <<>>
    /\ LET q == [proc EXCEPT !.stack = Front(@), !.blocked = Last(proc.stack).before]
       IN  proc' \in deliver_pending_signal(q, TRUE) \cup {Dead(q)}

-----------------------------------------------------------------------------
\* do_kill and do_sigqueue of another process.
WakesFrom(q, s) ==
    \/ q.at = "sigwait" /\ s \in q.saved
    \/ q.at \in {"pause", "sigsuspend", "ppoll"} /\ s \notin q.blocked

SetPending(q, s) ==
    [record_pending(q, s) EXCEPT !.run = IF @ = "asleep" /\ WakesFrom(q, s) THEN "run" ELSE @]

Send(s) ==
    LET default == proc.act[s] = "default" /\ s \notin proc.blocked IN
    /\ proc.run # "dead"
    /\ proc.act[s] # "ignore"
    /\ ~(default /\ Default[s] = "ignore")
    /\ proc' = CASE default /\ Default[s] = "term" -> Dead(proc)
                 [] default /\ Default[s] = "stop" -> [proc EXCEPT !.run = "stopped"]
                 [] OTHER -> SetPending(proc, s)

\* SIGCONT to a stopped process, which goes on inside the call it was in.
Continue == proc.run = "stopped" /\ proc' = [proc EXCEPT !.run = "run"]

Init ==
    proc = [run |-> "run", at |-> "user", pending |-> {}, queue |-> RtCounts(0),
            blocked |-> {}, own |-> {}, saved |-> {}, restore |-> None, stack |-> <<>>,
            act |-> [s \in Sigs |-> "default"],
            budget |-> None, snap |-> None, chain |-> [s \in Sigs |-> 0]]

Next ==
    \/ Syscall \/ do_pause \/ do_execve \/ do_sigreturn \/ Event \/ Continue
    \/ \E b \in BOOLEAN : Resume(b)
    \/ \E s \in Sigs : Raise(s) \/ Send(s) \/ \E a \in {"default", "ignore", "handler"} : do_sigaction(s, a)
    \/ \E m \in SUBSET Sigs :
         \/ do_sigprocmask(m) \/ do_sigsuspend(m) \/ do_sigtimedwait(m)
         \/ \E b \in BOOLEAN : do_ppoll(m, b)

\* A handler goes on until it returns: threads that can run do run.
Spec == Init /\ [][Next]_proc /\ WF_proc(do_sigreturn)

-----------------------------------------------------------------------------
\* Type correctness.
TypeOK ==
    /\ proc.run \in {"run", "asleep", "stopped", "dead"}
    /\ proc.at \in {"user", "pause", "sigsuspend", "ppoll", "sigwait", "stop_self"}
    /\ proc.pending \subseteq Sigs /\ proc.blocked \subseteq Sigs
    /\ proc.queue \in [Rt -> 0..RT_QUEUE_CAP]
    /\ proc.run = "asleep" => proc.at \notin {"user", "stop_self"}

\* A real-time signal is pending exactly when its queue has an entry, so the
\* removals from the front of the queue in take_deliverable_signal and
\* do_sigtimedwait find one.
PendingMatchesQueue == \A s \in Rt : s \in proc.pending <=> proc.queue[s] > 0

\* Nobody sleeps in pause, sigsuspend, ppoll or sigtimedwait with a signal
\* pending that the call waits for.
NoSleepOnSignal == proc.run = "asleep" =>
    IF proc.at = "sigwait" THEN proc.pending \cap proc.saved = {}
    ELSE ~has_interrupting_signal(proc)

\* When the last handler has returned, the mask is the one the program chose:
\* sigsuspend and ppoll restore it, after the handlers they let in.
MaskRestored == proc.at = "user" /\ proc.stack = <<>> /\ proc.run # "dead" => proc.blocked = proc.own

\* do_sigreturn chains to no more deliveries than the outermost delivery of the
\* episode found pending.
ChainWithinSnapshot == \A s \in Sigs : proc.chain[s] > 0 =>
    proc.chain[s] <= IF s \in Rt THEN proc.snap.rt[s] ELSE IF s \in proc.snap.standard THEN 1 ELSE 0

\* A handler that sends its own signal again does not keep the program from
\* running: as long as handlers return, all of them have returned again and
\* again, whatever is pending.
MainGoesOn == []<>(proc.stack = <<>> \/ proc.run # "run" \/ proc.at # "user")
=============================================================================
