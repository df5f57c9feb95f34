-------------------------------- MODULE Timers ------------------------------
(***************************************************************************)
(* Sleeping and timers of one process (sys/process/timers.rs) and the part *)
(* of the timer interrupt that serves them (timer_interrupt_handler of     *)
(* sys/cpu/interrupts.rs).  Time passes in parts of a tick, which the HPET *)
(* counts, and a program asks for lengths and times in such parts; the     *)
(* interrupt counts ticks, may come late and lose one, and does nothing    *)
(* else when the process table is locked.  CLOCK_MONOTONIC is the ticks,   *)
(* CLOCK_REALTIME a settable offset to them; CLOCK_PROCESS_CPUTIME_ID      *)
(* counts those the process runs through.                                  *)
(***************************************************************************)
EXTENDS Integers, FiniteSets

CONSTANTS
    Timers,         \* the slots of posix_timers
    PerTick,        \* parts of a tick: the unit of time below, unless it says ticks
    MaxNs,          \* bound: how long the behaviour lasts
    MaxLost,        \* bound: timer interrupts lost
    Durations,      \* lengths that are asked for
    Intervals,      \* periods, 0 for none
    Walls           \* what the wall clock may be set ahead by, in ticks

None == -1
NoCall == [op |-> "none", deadline |-> None, until |-> None]
Disarmed == [clock |-> "none", deadline |-> None, interval |-> 0, target |-> None,
             ns |-> None, overrun |-> 0, first |-> None, base |-> None]

VARIABLES
    ns,         \* hpet::now_ns
    now,        \* TICKS
    lost,       \* interrupts lost so far
    served,     \* the tick and the HPET time of the last interrupt to find the process table free
    ahead,      \* wall clock - ticks
    cpu,        \* cpu_ticks
    asleep,     \* Blocked(Sleeping)
    call,       \* the sleep the process is inside: deadline in ticks, until when it asked to sleep
    pending,    \* pending signals: "alrm", and one for each timer
    itimer,     \* real_timer_deadline and real_timer_interval_ticks
    slot        \* posix_timers

vars == <<ns, now, lost, served, ahead, cpu, asleep, call, pending, itimer, slot>>
clocks == <<ns, now, lost, served, ahead, cpu>>

\* unix_epoch_now_precise, and what CLOCK_MONOTONIC shows.
wall == (now + ahead) * PerTick
monotonic == now * PerTick

\* (nsec * hz).div_ceil(1_000_000_000), as everything that rounds up.
to_ticks_MUT(d) == d \div PerTick
to_ticks(d) == (d + PerTick - 1) \div PerTick

InUser == ~asleep /\ call = NoCall

-----------------------------------------------------------------------------
\* One pass of the loops of do_nanosleep and do_clock_nanosleep: c is the call
\* with the deadline computed anew.
HPET_TOPOFF_TICK_CAP == 50

SleptEnough(c) ==
    /\ now >= c.deadline
    /\ c.op = "nanosleep" => ns >= c.until \/ now >= c.deadline + HPET_TOPOFF_TICK_CAP

Pass(c) ==
    /\ \/ SleptEnough(c) /\ call' = NoCall /\ asleep' = FALSE
       \/ ~SleptEnough(c) /\ pending # {} /\ call' = NoCall /\ asleep' = FALSE      \* EINTR
       \/ ~SleptEnough(c) /\ pending = {} /\ call' = c /\ asleep' = TRUE
    /\ UNCHANGED <<clocks, pending, itimer, slot>>

\* A time of the wall clock is turned into ticks from now, rounded towards zero;
\* one of the other clocks is rounded up.
abstime_to_ticks(clock, t) ==
    IF clock # "realtime" THEN to_ticks(t)
    ELSE IF t <= wall THEN now ELSE now + (t - wall) \div PerTick

do_nanosleep(d) ==
    InUser /\ Pass([op |-> "nanosleep", deadline |-> now + to_ticks(d), until |-> ns + d])

\* With TIMER_ABSTIME, to the time t of the clock; and without, for d.
do_clock_nanosleep(clock, t) ==
    InUser /\ Pass([op |-> clock, deadline |-> abstime_to_ticks(clock, t), until |-> t])

do_clock_nanosleep_relative(d) ==
    InUser /\ Pass([op |-> "relative", deadline |-> now + to_ticks(d), until |-> monotonic + d])

Resume ==
    /\ ~asleep /\ call # NoCall
    /\ Pass(IF call.op # "realtime" THEN call
            ELSE [call EXCEPT !.deadline = abstime_to_ticks(call.op, call.until)])

\* The handlers of all pending signals run.
TakeSignals ==
    /\ InUser /\ pending # {}
    /\ pending' = {}
    /\ UNCHANGED <<clocks, asleep, call, itimer, slot>>

\* sys_clock_settime of another process: wake_realtime_sleepers_after_clock_change.
wake_realtime_sleepers_MUT == asleep
wake_realtime_sleepers == FALSE

sys_clock_settime(a) ==
    /\ ahead' = a
    /\ asleep' = wake_realtime_sleepers
    /\ UNCHANGED <<ns, now, lost, served, cpu, call, pending, itimer, slot>>

-----------------------------------------------------------------------------
do_setitimer(d, i) ==
    /\ InUser
    /\ itimer' = IF d = 0 THEN [deadline |-> None, interval |-> 0]
                 ELSE [deadline |-> now + to_ticks(d), interval |-> to_ticks(i)]
    /\ UNCHANGED <<clocks, asleep, call, pending, slot>>

do_timer_create(t, clock) ==
    /\ InUser /\ slot[t] = Disarmed
    /\ slot' = [slot EXCEPT ![t].clock = clock]
    /\ UNCHANGED <<clocks, asleep, call, pending, itimer>>

timer_now(clock) == IF clock = "cpu" THEN cpu ELSE now

do_timer_settime(t, d, i, abs) ==
    LET clock == slot[t].clock IN
    /\ InUser /\ slot[t] # Disarmed
    /\ slot' = [slot EXCEPT ![t] =
         CASE d = 0 -> [Disarmed EXCEPT !.clock = clock]
           [] d > 0 /\ abs ->
                [Disarmed EXCEPT !.clock = clock, !.interval = i,
                    !.deadline = abstime_to_ticks(clock, d),
                    !.target = IF clock = "realtime" THEN d ELSE None]
           [] OTHER ->
                [Disarmed EXCEPT !.clock = clock, !.interval = i, !.deadline = timer_now(clock) + to_ticks(d),
                    !.ns = IF clock = "cpu" THEN None ELSE ns + d,
                    !.first = IF clock = "cpu" THEN None ELSE ns + d]]
    /\ UNCHANGED <<clocks, asleep, call, pending, itimer>>

do_timer_delete(t) ==
    /\ InUser /\ slot[t] # Disarmed
    /\ slot' = [slot EXCEPT ![t] = Disarmed]
    /\ UNCHANGED <<clocks, asleep, call, pending, itimer>>

-----------------------------------------------------------------------------
\* The timer interrupt, at tick n with HPET time h and CPU time u: which timers
\* fire, and what becomes of them.
Fires(s, n, h, u) ==
    IF s.ns # None THEN h >= s.ns
    ELSE IF s.target # None THEN (n + ahead) * PerTick >= s.target
    ELSE s.deadline # None /\ (IF s.clock = "cpu" THEN u ELSE n) >= s.deadline

\* Periods that have ended, one of which the signal stands for.
Extra(s, h) == IF s.ns = None \/ s.interval = 0 THEN 0 ELSE (h - s.ns) \div s.interval

overrun_MUT(s, h, queued) == IF queued THEN s.overrun + Extra(s, h) ELSE Extra(s, h)
overrun(s, h, queued) == IF queued THEN s.overrun + 1 + Extra(s, h) ELSE Extra(s, h)

\* How often a periodic timer armed to expire at first has expired by the time h,
\* by the clock alone; base is this count when an interrupt last served the timer
\* before the one that queued its signal (only OverrunExact looks at the two).
Expirations(s, h) == IF h < s.first THEN 0 ELSE (h - s.first) \div s.interval + 1

Fired(s, n, h, u, queued) ==
    [s EXCEPT
        !.overrun = overrun(s, h, queued),
        !.base = IF s.ns = None \/ s.interval = 0 THEN None
                 ELSE IF queued THEN @ ELSE Expirations(s, served.ns),
        !.ns = IF s.ns = None \/ s.interval = 0 THEN None ELSE @ + (Extra(s, h) + 1) * s.interval,
        !.target = None,
        !.deadline = IF s.interval > 0 THEN (IF s.clock = "cpu" THEN u ELSE n) + to_ticks(s.interval)
                     ELSE None]

\* skip: the process table is locked.
timer_interrupt_handler(h, skip) ==
    LET n == now + 1
        u == IF asleep \/ skip THEN cpu ELSE cpu + 1
        rings == itimer.deadline # None /\ n >= itimer.deadline
        firing == {t \in Timers : Fires(slot[t], n, h, u)}
        signals == firing \cup (IF rings THEN {"alrm"} ELSE {})
    IN  /\ now' = n /\ cpu' = u
        /\ served' = IF skip THEN served ELSE [tick |-> n, ns |-> h]
        /\ IF skip THEN UNCHANGED <<asleep, pending, itimer, slot>>
           ELSE /\ pending' = pending \cup signals
                /\ itimer' = IF ~rings THEN itimer
                             ELSE [itimer EXCEPT !.deadline = IF itimer.interval > 0 THEN n + itimer.interval ELSE None]
                /\ slot' = [t \in Timers |-> IF t \in firing THEN Fired(slot[t], n, h, u, t \in pending)
                                             ELSE slot[t]]
                /\ asleep' = (asleep /\ n < call.deadline /\ signals \ pending = {})

\* Time passes; at the end of a tick the interrupt comes, or is lost.
Advance ==
    /\ ns < MaxNs
    /\ ns' = ns + 1
    /\ \/ (ns + 1) % PerTick # 0 /\ UNCHANGED <<now, lost, served, cpu, asleep, pending, itimer, slot>>
       \/ /\ (ns + 1) % PerTick = 0
          /\ \E skip \in BOOLEAN : timer_interrupt_handler(ns + 1, skip)
          /\ UNCHANGED lost
       \/ /\ (ns + 1) % PerTick = 0 /\ lost < MaxLost
          /\ lost' = lost + 1
          /\ UNCHANGED <<now, served, cpu, asleep, pending, itimer, slot>>
    /\ UNCHANGED <<ahead, call>>

Init ==
    /\ ns = 0 /\ now = 0 /\ lost = 0 /\ served = [tick |-> 0, ns |-> 0] /\ ahead = 0 /\ cpu = 0
    /\ asleep = FALSE /\ call = NoCall /\ pending = {}
    /\ itimer = [deadline |-> None, interval |-> 0]
    /\ slot = [t \in Timers |-> Disarmed]

Next ==
    \/ Advance \/ Resume \/ TakeSignals
    \/ \E a \in Walls : a # ahead /\ sys_clock_settime(a)
    \/ \E d \in Durations :
         \/ do_nanosleep(d)
         \/ do_clock_nanosleep_relative(d)
         \/ do_clock_nanosleep("monotonic", monotonic + d)
         \/ do_clock_nanosleep("realtime", wall + d)
    \/ \E d \in Durations \cup {0}, i \in Intervals : do_setitimer(d, i)
    \/ \E t \in Timers :
         \/ \E c \in {"realtime", "cpu"} : do_timer_create(t, c)
         \/ do_timer_delete(t)
         \/ \E d \in Durations \cup {0}, i \in Intervals, abs \in BOOLEAN : do_timer_settime(t, d, i, abs)

Spec == Init /\ [][Next]_vars

-----------------------------------------------------------------------------
\* Type correctness.
TypeOK ==
    /\ ns \in 0..MaxNs /\ now \in 0..MaxNs /\ cpu \in 0..MaxNs /\ lost \in 0..MaxLost
    /\ asleep \in BOOLEAN /\ served \in [tick : 0..MaxNs, ns : 0..MaxNs] /\ ahead \in Walls \cup {0}
    /\ call.op \in {"none", "nanosleep", "relative", "realtime", "monotonic"}
    /\ pending \subseteq Timers \cup {"alrm"}

\* A sleep that no signal interrupts is not short, though the deadline it sleeps
\* to is in ticks: a nanosleep lasts as long as was asked for by the HPET, and a
\* clock_nanosleep until its clock shows the time asked for.  The wall clock may
\* be less than a tick short of it, as abstime_to_ticks rounds down there.
SleptLongEnough ==
    call # NoCall /\ call' = NoCall /\ pending = {} =>
        CASE call.op = "nanosleep" -> ns >= call.until
          [] call.op = "realtime" -> wall + PerTick > call.until
          [] OTHER -> monotonic >= call.until

\* Nobody sleeps on when an interrupt has served the tick of its deadline, or
\* when the wall clock has reached the time it waits for, however it got there.
WokenInTime == asleep =>
    /\ served.tick < call.deadline \/ (call.op = "nanosleep" /\ served.ns < call.until)
    /\ call.op = "realtime" => (served.tick + ahead) * PerTick < call.until

\* No signal stays pending for a sleeper.
NoSleepOnTimer == asleep => pending = {}

\* The overrun count of a periodic timer is the number of its expirations since
\* the signal but the one the signal stands for, interrupts lost, late or unserved
\* included: as many as the clock and the period say (Expirations).
OverrunExact == \A t \in Timers :
    slot[t].interval > 0 /\ slot[t].base # None =>
        slot[t].overrun = Expirations(slot[t], served.ns) - slot[t].base - 1
=============================================================================
