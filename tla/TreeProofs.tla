----------------------------- MODULE TreeProofs -----------------------------
(***************************************************************************)
(* For any number of pids and any workload: no wait4, vfork or reported    *)
(* stop is lost, every dead process has a living parent, and the dead stay *)
(* dead.  Each step of Process does one of six things to the tree: a       *)
(* thread is created (Created), some threads end (Ended), a child is       *)
(* reaped (Reaped), a program is executed (Executed), a vfork caller goes  *)
(* on (VforkPassed), or the tree stays as it is (Calm).  NextShape says    *)
(* so; TreeInv and the three invariants are kept by each kind of step.     *)
(***************************************************************************)
EXTENDS ProcessProofs

\* What a step may do to the signals of pid 1's group: nothing new.
Mild ==
    \A p \in Pids : tgid[p] = INIT =>
        pending'[p] \subseteq pending[p] /\ (p \in sigwork'.targets => p \in sigwork.targets)

\* How a step may put threads to sleep in a call the invariants are about.
SleepsRightly ==
    \A q \in Pids : state'[q] = "Blocked" =>
        \/ state[q] = "Blocked" /\ pc'[q] = pc[q]
        \/ pc'[q].op \notin {"vfork", "wait4"}
        \/ /\ pc'[q].op = "wait4" /\ stopNote' \subseteq stopNote
           /\ NothingToReport(pc'[q], Matching(q, pc'[q]))

\* How a step may change the stops left to report.
StopsRightly ==
    /\ \A p \in stopNote' \ stopNote :
         /\ p \in Pids /\ Exists(p) /\ state'[p] = "Stopped"
         /\ \A q \in wake_parent_if_waiting(p) : state'[q] # "Blocked"
    /\ \A p \in stopNote' \cap stopNote : state[p] = "Stopped" => state'[p] = "Stopped"

Calm ==
    /\ UNCHANGED <<nextPid, tgid, parent, children, vforkParent>>
    /\ \A p \in Pids : Alive(p)' <=> Alive(p)
    /\ \A p \in Pids : state'[p] = "Zombie" => state[p] = "Zombie"
    /\ \A p \in Pids : state'[p] = "Zombie" /\ <<p, "RemoveEntry">> \in reaps =>
                           <<p, "RemoveEntry">> \in reaps'
    /\ reaps' \subseteq reaps
    /\ \A q \in Pids : pc'[q] = pc[q] \/ (pc[q].op # "vfork" /\ pc'[q].op # "vfork")
    /\ SleepsRightly /\ StopsRightly

\* Wakes and stops, seen from one thread.
LEMMA MoveCalm ==
    ASSUME SchedInv, NEW R, NEW S, Move(R, {}, S, {}),
           \A p \in R : state[p] \in {"Blocked", "Stopped"},
           \A p \in S : Alive(p)
    PROVE  /\ \A p \in Pids : p \in S => state'[p] = "Stopped"
           /\ \A p \in Pids : p \in R /\ p \notin S => state'[p] = "Ready"
           /\ \A p \in Pids : p \notin R /\ p \notin S => state'[p] = state[p]
           /\ \A p \in Pids : Alive(p)' <=> Alive(p)
           /\ \A p \in Pids : state'[p] = "Zombie" => state[p] = "Zombie"
           /\ \A p \in Pids : state'[p] = "Blocked" => state[p] = "Blocked" /\ p \notin R
<1>1. \A p \in Pids : state'[p] = IF p \in S THEN "Stopped" ELSE IF p \in R THEN "Ready" ELSE state[p]
  BY Zenon DEF Move
<1>2. \A p \in Pids : Alive(p)' <=> Alive(p)
  BY <1>1, Zenon DEF Alive
<1> QED BY <1>1, <1>2, Zenon

\* Steps that wake threads and leave calls and notes alone are Calm.
LEMMA WakeCalm ==
    ASSUME SchedInv, NEW R, Move(R, {}, {}, {}),
           \A p \in R : state[p] \in {"Blocked", "Stopped"},
           \A p \in R : p \in stopNote' => state[p] # "Stopped",
           stopNote' \subseteq stopNote,
           UNCHANGED <<pc, reaps, treeVars>>
    PROVE  Calm
<1> USE DEF treeVars
<1>1. stopNote \subseteq Pids
  BY Zenon DEF SchedInv, TypeOK
<1>2. /\ \A p \in Pids : p \in R => state'[p] = "Ready"
      /\ \A p \in Pids : p \notin R => state'[p] = state[p]
      /\ \A p \in Pids : Alive(p)' <=> Alive(p)
      /\ \A p \in Pids : state'[p] = "Zombie" => state[p] = "Zombie"
      /\ \A p \in Pids : state'[p] = "Blocked" => state[p] = "Blocked"
  BY MoveCalm
<1>3. SleepsRightly
  BY <1>2, Zenon DEF SleepsRightly
<1>4. StopsRightly
  BY <1>1, <1>2, Zenon DEF StopsRightly
<1> QED BY <1>2, <1>3, <1>4, Zenon DEF Calm

\* A step in which nobody is woken, stopped or ended: one thread, which was not
\* in vfork, may go to sleep or return.
LEMMA StillCalm ==
    ASSUME SchedInv, NEW t \in Pids, Alive(t),
           state' \in {state, [state EXCEPT ![t] = "Blocked"]},
           pc' = pc \/ (pc[t].op # "vfork" /\ \E call \in Call : call.op # "vfork" /\ pc' = [pc EXCEPT ![t] = call]),
           state'[t] = "Blocked" /\ state' # state =>
             \/ pc'[t].op \notin {"vfork", "wait4"}
             \/ pc'[t].op = "wait4" /\ NothingToReport(pc'[t], Matching(t, pc'[t])),
           state[t] # "Blocked", state[t] # "Stopped",
           stopNote' \subseteq stopNote,
           UNCHANGED <<reaps, treeVars>>
    PROVE  Calm
<1> USE DEF treeVars
<1>1. state \in [Pids -> States] /\ pc \in [Pids -> Call]
  BY Zenon DEF SchedInv, TypeOK
<1>2. /\ \A p \in Pids : p # t => state'[p] = state[p] /\ pc'[p] = pc[p]
      /\ state'[t] \in {state[t], "Blocked"}
  BY <1>1, Zenon
<1>3. pc'[t] = pc[t] \/ (pc[t].op # "vfork" /\ pc'[t].op # "vfork")
  BY <1>1, Zenon
<1>4. \A p \in Pids : Alive(p)' <=> Alive(p)
  BY <1>2, Zenon DEF Alive
<1>5. SleepsRightly
  BY <1>2, Zenon DEF SleepsRightly
<1>6. StopsRightly
  BY <1>2, Zenon DEF StopsRightly, SchedInv, TypeOK
<1> QED BY <1>2, <1>3, <1>4, <1>5, <1>6, Zenon DEF Calm

\* Nothing the invariants look at changes.
LEMMA IdleCalm ==
    ASSUME SchedInv, UNCHANGED <<state, pc, reaps, treeVars, stopNote>>
    PROVE  Calm
BY Zenon DEF treeVars, Calm, SleepsRightly, StopsRightly, Alive

-----------------------------------------------------------------------------
(* The Calm actions, one by one.                                           *)

\* schedule_inner removes what is dead, and the dispatch runs what was Ready.
LEMMA ScheduleCalm == ASSUME SchedInv, Schedule PROVE Calm
<1> USE DEF treeVars, noteVars
<1>1. /\ UNCHANGED <<nextPid, tgid, parent, children, vforkParent, stopNote, pc>>
      /\ stopNote \subseteq Pids /\ current \in Pids /\ state \in [Pids -> States]
  BY Zenon DEF Schedule, schedule_inner, Dispatch, SchedInv, TypeOK
<1>2. CASE schedule_inner
  <2>1. \A p \in Pids : state'[p] = IF <<p, "RemoveEntry">> \in reap_pending_threads THEN "Absent"
                                   ELSE IF p = current /\ state[p] \in {"Ready", "Running"} THEN "Ready"
                                   ELSE state[p]
    BY <1>1, <1>2, Zenon DEF schedule_inner, reap_pending_threads
  <2>2. \A p \in Pids : <<p, "RemoveEntry">> \in reap_pending_threads => ~Alive(p)
    BY Zenon DEF reap_pending_threads, SchedInv
  <2>3. \A p \in Pids : Alive(p)' <=> Alive(p)
    BY <2>1, <2>2, Zenon DEF Alive
  <2>4. reaps' = reaps \ reap_pending_threads
    BY <1>2, Zenon DEF schedule_inner
  <2>5. /\ \A p \in Pids : state'[p] = "Zombie" => state[p] = "Zombie"
        /\ \A p \in Pids : state'[p] = "Blocked" => state[p] = "Blocked"
        /\ \A p \in Pids : state[p] = "Stopped" => state'[p] = "Stopped"
    BY <2>1, <2>2, Zenon DEF Alive
  <2>6. SleepsRightly /\ StopsRightly
    BY <1>1, <2>5, Zenon DEF SleepsRightly, StopsRightly
  <2> QED BY <1>1, <2>1, <2>3, <2>4, <2>5, <2>6, Zenon DEF Calm
<1>3. ASSUME NEW n \in Pids, Dispatch(n) PROVE Calm
  <2>1. state[n] = "Ready"
    BY <1>3 DEF Dispatch, SchedInv, ReadyQueueExact
  <2>2. state' = [state EXCEPT ![n] = "Running"] /\ reaps' = reaps
    BY <1>3, Zenon DEF Dispatch
  <2>3. \A p \in Pids : Alive(p)' <=> Alive(p)
    BY <1>1, <2>1, <2>2, Zenon DEF Alive
  <2>4. SleepsRightly /\ StopsRightly
    BY <1>1, <2>1, <2>2, Zenon DEF SleepsRightly, StopsRightly
  <2> QED BY <1>1, <2>1, <2>2, <2>3, <2>4, Zenon DEF Calm
<1> QED BY <1>2, <1>3, Zenon DEF Schedule

\* A sleep for an event, its end, preemption and sigaction.
LEMMA SleepCalm ==
    ASSUME SchedInv, NEW t \in Pids,
           ResumeSleep(t) \/ BlockIn(t, Sleep) \/ BlockIn(t, Io) \/ Preempt(t) \/ do_sigaction(t)
    PROVE  Calm
<1> USE DEF treeVars, noteVars, schedVars
<1>1. /\ cpu = "run" /\ current = t /\ UNCHANGED <<reaps, treeVars, stopNote>>
      /\ pc[t].op \in {"user", "sleep", "io"}
  BY DEF ResumeSleep, BlockIn, Preempt, do_sigaction, InUser, User, Sleep, Io
<1>2. state[t] = "Running" /\ Alive(t) /\ pc \in [Pids -> Call] /\ state \in [Pids -> States]
  BY <1>1, UserFacts, Zenon DEF SchedInv, TypeOK
<1>3. /\ User \in Call /\ Sleep \in Call /\ Io \in Call /\ pc[t] \in Call
      /\ User.op = "user" /\ Sleep.op = "sleep" /\ Io.op = "io"
  BY <1>2, Zenon DEF Call, User, Sleep, Io
<1>4. CASE UNCHANGED <<state, pc>>
  BY <1>1, <1>4, IdleCalm, Zenon
<1>5. CASE Return(t) /\ UNCHANGED state
  <2>1. pc' = [pc EXCEPT ![t] = User]
    BY <1>5, Zenon DEF Return
  <2> QED BY <1>1, <1>2, <1>3, <1>5, <2>1, StillCalm, Zenon
<1>6. ASSUME NEW call \in {Sleep, Io, pc[t]}, Block(t, call) PROVE Calm
  <2>1. /\ state' = [state EXCEPT ![t] = "Blocked"] /\ pc' = [pc EXCEPT ![t] = call]
        /\ call \in Call /\ call.op \in {"user", "sleep", "io"}
    BY <1>1, <1>3, <1>6, Zenon DEF Block
  <2>2. pc'[t] = call
    BY <1>2, <2>1, Zenon
  <2> QED BY <1>1, <1>2, <2>1, <2>2, StillCalm, Zenon
<1> QED BY <1>4, <1>5, <1>6, Zenon DEF ResumeSleep, BlockIn, Preempt, do_sigaction

\* wait4, unless it reaps.
LEMMA WaitCalm ==
    ASSUME SchedInv, NEW t \in Pids, NEW call \in Call, call.op = "wait4",
           cpu = "run", current = t, pc[t].op \in {"user", "wait4"}, WaitPass(t, call),
           \A c \in Zombies(Matching(t, call)) : ~ReapChild(t, c)
    PROVE  Calm
<1> USE DEF treeVars
<1> DEFINE M == Matching(t, call)
<1>1. UNCHANGED <<reaps, nextPid, tgid, parent, vforkParent>>
  BY Zenon DEF WaitPass
<1>2. /\ state[t] = "Running" /\ Alive(t) /\ pc \in [Pids -> Call] /\ state \in [Pids -> States]
      /\ User \in Call /\ User.op = "user"
  BY UserFacts, Zenon DEF SchedInv, TypeOK, Call, User
<1>3. ASSUME NEW stops, NEW conts, Report(stops, conts), Return(t) PROVE Calm
  <2>1. pc' = [pc EXCEPT ![t] = User] /\ state' = state /\ children' = children /\ stopNote' \subseteq stopNote
    BY <1>3, Zenon DEF Return, Report
  <2> QED BY <1>1, <1>2, <2>1, StillCalm, Zenon
<1>4. CASE NothingToReport(call, M) /\ Block(t, call) /\ UNCHANGED <<children, stopNote>>
  <2>1. state' = [state EXCEPT ![t] = "Blocked"] /\ pc' = [pc EXCEPT ![t] = call]
    BY <1>4, Zenon DEF Block
  <2>2. pc'[t] = call
    BY <1>2, <2>1, Zenon
  <2> QED BY <1>1, <1>2, <1>4, <2>1, <2>2, StillCalm, Zenon
<1> QED BY <1>3, <1>4, Zenon DEF WaitPass, WaitReturns

\* Stopping a thread leaves a report and wakes a parent that waits for one.
LEMMA StopCalm ==
    ASSUME SchedInv, NEW r \in Pids, Alive(r), Stop(r), UNCHANGED <<pc, reaps, treeVars>>
    PROVE  Calm
<1> USE DEF treeVars
<1> DEFINE R == StopWakes(r)
           S == {r}
<1>1. Move(R, {}, S, {}) /\ stopNote' = stopNote \cup {r}
  BY Zenon DEF Stop
<1>2. \A p \in R : state[p] = "Blocked"
  BY WokenBlocked, Zenon DEF SchedInv, StopWakes
<1>3. \A q \in wake_parent_if_waiting(r) : q \in R /\ q \in Pids
  BY Zenon DEF StopWakes, wake_parent_if_waiting
<1>4. stopNote \subseteq Pids
  BY Zenon DEF SchedInv, TypeOK
<1> HIDE DEF R
<1>5. /\ \A p \in Pids : p \in S => state'[p] = "Stopped"
      /\ \A p \in Pids : p \in R /\ p \notin S => state'[p] = "Ready"
      /\ \A p \in Pids : p \notin R /\ p \notin S => state'[p] = state[p]
      /\ \A p \in Pids : Alive(p)' <=> Alive(p)
      /\ \A p \in Pids : state'[p] = "Zombie" => state[p] = "Zombie"
      /\ \A p \in Pids : state'[p] = "Blocked" => state[p] = "Blocked" /\ p \notin R
  BY <1>1, <1>2, MoveCalm
<1>6. SleepsRightly
  BY <1>5, Zenon DEF SleepsRightly
<1>7. Exists(r)
  BY Zenon DEF Exists, Alive
<1>8. StopsRightly
  BY <1>1, <1>2, <1>3, <1>4, <1>5, <1>7, Zenon DEF StopsRightly
<1> QED BY <1>5, <1>6, <1>8, Zenon DEF Calm

\* SIGCONT takes back the reports of the threads it resumes.
LEMMA ContinueCalm ==
    ASSUME SchedInv, NEW T, Continue(T), UNCHANGED <<pc, reaps, treeVars>>
    PROVE  Calm
<1> DEFINE C == Resumed(T)
           R == C \cup UNION {notify_parent_sigchld(p) : p \in C}
<1>1. Move(R, {}, {}, {}) /\ stopNote' = stopNote \ C
  BY Zenon DEF Continue, StopsAfter
<1>2. \A p \in R : state[p] = "Blocked" \/ p \in C
  BY WokenBlocked DEF SchedInv
<1>3. \A p \in C : state[p] = "Stopped"
  BY Zenon DEF Resumed
<1> HIDE DEF C, R
<1>4. /\ \A p \in R : state[p] \in {"Blocked", "Stopped"}
      /\ \A p \in R : p \in stopNote' => state[p] # "Stopped"
  BY <1>1, <1>2, <1>3, Zenon
<1> QED BY <1>1, <1>4, WakeCalm, Zenon

\* A sleeper's event, and a signal left for a thread of the caller's group.
LEMMA WakeupCalm ==
    ASSUME SchedInv, NEW p \in Pids,
           \/ Wakeup(p)
           \/ (\E sig : KillOwnThread(p, sig)) /\ UNCHANGED pc
    PROVE  Calm
<1> USE DEF treeVars, noteVars
<1>1. PICK R \in SUBSET {p} : /\ Move(R, {}, {}, {})
                              /\ \A q \in R : state[q] = "Blocked"
  BY DEF Wakeup, enqueue_ready, KillOwnThread, Interrupted
<1>2. UNCHANGED <<pc, reaps, treeVars, stopNote>>
  BY Zenon DEF Wakeup, KillOwnThread
<1> QED BY <1>1, <1>2, WakeCalm, Zenon

-----------------------------------------------------------------------------
(* Threads that end.  K are the threads, all of one group other than pid   *)
(* 1's, and f the last of the group, or NoPid.                             *)
Ended(K, f) ==
    /\ K \subseteq Pids /\ (f # NoPid => f \in K)
    /\ \A p \in K : Alive(p) /\ ~Alive(p)' /\ tgid[p] # INIT
    /\ \A p, q \in K : tgid[p] = tgid[q]
    /\ \A p \in Pids \ K : state'[p] = state[p] \/ (state[p] = "Blocked" /\ state'[p] = "Ready")
    /\ UNCHANGED <<pc, nextPid, tgid, stopNote>>
    /\ vforkParent' = [p \in Pids |-> IF p \in K THEN NoPid ELSE vforkParent[p]]
    /\ parent' = [p \in Pids |-> IF p \in Orphans(K) /\ Exists(p) THEN INIT ELSE parent[p]]
    /\ \A p \in Pids : children'[p] \subseteq children[p] \cup IF p = INIT THEN Orphans(K) ELSE {}
    /\ \A p \in K : children'[p] = {}
    /\ \A p \in Pids \ K : \A c \in children[p] :
         c \in children'[p] \/ (auto_reap(f) /\ c = f /\ p = parent[f])
    /\ \A c \in Orphans(K) : c \in children'[INIT] \/ (auto_reap(f) /\ c = f /\ INIT = parent[f])
    /\ reaps \subseteq reaps'
    /\ \A p \in K : p # f => <<p, "RemoveEntry">> \in reaps'
    /\ auto_reap(f) => state'[f] = "Absent" \/ <<f, "RemoveEntry">> \in reaps'
    /\ \A q \in vfork_release(K) \cup reparent_orphans(K) : state'[q] # "Blocked"
    /\ f # NoPid => \A q \in wake_parent_if_waiting(f) : state'[q] # "Blocked"

\* terminate_process does this.
LEMMA TerminateEnds ==
    ASSUME SchedInv, tgid[INIT] = INIT,
           NEW K \in SUBSET Pids, NEW f \in K \cup {NoPid}, NEW W \in SUBSET Pids,
           \A p \in K : Alive(p) /\ tgid[p] # INIT,
           \A p, q \in K : tgid[p] = tgid[q],
           \A q \in W : state[q] = "Blocked",
           terminate_process(K, f, W), UNCHANGED <<pc, nextPid, tgid, stopNote>>
    PROVE  Ended(K, f)
<1> DEFINE notified == IF f = NoPid THEN {}
                       ELSE wake_parent_if_waiting(f) \cup notify_parent_sigchld(f)
           R == W \cup vfork_release(K) \cup reparent_orphans(K) \cup notified
           G == IF auto_reap(f) /\ f # NoPid /\ f # current THEN {f} ELSE {}
<1>1. Move(R, K, {}, G)
  BY Zenon DEF terminate_process
<1>2. \A p \in R : state[p] = "Blocked"
  BY WokenBlocked DEF SchedInv
<1>3. G \subseteq K
  BY Zenon DEF NoPid
<1>4. /\ vfork_release(K) \subseteq R /\ reparent_orphans(K) \subseteq R
      /\ f # NoPid => wake_parent_if_waiting(f) \subseteq R
  OBVIOUS
<1>5. R \subseteq Pids
  BY PidFacts, Zenon DEF vfork_release, reparent_orphans, wake_parent_if_waiting, notify_parent_sigchld
<1>6. auto_reap(f) => f \in K /\ (f \in G \/ f = current)
  BY Zenon DEF auto_reap
<1> HIDE DEF R, G
<1>7. \A p \in Pids : state'[p] = IF p \in G THEN "Absent" ELSE IF p \in K THEN "Zombie"
                                  ELSE IF p \in R THEN "Ready" ELSE state[p]
  BY <1>1, Zenon DEF Move
<1>8. /\ \A p \in K : ~Alive(p)'
      /\ \A p \in Pids \ K : state'[p] = state[p] \/ (state[p] = "Blocked" /\ state'[p] = "Ready")
      /\ \A q \in R : state'[q] # "Blocked"
  BY <1>2, <1>3, <1>5, <1>7, Zenon DEF Alive
<1>9. /\ vforkParent' = [p \in Pids |-> IF p \in K THEN NoPid ELSE vforkParent[p]]
      /\ parent' = [p \in Pids |-> IF p \in Orphans(K) /\ Exists(p) THEN INIT ELSE parent[p]]
  BY Zenon DEF terminate_process
<1>10. reaps' = reaps \cup {<<p, "RemoveEntry">> : p \in K \ {f}}
                     \cup IF f = current
                          THEN {<<f, IF auto_reap(f) THEN "RemoveEntry" ELSE "TeardownOnly">>}
                          ELSE {}
  BY Zenon DEF terminate_process
<1>11. INIT \in Pids \ K
  BY PidFacts, Zenon
<1>12. \A p \in Pids : children'[p] =
         (IF p \in K THEN {} ELSE IF p = INIT THEN children[p] \cup Orphans(K) ELSE children[p])
         \ (IF auto_reap(f) /\ p = parent[f] THEN {f} ELSE {})
  BY Zenon DEF terminate_process, Adopted
<1>13. /\ \A p \in Pids : children'[p] \subseteq children[p] \cup IF p = INIT THEN Orphans(K) ELSE {}
       /\ \A p \in K : children'[p] = {}
       /\ \A p \in Pids \ K : \A c \in children[p] :
            c \in children'[p] \/ (auto_reap(f) /\ c = f /\ p = parent[f])
       /\ \A c \in Orphans(K) : c \in children'[INIT] \/ (auto_reap(f) /\ c = f /\ INIT = parent[f])
  BY <1>11, <1>12, ZenonT(40)
<1>14. /\ reaps \subseteq reaps'
       /\ \A p \in K : p # f => <<p, "RemoveEntry">> \in reaps'
  BY <1>10, Zenon
<1>15. auto_reap(f) => state'[f] = "Absent" \/ <<f, "RemoveEntry">> \in reaps'
  BY <1>3, <1>6, <1>7, <1>10, Zenon
<1>16. /\ \A q \in vfork_release(K) \cup reparent_orphans(K) : state'[q] # "Blocked"
       /\ f # NoPid => \A q \in wake_parent_if_waiting(f) : state'[q] # "Blocked"
  BY <1>4, <1>8, Zenon
<1> QED BY <1>8, <1>9, <1>13, <1>14, <1>15, <1>16, Zenon DEF Ended

\* terminate_thread_group does, for a thread that is alive.
LEMMA GroupEnds ==
    ASSUME SchedInv, tgid[INIT] = INIT, NEW t \in Pids, Alive(t), tgid[t] # INIT,
           terminate_thread_group(t), UNCHANGED <<pc, nextPid, tgid, stopNote>>
    PROVE  Ended(LiveGroup(t), LastOf(t))
<1> DEFINE K == LiveGroup(t)
           f == LastOf(t)
<1>1. terminate_process(K, f, {})
  BY Zenon DEF terminate_thread_group
<1>2. tgid \in [Pids -> Pids] /\ tgid[tgid[t]] = tgid[t]
  BY Zenon DEF SchedInv, TypeOK
<1>3. /\ K \subseteq Pids /\ f \in K
      /\ \A p \in K : Alive(p) /\ tgid[p] = tgid[t]
  BY <1>2, Zenon DEF LiveGroup, LastOf
<1> HIDE DEF K, f
<1>4. Ended(K, f)
  BY <1>1, <1>3, TerminateEnds
<1> QED BY <1>4, Zenon DEF K, f

EndStep == \E K \in SUBSET Pids, f \in Pids \cup {NoPid} : Ended(K, f)

\* Whatever ends threads is an EndStep.
LEMMA EndedIsEndStep == \A K, f : Ended(K, f) => EndStep
<1> SUFFICES ASSUME NEW K, NEW f, Ended(K, f) PROVE EndStep
  OBVIOUS
<1>1. K \in SUBSET Pids /\ f \in Pids \cup {NoPid}
  BY Zenon DEF Ended
<1> QED BY <1>1, Zenon DEF EndStep

\* exit and exit_group.
LEMMA ExitEnds ==
    ASSUME SchedInv, tgid[INIT] = INIT, NEW t \in Pids, do_exit(t) \/ do_exit_group(t)
    PROVE  EndStep
<1> USE DEF noteVars
<1>1. /\ cpu = "run" /\ current = t /\ tgid[t] # INIT
      /\ UNCHANGED <<pc, nextPid, tgid, stopNote>>
  BY Zenon DEF do_exit, do_exit_group, Exiting, InUser
<1>2. Alive(t)
  BY <1>1, UserFacts, Zenon
<1>3. CASE do_exit(t)
  <2> DEFINE K == {t}
             f == IF LiveGroup(t) \subseteq {t} THEN t ELSE NoPid
  <2>1. PICK W \in FutexWakes(t) : terminate_process(K, f, W)
    BY <1>3, Zenon DEF do_exit
  <2>2. W \subseteq Pids /\ \A q \in W : state[q] = "Blocked"
    BY WokenBlocked DEF FutexWakes, SchedInv
  <2>3. K \subseteq Pids /\ f \in K \cup {NoPid} /\ \A p \in K : p = t
    OBVIOUS
  <2> HIDE DEF K, f
  <2>4. Ended(K, f)
    BY <1>1, <1>2, <2>1, <2>2, <2>3, TerminateEnds, Zenon
  <2> QED BY <2>4, EndedIsEndStep, Zenon
<1>4. CASE do_exit_group(t)
  BY <1>1, <1>2, <1>4, GroupEnds, EndedIsEndStep, Zenon DEF do_exit_group
<1> QED BY <1>3, <1>4, Zenon

\* A signal for a thread outside pid 1's group.
LEMMA KillOtherShape ==
    ASSUME SchedInv, tgid[INIT] = INIT, NEW r \in Pids, Alive(r), tgid[r] # INIT,
           NEW sig, KillOther(r, sig), UNCHANGED pc
    PROVE  Calm \/ EndStep
<1>1. CASE terminate_thread_group(r) /\ UNCHANGED <<nextPid, tgid, stopNote>>
  BY <1>1, GroupEnds, EndedIsEndStep, Zenon
<1>2. CASE Stop(r) /\ UNCHANGED <<reaps, treeVars>>
  BY <1>2, StopCalm, Zenon
<1>3. CASE Continue({r}) /\ UNCHANGED <<reaps, treeVars>>
  BY <1>3, ContinueCalm, Zenon
<1> QED BY <1>1, <1>2, <1>3, Zenon DEF KillOther

-----------------------------------------------------------------------------
(* A new entry n, made by t: a thread of t's group, a child, or a child    *)
(* that borrows t's address space while t sleeps.                          *)
Created(t, n) ==
    /\ t \in Pids /\ n \in Pids /\ n = nextPid /\ n # t /\ nextPid' = n + 1
    /\ state[t] = "Running" /\ pc[t] = User /\ state'[n] = "Ready"
    /\ \A p \in Pids \ {t, n} : state'[p] = state[p] /\ pc'[p] = pc[p]
    /\ \A p \in Pids \ {n} : tgid'[p] = tgid[p] /\ parent'[p] = parent[p] /\ vforkParent'[p] = vforkParent[p]
    /\ \A p \in Pids \ {t} : children'[p] = children[p]
    /\ UNCHANGED <<stopNote, reaps>>
    /\ \/ tgid'[n] = tgid[t] /\ tgid[t] # INIT /\ children'[t] = children[t]
       \/ tgid'[n] = n /\ parent'[n] = t /\ children'[t] = children[t] \cup {n}
    /\ \/ state'[t] = "Running" /\ pc'[t] = User /\ vforkParent'[n] = vforkParent[n]
       \/ state'[t] = "Blocked" /\ pc'[t] = Vfork(n) /\ vforkParent'[n] = t

\* fork, vfork and clone create one thread, with the next pid.
LEMMA CreateShape ==
    ASSUME SchedInv, NEW t \in Pids, do_clone(t) \/ do_fork(t) \/ do_vfork(t)
    PROVE  Created(t, nextPid)
<1> DEFINE n == nextPid
<1>1. cpu = "run" /\ current = t /\ pc[t] = User /\ n <= MaxPid /\ nextPid' = n + 1
  BY Zenon DEF do_clone, do_fork, do_vfork, ForkEntry, NewEntry, InUser
<1>2. state[t] = "Running" /\ Alive(t) /\ TypeOK
  BY <1>1, UserFacts, Zenon DEF SchedInv
<1>3. n \in Pids /\ state[n] = "Absent" /\ n # t
  BY <1>1, <1>2, SMTT(20) DEF SchedInv, TypeOK, Pids
<1>4. /\ UNCHANGED <<stopNote, reaps>>
      /\ \A p \in Pids \ {n} : tgid'[p] = tgid[p] /\ parent'[p] = parent[p]
      /\ \/ tgid'[n] = tgid[t] /\ tgid[t] # INIT /\ children' = children
         \/ tgid'[n] = n /\ parent'[n] = t /\ children' = [children EXCEPT ![t] = @ \cup {n}]
  BY <1>2, <1>3, SMTT(20) DEF do_clone, do_fork, do_vfork, ForkEntry, NewEntry, TypeOK
<1>5. \/ Move({n}, {}, {}, {}) /\ UNCHANGED <<pc, vforkParent>>
      \/ /\ state' = [state EXCEPT ![n] = "Ready", ![t] = "Blocked"]
         /\ pc' = [pc EXCEPT ![t] = Vfork(n)]
         /\ vforkParent' = [vforkParent EXCEPT ![n] = t]
  BY Zenon DEF do_clone, do_fork, do_vfork, enqueue_ready
<1>6. /\ \A p \in Pids \ {t} : children'[p] = children[p]
      /\ \/ tgid'[n] = tgid[t] /\ tgid[t] # INIT /\ children'[t] = children[t]
         \/ tgid'[n] = n /\ parent'[n] = t /\ children'[t] = children[t] \cup {n}
  BY <1>2, <1>4, SMTT(20) DEF TypeOK
<1>7. /\ state'[n] = "Ready"
      /\ \A p \in Pids \ {t, n} : state'[p] = state[p] /\ pc'[p] = pc[p]
      /\ \A p \in Pids \ {n} : vforkParent'[p] = vforkParent[p]
      /\ \/ state'[t] = "Running" /\ pc'[t] = User /\ vforkParent'[n] = vforkParent[n]
         \/ state'[t] = "Blocked" /\ pc'[t] = Vfork(n) /\ vforkParent'[n] = t
  <2>1. CASE Move({n}, {}, {}, {}) /\ UNCHANGED <<pc, vforkParent>>
    BY <1>1, <1>2, <1>3, <2>1, Zenon DEF TypeOK, Move
  <2>2. CASE /\ state' = [state EXCEPT ![n] = "Ready", ![t] = "Blocked"]
             /\ pc' = [pc EXCEPT ![t] = Vfork(n)]
             /\ vforkParent' = [vforkParent EXCEPT ![n] = t]
    BY <1>2, <1>3, <2>2, SMTT(20) DEF TypeOK
  <2> QED BY <1>5, <2>1, <2>2, Zenon
<1> QED BY <1>1, <1>2, <1>3, <1>4, <1>6, <1>7, Zenon DEF Created

-----------------------------------------------------------------------------
(* A zombie child c reaped by t, a borrowed address space given back by    *)
(* exec, and a vfork caller that goes on or sleeps again.                  *)
Reaped(t, c) ==
    /\ t \in Pids /\ c \in children[t] /\ state[t] = "Running" /\ state[c] = "Zombie"
    /\ pc[t].op \in {"user", "wait4"} /\ pc' = [pc EXCEPT ![t] = User]
    /\ state' = [state EXCEPT ![c] = "Absent"]
    /\ children' = [children EXCEPT ![t] = @ \ {c}]
    /\ UNCHANGED <<nextPid, tgid, parent, vforkParent, stopNote, reaps>>

Executed(t) ==
    /\ t \in Pids /\ vforkParent' = [vforkParent EXCEPT ![t] = NoPid]
    /\ \A p \in Pids : \/ state'[p] = state[p]
                       \/ state[p] = "Blocked" /\ pc[p].op = "vfork" /\ state'[p] = "Ready"
    /\ \A q \in Pids : vforkParent[t] = q /\ pc[q] = Vfork(t) => state'[q] # "Blocked"
    /\ UNCHANGED <<nextPid, tgid, parent, children, pc, stopNote, reaps>>

VforkPassed(t) ==
    /\ t \in Pids /\ state[t] = "Running" /\ pc[t].op = "vfork"
    /\ \/ vfork_released(t) /\ pc' = [pc EXCEPT ![t] = User] /\ UNCHANGED state
       \/ ~vfork_released(t) /\ state' = [state EXCEPT ![t] = "Blocked"] /\ pc' = pc
    /\ UNCHANGED <<nextPid, tgid, parent, children, vforkParent, stopNote, reaps>>

\* execve lets the vfork caller of the process go.
LEMMA ExecShape == ASSUME SchedInv, NEW t \in Pids, do_execve(t) PROVE Executed(t)
<1> DEFINE R == vfork_release({t})
<1>1. Move(R, {}, {}, {})
  BY Zenon DEF do_execve
<1>2. /\ \A q \in R : state[q] = "Blocked" /\ pc[q].op = "vfork"
      /\ \A q \in Pids : vforkParent[t] = q /\ pc[q] = Vfork(t) /\ state[q] = "Blocked" => q \in R
  BY DEF vfork_release, Vfork
<1>3. state \in [Pids -> States]
  BY Zenon DEF SchedInv, TypeOK
<1> HIDE DEF R
<1>4. \A p \in Pids : state'[p] = IF p \in R THEN "Ready" ELSE state[p]
  BY <1>1, <1>3, Zenon DEF Move
<1>5. UNCHANGED <<nextPid, tgid, parent, children, pc, stopNote, reaps>>
  BY Zenon DEF do_execve, noteVars
<1>6. vforkParent' = [vforkParent EXCEPT ![t] = NoPid]
  BY Zenon DEF do_execve
<1> QED BY <1>2, <1>4, <1>5, <1>6, Zenon DEF Executed

\* A vfork caller that runs again goes on or sleeps again.
LEMMA ResumeVforkShape == ASSUME SchedInv, NEW t \in Pids, ResumeVfork(t) PROVE VforkPassed(t)
<1>1. state[t] = "Running"
  BY UserFacts, Zenon DEF ResumeVfork
<1>2. pc \in [Pids -> Call]
  BY Zenon DEF SchedInv, TypeOK
<1>3. [pc EXCEPT ![t] = pc[t]] = pc
  BY <1>2, Zenon
<1> QED BY <1>1, <1>3, Zenon DEF ResumeVfork, Return, Block, VforkPassed, treeVars, noteVars

\* One pass of wait4's loop.
LEMMA WaitShape ==
    ASSUME SchedInv, NEW t \in Pids, NEW call \in Call, call.op = "wait4",
           cpu = "run", current = t, pc[t].op \in {"user", "wait4"}, WaitPass(t, call)
    PROVE  Calm \/ \E c \in Pids : Reaped(t, c)
<1>1. CASE \A c \in Zombies(Matching(t, call)) : ~ReapChild(t, c)
  BY <1>1, WaitCalm, Zenon
<1>2. ASSUME NEW c \in Zombies(Matching(t, call)), ReapChild(t, c) PROVE Reaped(t, c) /\ c \in Pids
  <2>1. /\ TypeOK /\ state[t] = "Running"
    BY UserFacts, Zenon DEF SchedInv
  <2>2. c \in children[t] /\ state[c] = "Zombie" /\ c \in Pids
    BY <2>1, Zenon DEF Zombies, Matching, TypeOK
  <2>3. /\ Move({}, {}, {}, {c}) /\ children' = [children EXCEPT ![t] = @ \ {c}]
        /\ UNCHANGED <<nextPid, tgid, parent, vforkParent, stopNote, reaps>>
    BY <1>2, Zenon DEF ReapChild, WaitPass
  <2>4. state' = [state EXCEPT ![c] = "Absent"]
    BY <2>1, <2>3, Zenon DEF Move, TypeOK
  <2>5. pc' = [pc EXCEPT ![t] = User]
    <3>1. state'[c] # state[c] /\ c # t
      BY <2>1, <2>2, <2>4, Zenon DEF TypeOK
    <3>2. ~Report({}, {}) /\ ~Block(t, call)
      <4>1. ~Report({}, {})
        BY <3>1, Zenon DEF Report
      <4>2. ~Block(t, call)
        BY <3>1, <2>1, <2>2, Zenon DEF Block, TypeOK
      <4> QED BY <4>1, <4>2, Zenon
    <3> QED BY <3>2, Zenon DEF WaitPass, Return
  <2> QED BY <2>1, <2>2, <2>3, <2>4, <2>5, Zenon DEF Reaped
<1> QED BY <1>1, <1>2, Zenon

\* wait4, called or resumed, reaps one child or leaves the tree alone.
LEMMA Wait4Shape ==
    ASSUME SchedInv, NEW t \in Pids,
           \/ \E target \in Pids \cup {NoPid}, options \in Options : do_wait4(t, target, options)
           \/ ResumeWait4(t)
    PROVE  Calm \/ \E c \in Pids : Reaped(t, c)
<1>1. ASSUME NEW target \in Pids \cup {NoPid}, NEW options \in Options, do_wait4(t, target, options)
      PROVE  Calm \/ \E c \in Pids : Reaped(t, c)
  <2>1. Wait4(target, options) \in Call /\ Wait4(target, options).op = "wait4"
    BY Zenon DEF Wait4, Call
  <2>2. pc[t].op = "user" /\ cpu = "run" /\ current = t /\ WaitPass(t, Wait4(target, options))
    BY <1>1 DEF do_wait4, InUser, User
  <2> QED BY <2>1, <2>2, WaitShape, Zenon
<1>2. CASE ResumeWait4(t)
  <2>1. pc[t] \in Call
    BY Zenon DEF SchedInv, TypeOK
  <2> QED BY <1>2, <2>1, WaitShape, Zenon DEF ResumeWait4
<1> QED BY <1>1, <1>2, Zenon

-----------------------------------------------------------------------------
(* Every step is of one of the kinds.                                      *)

StepShape ==
    \/ Calm \/ EndStep
    \/ \E t \in Pids : Created(t, nextPid) \/ Executed(t) \/ VforkPassed(t)
    \/ \E t, c \in Pids : Reaped(t, c)

\* The kind of step each system call is.
LEMMA CallingShape ==
    ASSUME SchedInv, TreeInv, NEW t \in Pids, Calling(t) \/ Resuming(t)
    PROVE  StepShape
<1>1. tgid[INIT] = INIT
  BY Zenon DEF TreeInv
<1>2. CASE do_fork(t) \/ do_vfork(t) \/ do_clone(t)
  BY <1>2, CreateShape, Zenon DEF StepShape
<1>3. CASE do_execve(t)
  BY <1>3, ExecShape, Zenon DEF StepShape
<1>4. CASE do_exit(t) \/ do_exit_group(t)
  BY <1>1, <1>4, ExitEnds, Zenon DEF StepShape
<1>5. CASE \/ \E target \in Pids \cup {NoPid}, options \in Options : do_wait4(t, target, options)
           \/ ResumeWait4(t)
  BY <1>5, Wait4Shape, Zenon DEF StepShape
<1>6. CASE ResumeSleep(t) \/ BlockIn(t, Sleep) \/ BlockIn(t, Io) \/ Preempt(t) \/ do_sigaction(t)
  BY <1>6, SleepCalm, Zenon DEF StepShape
<1>7. CASE ResumeVfork(t)
  BY <1>7, ResumeVforkShape, Zenon DEF StepShape
<1> QED BY <1>2, <1>3, <1>4, <1>5, <1>6, <1>7, Zenon DEF Calling, Resuming

\* The kind of step the sending and the delivery of a signal are.
LEMMA KillingShape ==
    ASSUME SchedInv, TreeInv, NEW t \in Pids, Killing(t)
    PROVE  StepShape
<1> USE DEF treeVars, noteVars
<1>1. tgid[INIT] = INIT /\ TypeOK
  BY Zenon DEF TreeInv, SchedInv
<1>2. ASSUME NEW target \in Pids, NEW sig \in Signals, do_kill(t, target, sig) PROVE StepShape
  <2>1. PICK r \in route_signal_target(target) :
          /\ Signalled(r) /\ ~discards(r)
          /\ KillOwnThread(r, sig) \/ KillOther(r, sig)
    BY <1>2, Zenon DEF do_kill
  <2>2. r \in Pids /\ Alive(r) /\ tgid[r] # INIT
    BY <2>1, Zenon DEF route_signal_target, LiveGroup, Signalled, discards
  <2>3. UNCHANGED pc
    BY <1>2, Zenon DEF do_kill
  <2> QED BY <1>1, <2>1, <2>2, <2>3, KillOtherShape, WakeupCalm, Zenon DEF StepShape
<1>3. ASSUME NEW G, NEW sig, do_kill_group(t, G, sig) PROVE StepShape
  BY <1>3, IdleCalm, Zenon DEF do_kill_group, signal_foreground_group, StepShape
<1>4. ASSUME NEW G, do_kill_group_cont(t, G) PROVE StepShape
  BY <1>4, ContinueCalm, Zenon DEF do_kill_group_cont, StepShape
<1>5. CASE DeliverSignal(t)
  <2>1. cpu = "run" /\ current = t /\ UNCHANGED pc /\ pending[t] # {}
    BY <1>5, Zenon DEF DeliverSignal, InUser
  <2>2. Alive(t) /\ tgid[t] # INIT
    BY <2>1, UserFacts, Zenon DEF TreeInv
  <2>3. CASE terminate_thread_group(t) /\ UNCHANGED <<nextPid, tgid, stopNote>>
    BY <1>1, <2>1, <2>2, <2>3, GroupEnds, EndedIsEndStep, Zenon DEF StepShape
  <2>4. CASE Stop(t) /\ UNCHANGED <<reaps, treeVars>>
    BY <2>1, <2>2, <2>4, StopCalm, Zenon DEF StepShape
  <2> QED BY <1>5, <2>3, <2>4, Zenon DEF DeliverSignal
<1> QED BY <1>2, <1>3, <1>4, <1>5, Zenon DEF Killing

\* Every step is of one of the six kinds.
LEMMA NextShape ==
    ASSUME SchedInv, TreeInv, [Next]_vars
    PROVE  StepShape
<1> USE DEF treeVars, noteVars
<1>1. CASE Schedule
  BY <1>1, ScheduleCalm, Zenon DEF StepShape
<1>2. CASE \E t \in Pids : Calling(t) \/ Resuming(t) \/ Killing(t)
  BY <1>2, CallingShape, KillingShape, Zenon
<1>3. CASE Interrupt
  <2>1. ASSUME NEW G, NEW sig, keyboard_interrupt_handler(G, sig) PROVE StepShape
    BY <2>1, IdleCalm, Zenon DEF keyboard_interrupt_handler, signal_foreground_group, StepShape
  <2> QED BY <1>3, <2>1, WakeupCalm, Zenon DEF Interrupt, StepShape
<1>4. CASE SignalNext
  <2>1. PICK r \in sigwork.targets :
          \/ Alive(r) /\ KillOther(r, sigwork.sig)
          \/ ~Alive(r) /\ UNCHANGED <<state, queue, space, reaps, treeVars, stopNote, contNote, pending>>
    BY <1>4, Zenon DEF SignalNext
  <2>2. r \in Pids /\ tgid[r] # INIT /\ tgid[INIT] = INIT
    BY <2>1, Zenon DEF SchedInv, TypeOK, TreeInv
  <2>3. UNCHANGED pc
    BY <1>4, Zenon DEF SignalNext
  <2> QED BY <2>1, <2>2, <2>3, KillOtherShape, IdleCalm, Zenon DEF StepShape
<1>5. CASE SignalDone
  BY <1>5, IdleCalm, Zenon DEF SignalDone, StepShape
<1>6. CASE UNCHANGED vars
  BY <1>6, IdleCalm, Zenon DEF vars, schedVars, StepShape
<1> QED BY <1>1, <1>2, <1>3, <1>4, <1>5, <1>6, Zenon DEF Next

\* Pid 1's group is sent no signal that would end or stop it (init::discards).
LEMMA NextMild ==
    ASSUME SchedInv, [Next]_vars
    PROVE  Mild
<1> USE DEF treeVars, noteVars
<1>1. TypeOK
  BY Zenon DEF SchedInv
<1>2. CASE UNCHANGED <<pending, sigwork>>
  BY <1>2, SMTT(20) DEF Mild
<1>3. ASSUME NEW G, NEW sig, NEW from, signal_foreground_group(G, sig, from) PROVE Mild
  BY <1>3, SMTT(20) DEF signal_foreground_group, discards, Mild
<1>4. ASSUME NEW T, Continue(T), UNCHANGED sigwork PROVE Mild
  BY <1>4, Zenon DEF Continue, Mild
<1>5. CASE Schedule
  BY <1>2, <1>5, Zenon DEF Schedule
<1>6. ASSUME NEW t \in Pids, Calling(t) \/ Resuming(t) PROVE Mild
  <2>1. UNCHANGED <<pending, sigwork>>
    BY <1>6, Zenon DEF Calling, Resuming, do_fork, do_vfork, do_clone, ForkEntry, NewEntry, do_execve,
                do_exit, do_exit_group, Exiting, do_wait4, WaitPass, BlockIn, do_sigaction, Preempt,
                ResumeVfork, ResumeWait4, ResumeSleep
  <2> QED BY <1>2, <2>1, Zenon
<1>7. ASSUME NEW r \in Pids, NEW sig, KillOther(r, sig), UNCHANGED sigwork PROVE Mild
  BY <1>2, <1>4, <1>7, Zenon DEF KillOther
<1>8. ASSUME NEW t \in Pids, Killing(t) PROVE Mild
  <2>1. ASSUME NEW target \in Pids, NEW sig \in Signals, do_kill(t, target, sig) PROVE Mild
    <3>1. PICK r \in route_signal_target(target) :
            /\ ~discards(r)
            /\ KillOwnThread(r, sig) \/ KillOther(r, sig)
      BY <2>1, Zenon DEF do_kill
    <3>2. r \in Pids /\ tgid[r] # INIT /\ UNCHANGED sigwork
      BY <2>1, <3>1, Zenon DEF route_signal_target, LiveGroup, discards, do_kill
    <3>3. CASE KillOwnThread(r, sig)
      <4>1. pending' = [pending EXCEPT ![r] = @ \cup {sig}]
        BY <3>3, Zenon DEF KillOwnThread
      <4> QED BY <1>1, <3>2, <4>1, Zenon DEF Mild, TypeOK
    <3> QED BY <1>7, <3>1, <3>2, <3>3, Zenon
  <2>2. CASE DeliverSignal(t)
    <3>1. sigwork' = sigwork /\ (pending' = pending \/ pending' = [pending EXCEPT ![t] = @ \ {"STOP"}])
      BY <2>2, Zenon DEF DeliverSignal
    <3> QED BY <1>1, <3>1 DEF Mild, TypeOK
  <2> QED BY <1>3, <1>4, <1>8, <2>1, <2>2, Zenon DEF Killing, do_kill_group, do_kill_group_cont
<1>9. CASE Interrupt
  BY <1>2, <1>3, <1>9, Zenon DEF Interrupt, Wakeup, keyboard_interrupt_handler
<1>10. CASE SignalNext
  <2>1. PICK r \in sigwork.targets :
          /\ sigwork' = [sigwork EXCEPT !.targets = @ \ {r}]
          /\ (Alive(r) /\ KillOther(r, sigwork.sig)) \/ UNCHANGED pending
    BY <1>10, Zenon DEF SignalNext
  <2>2. r \in Pids /\ sigwork'.targets \subseteq sigwork.targets
    BY <1>1, <2>1, Zenon DEF TypeOK
  <2>3. UNCHANGED pending \/ \E T : Continue(T)
    BY <2>1, Zenon DEF KillOther
  <2> QED BY <2>2, <2>3, Zenon DEF Mild, Continue
<1>11. CASE SignalDone
  BY <1>11, Zenon DEF SignalDone, NoWork, Mild
<1>12. CASE UNCHANGED vars
  BY <1>2, <1>12, Zenon DEF vars
<1> QED BY <1>5, <1>6, <1>8, <1>9, <1>10, <1>11, <1>12, SMTT(20) DEF Next

-----------------------------------------------------------------------------
(* What the six kinds of step keep.                                        *)

\* What the step lemmas below need again and again of SchedInv.
LEMMA TreeTypes ==
    ASSUME SchedInv
    PROVE  /\ INIT \in Pids /\ NoPid \notin Pids /\ NoPid = 0 /\ INIT = 1
           /\ nextPid \in Nat /\ nextPid >= 2 /\ \A p \in Pids : p \in Nat
           /\ state \in [Pids -> States] /\ pc \in [Pids -> Call]
           /\ tgid \in [Pids -> Pids] /\ parent \in [Pids -> Pids \cup {NoPid}]
           /\ vforkParent \in [Pids -> Pids \cup {NoPid}]
           /\ children \in [Pids -> SUBSET Pids] /\ stopNote \subseteq Pids
           /\ \A p \in Pids : p >= nextPid => state[p] = "Absent"
           /\ \A p \in Pids : p < nextPid => tgid[p] < nextPid
           /\ \A p \in Pids : \A k : <<p, k>> \in reaps => ~Alive(p) /\ p < nextPid
<1>1. /\ INIT \in Pids /\ NoPid \notin Pids /\ NoPid = 0 /\ INIT = 1 /\ \A p \in Pids : p \in Nat
  BY PidFacts, Zenon DEF NoPid, INIT
<1>2. nextPid \in Nat /\ nextPid >= 2
  BY SchedulerAssumption DEF SchedInv, TypeOK
<1>3. /\ state \in [Pids -> States] /\ pc \in [Pids -> Call]
      /\ tgid \in [Pids -> Pids] /\ parent \in [Pids -> Pids \cup {NoPid}]
      /\ vforkParent \in [Pids -> Pids \cup {NoPid}]
      /\ children \in [Pids -> SUBSET Pids] /\ stopNote \subseteq Pids
  BY Zenon DEF SchedInv, TypeOK
<1>4. /\ \A p \in Pids : p >= nextPid => state[p] = "Absent"
      /\ \A p \in Pids : p < nextPid => tgid[p] < nextPid
      /\ \A p \in Pids : \A k : <<p, k>> \in reaps => ~Alive(p) /\ p < nextPid
  BY Zenon DEF SchedInv
<1> QED BY <1>1, <1>2, <1>3, <1>4

\* A thread in the table has a pid that was handed out.
LEMMA ExistsSmall == ASSUME SchedInv, NEW p \in Pids, Exists(p) PROVE p < nextPid
BY TreeTypes DEF Exists

-----------------------------------------------------------------------------
(* Calm steps.                                                             *)

\* Calm steps keep the tree.
LEMMA CalmTree == ASSUME SchedInv, TreeInv, Calm, Mild PROVE TreeInv'
<1> USE DEF Calm
<1>1. \A p \in Pids : Exists(p)' => Exists(p)
  BY Zenon DEF Exists, Alive
<1>2. INIT \in Pids
  BY PidFacts, Zenon
<1>3. Alive(INIT)' /\ tgid'[INIT] = INIT
  BY <1>2, Zenon DEF TreeInv
<1>4. \A p \in Pids : tgid'[p] = INIT => pending'[p] = {} /\ p \notin sigwork'.targets
  BY Zenon DEF TreeInv, Mild
<1>5. \A p \in Pids : p >= nextPid' => p \notin stopNote' /\ children'[p] = {} /\ vforkParent'[p] = NoPid
  <2>1. \A p \in Pids : p >= nextPid => p \notin stopNote'
    BY TreeTypes, Zenon DEF TreeInv, StopsRightly, Exists
  <2> QED BY <2>1, Zenon DEF TreeInv
<1>6. /\ \A p \in Pids : vforkParent'[p] < nextPid'
      /\ \A p \in Pids : state'[p] = "Zombie" => vforkParent'[p] = NoPid
  BY Zenon DEF TreeInv
<1>7. \A p \in Pids : \A c \in children'[p] :
        /\ c < nextPid' /\ c # INIT /\ tgid'[c] = c /\ tgid'[p] # c
        /\ Exists(c)' => parent'[c] = p
  BY <1>1, TreeTypes DEF TreeInv
<1>8. ASSUME NEW c \in Pids \ {INIT}, Exists(c)', tgid'[c] = c, <<c, "RemoveEntry">> \notin reaps'
      PROVE  \E q \in Pids : Alive(q)' /\ parent'[c] = q /\ c \in children'[q]
  <2>1. Alive(c)' \/ state'[c] = "Zombie"
    BY <1>8, Zenon DEF Exists, Alive
  <2>2. <<c, "RemoveEntry">> \notin reaps
    BY <1>8, <2>1, TreeTypes, Zenon
  <2>3. PICK q \in Pids : Alive(q) /\ parent[c] = q /\ c \in children[q]
    BY <1>1, <1>8, <2>2, Zenon DEF TreeInv
  <2> QED BY <2>3, Zenon
<1> QED BY <1>3, <1>4, <1>5, <1>6, <1>7, <1>8, Zenon DEF TreeInv

\* Calm steps note no stop of a thread that runs.
LEMMA CalmStops == ASSUME SchedInv, StopNoteIsStopped, Calm PROVE StopNoteIsStopped'
<1> SUFFICES ASSUME NEW p \in stopNote', Alive(p)' PROVE state'[p] = "Stopped"
  BY Zenon DEF StopNoteIsStopped
<1>1. CASE p \in stopNote
  <2>1. p \in Pids /\ Alive(p) /\ state[p] = "Stopped"
    BY <1>1, TreeTypes, Zenon DEF Calm, StopNoteIsStopped
  <2> QED BY <1>1, <2>1, Zenon DEF Calm, StopsRightly
<1>2. CASE p \notin stopNote
  BY <1>2, Zenon DEF Calm, StopsRightly
<1> QED BY <1>1, <1>2, Zenon

\* Calm steps neither end nor begin a vfork.
LEMMA CalmVfork == ASSUME SchedInv, VforkBorrows, Calm PROVE VforkBorrows'
<1>1. ASSUME NEW c \in Pids, NEW q \in Pids, Alive(c)', vforkParent'[c] = q, Alive(q)'
      PROVE  pc'[q] = Vfork(c)
  <2>1. pc[q] = Vfork(c)
    BY <1>1, Zenon DEF Calm, VforkBorrows
  <2> QED BY <2>1 DEF Calm, Vfork
<1>2. ASSUME NEW q \in Pids, state'[q] = "Blocked", pc'[q].op = "vfork"
      PROVE  Alive(pc[q].child)' /\ vforkParent'[pc'[q].child] = q
  <2>1. state[q] = "Blocked" /\ pc'[q] = pc[q]
    BY <1>2, Zenon DEF Calm, SleepsRightly
  <2>2. pc[q].child \in Pids
    BY <1>2, <2>1, TreeTypes, Zenon DEF Call
  <2> QED BY <1>2, <2>1, <2>2, Zenon DEF Calm, VforkBorrows
<1> QED BY <1>1, <1>2, Zenon DEF VforkBorrows

\* Calm steps leave no wait4 caller asleep beside something to report.
LEMMA CalmWait == ASSUME SchedInv, TreeInv, WaitNotLost, Calm PROVE WaitNotLost'
<1> USE DEF Calm
<1> SUFFICES ASSUME NEW t \in Pids, state'[t] = "Blocked", pc'[t].op = "wait4"
             PROVE  /\ Matching(t, pc[t])' # {}
                    /\ \A c \in Zombies(Matching(t, pc[t]))' : <<c, "RemoveEntry">> \in reaps'
                    /\ t # INIT => StopReports(Matching(t, pc[t]), pc[t].options)' = {}
  BY Zenon DEF WaitNotLost
<1> DEFINE call == pc'[t]
           M == Matching(t, call)
<1>1. /\ Matching(t, pc[t])' = M /\ M \subseteq Pids /\ M \subseteq children[t]
      /\ Zombies(Matching(t, pc[t]))' = {c \in M : state'[c] = "Zombie"}
      /\ StopReports(Matching(t, pc[t]), pc[t].options)' =
            {c \in M \cap stopNote' : "WUNTRACED" \in call.options /\ Exists(c)'}
  BY TreeTypes, Zenon DEF Matching, Zombies, StopReports
<1>2. \A p \in Pids : Exists(p)' => Exists(p)
  BY Zenon DEF Exists, Alive
<1>3. CASE state[t] = "Blocked" /\ pc'[t] = pc[t]
  <2>1. /\ M # {}
        /\ \A c \in M : state[c] = "Zombie" => <<c, "RemoveEntry">> \in reaps
        /\ t # INIT => \A c \in M \cap stopNote : ~("WUNTRACED" \in call.options /\ Exists(c))
    BY <1>3, Zenon DEF WaitNotLost, Zombies, StopReports
  <2>2. ASSUME NEW c \in M, c \in stopNote' \ stopNote PROVE FALSE
    <3>1. c \in Pids /\ Exists(c) /\ \A q \in wake_parent_if_waiting(c) : state'[q] # "Blocked"
      BY <2>2, Zenon DEF StopsRightly
    <3>2. parent[c] = t /\ pc[t].target \in {NoPid, c}
      BY <1>1, <1>3, <3>1, Zenon DEF TreeInv, Matching
    <3>3. t \in wake_parent_if_waiting(c)
      BY <1>3, <3>2, Zenon DEF wake_parent_if_waiting, WaitingForChild
    <3> QED BY <3>1, <3>3, Zenon
  <2> HIDE DEF M, call
  <2> QED BY <1>1, <1>2, <2>1, <2>2, Zenon
<1>4. CASE stopNote' \subseteq stopNote /\ NothingToReport(call, M)
  <2>1. M # {} /\ (\A c \in M : state[c] # "Zombie")
        /\ \A c \in M \cap stopNote : ~("WUNTRACED" \in call.options /\ Exists(c))
    BY <1>4, Zenon DEF NothingToReport, Zombies, StopReports
  <2> HIDE DEF M, call
  <2> QED BY <1>1, <1>2, <1>4, <2>1, Zenon
<1> QED BY <1>3, <1>4, Zenon DEF SleepsRightly

-----------------------------------------------------------------------------
(* Threads end.                                                            *)

\* Who is alive, in the table or asleep afterwards was so before.
LEMMA EndedFacts ==
    ASSUME SchedInv, TreeInv, NEW K, NEW f, Ended(K, f)
    PROVE  /\ INIT \in Pids \ K
           /\ \A p \in Pids : Alive(p)' <=> Alive(p) /\ p \notin K
           /\ \A p \in Pids : Exists(p)' => Exists(p)
           /\ \A p \in Pids : state'[p] = "Zombie" => p \in K \/ state[p] = "Zombie"
           /\ \A p \in Pids : state'[p] = "Blocked" => p \notin K /\ state[p] = "Blocked"
           /\ \A p \in Pids : \A c \in children[p] : c \in Pids /\ (Exists(c) => parent[c] = p)
           /\ \A c \in Orphans(K) : c \in Pids /\ (Exists(c) => parent[c] \in K)
<1>1. INIT \in Pids \ K
  BY PidFacts, Zenon DEF Ended, TreeInv
<1>2. \A p \in Pids : Alive(p)' <=> Alive(p) /\ p \notin K
  BY Zenon DEF Ended, Alive
<1>3. \A p \in Pids : Exists(p)' => Exists(p)
  BY Zenon DEF Ended, Exists, Alive
<1>4. /\ \A p \in Pids : state'[p] = "Zombie" => p \in K \/ state[p] = "Zombie"
      /\ \A p \in Pids : state'[p] = "Blocked" => p \notin K /\ state[p] = "Blocked"
  BY Zenon DEF Ended, Alive
<1>5. \A p \in Pids : \A c \in children[p] : c \in Pids /\ (Exists(c) => parent[c] = p)
  BY TreeTypes, Zenon DEF TreeInv
<1>6. K \subseteq Pids
  BY Zenon DEF Ended
<1>7. \A c \in Orphans(K) : c \in Pids /\ (Exists(c) => parent[c] \in K)
  BY <1>5, <1>6 DEF Orphans
<1> QED BY <1>1, <1>2, <1>3, <1>4, <1>5, <1>7, Zenon

\* A child, old or adopted, still has the parent that lists it.
LEMMA EndedChildren ==
    ASSUME SchedInv, TreeInv, NEW K, NEW f, Ended(K, f)
    PROVE  \A p \in Pids : \A c \in children'[p] :
             /\ c < nextPid' /\ c # INIT /\ tgid'[c] = c /\ tgid'[p] # c
             /\ Exists(c)' => parent'[c] = p
<1> SUFFICES ASSUME NEW p \in Pids, NEW c \in children'[p]
             PROVE  /\ c < nextPid /\ c # INIT /\ tgid[c] = c /\ tgid[p] # c
                    /\ Exists(c)' => parent'[c] = p
  BY DEF Ended
<1>1. parent' = [x \in Pids |-> IF x \in Orphans(K) /\ Exists(x) THEN INIT ELSE parent[x]]
  BY Zenon DEF Ended
<1>2. CASE c \in Orphans(K) /\ p = INIT
  <2>1. PICK k \in K : c \in children[k]
    BY <1>2, Zenon DEF Orphans
  <2>2. k \in Pids
    BY Zenon DEF Ended
  <2>3. c < nextPid /\ c # INIT /\ tgid[c] = c /\ tgid[INIT] = INIT
    BY <2>1, <2>2, Zenon DEF TreeInv
  <2> QED BY <1>1, <1>2, <2>3, EndedFacts, Zenon
<1>3. CASE c \in children[p] /\ ~(c \in Orphans(K) /\ p = INIT)
  <2>1. c < nextPid /\ c # INIT /\ tgid[c] = c /\ tgid[p] # c /\ c \in Pids
    BY <1>3, EndedFacts DEF TreeInv
  <2>2. p \notin K
    BY Zenon DEF Ended
  <2>3. Exists(c) => parent[c] = p /\ c \notin Orphans(K)
    BY <1>3, <2>2, EndedFacts
  <2> QED BY <1>1, <2>1, <2>3, EndedFacts, Zenon
<1>4. children'[p] \subseteq children[p] \cup IF p = INIT THEN Orphans(K) ELSE {}
  BY Zenon DEF Ended
<1> QED BY <1>2, <1>3, <1>4, Zenon

\* A process whose parent dies has pid 1 as its new one.
LEMMA EndedParents ==
    ASSUME SchedInv, TreeInv, NEW K, NEW f, Ended(K, f),
           NEW c \in Pids \ {INIT}, Exists(c)', tgid'[c] = c, <<c, "RemoveEntry">> \notin reaps'
    PROVE  \E q \in Pids : Alive(q)' /\ parent'[c] = q /\ c \in children'[q]
<1>1. parent' = [x \in Pids |-> IF x \in Orphans(K) /\ Exists(x) THEN INIT ELSE parent[x]]
  BY Zenon DEF Ended
<1>2. Exists(c) /\ <<c, "RemoveEntry">> \notin reaps /\ tgid[c] = c
  <2>1. Exists(c)
    BY EndedFacts, Zenon
  <2>2. reaps \subseteq reaps' /\ tgid' = tgid
    BY Zenon DEF Ended
  <2> QED BY <2>1, <2>2, Zenon
<1>3. PICK q \in Pids : Alive(q) /\ parent[c] = q /\ c \in children[q]
  BY <1>2, Zenon DEF TreeInv
<1>4. ~(auto_reap(f) /\ c = f)
  BY Zenon DEF Ended, Exists
<1>5. CASE q \in K
  <2>1. c \in Orphans(K) /\ parent'[c] = INIT
    BY <1>1, <1>2, <1>3, <1>5, Zenon DEF Orphans
  <2>2. c \in children'[INIT]
    BY <1>4, <2>1, Zenon DEF Ended
  <2>3. Alive(INIT)' /\ INIT \in Pids
    BY EndedFacts, Zenon DEF TreeInv
  <2> QED BY <2>1, <2>2, <2>3, Zenon
<1>6. CASE q \notin K
  <2>1. c \notin Orphans(K)
    BY <1>2, <1>3, <1>6, EndedFacts, Zenon
  <2>2. c \in children'[q]
    BY <1>3, <1>4, <1>6, Zenon DEF Ended
  <2> QED BY <1>1, <1>3, <1>6, <2>1, <2>2, EndedFacts, Zenon
<1> QED BY <1>5, <1>6, Zenon

\* The tree, when threads end: orphans go to pid 1.
LEMMA EndedTree ==
    ASSUME SchedInv, TreeInv, NEW K, NEW f, Ended(K, f), Mild
    PROVE  TreeInv'
<1>1. /\ vforkParent' = [p \in Pids |-> IF p \in K THEN NoPid ELSE vforkParent[p]]
      /\ UNCHANGED <<nextPid, tgid, stopNote>>
  BY Zenon DEF Ended
<1>2. Alive(INIT)' /\ tgid'[INIT] = INIT
  BY <1>1, EndedFacts, Zenon DEF TreeInv
<1>3. \A p \in Pids : tgid'[p] = INIT => pending'[p] = {} /\ p \notin sigwork'.targets
  BY <1>1, Zenon DEF TreeInv, Mild
<1>4. \A p \in Pids : p >= nextPid' => p \notin stopNote' /\ children'[p] = {} /\ vforkParent'[p] = NoPid
  <2> SUFFICES ASSUME NEW p \in Pids, p >= nextPid
               PROVE  p \notin stopNote' /\ children'[p] = {} /\ vforkParent'[p] = NoPid
    BY <1>1, Zenon
  <2>1. p # INIT
    BY TreeTypes
  <2>2. children'[p] \subseteq children[p]
    BY <2>1, Zenon DEF Ended
  <2> QED BY <1>1, <2>2, Zenon DEF TreeInv
<1>5. \A p \in Pids : vforkParent'[p] < nextPid'
  BY <1>1, TreeTypes DEF TreeInv
<1>6. \A p \in Pids : state'[p] = "Zombie" => vforkParent'[p] = NoPid
  BY <1>1, EndedFacts DEF TreeInv
<1> QED BY <1>2, <1>3, <1>4, <1>5, <1>6, EndedChildren, EndedParents, Zenon DEF TreeInv

\* The stops to report, when threads end.
LEMMA EndedStops ==
    ASSUME SchedInv, TreeInv, StopNoteIsStopped, NEW K, NEW f, Ended(K, f)
    PROVE  StopNoteIsStopped'
<1> SUFFICES ASSUME NEW p \in stopNote', Alive(p)' PROVE state'[p] = "Stopped"
  BY Zenon DEF StopNoteIsStopped
<1>1. p \in stopNote /\ p \in Pids
  BY TreeTypes, Zenon DEF Ended
<1>2. p \notin K /\ state[p] = "Stopped"
  BY <1>1, EndedFacts, Zenon DEF StopNoteIsStopped
<1> QED BY <1>1, <1>2, Zenon DEF Ended

\* vfork callers, when threads end: the caller of an ended child is released.
LEMMA EndedVfork ==
    ASSUME SchedInv, TreeInv, VforkBorrows, NEW K, NEW f, Ended(K, f)
    PROVE  VforkBorrows'
<1>1. /\ vforkParent' = [p \in Pids |-> IF p \in K THEN NoPid ELSE vforkParent[p]]
      /\ pc' = pc
  BY Zenon DEF Ended
<1>2. ASSUME NEW c \in Pids, NEW q \in Pids, Alive(c)', vforkParent'[c] = q, Alive(q)'
      PROVE  pc'[q] = Vfork(c)
  BY <1>1, <1>2, EndedFacts, Zenon DEF VforkBorrows
<1>3. ASSUME NEW q \in Pids, state'[q] = "Blocked", pc'[q].op = "vfork"
      PROVE  Alive(pc[q].child)' /\ vforkParent'[pc'[q].child] = q
  <2> DEFINE c == pc[q].child
  <2>1. state[q] = "Blocked" /\ pc[q].op = "vfork"
    BY <1>1, <1>3, EndedFacts, Zenon
  <2>2. c \in Pids /\ pc[q] = Vfork(c)
    BY <2>1, TreeTypes, Zenon DEF Call, Vfork
  <2>3. Alive(c) /\ vforkParent[c] = q
    BY <2>1, Zenon DEF VforkBorrows
  <2>4. c \notin K
    <3> SUFFICES ASSUME c \in K PROVE FALSE
      OBVIOUS
    <3>1. q \in vfork_release(K)
      BY <2>1, <2>2, <2>3, Zenon DEF vfork_release
    <3> QED BY <1>3, <3>1, Zenon DEF Ended
  <2> QED BY <1>1, <2>2, <2>3, <2>4, EndedFacts
<1> QED BY <1>2, <1>3, Zenon DEF VforkBorrows

\* A parent asleep in wait4 that a termination does not wake has lost nothing:
\* the dead were not its children, are being removed, or are not waited for.
LEMMA EndedWait ==
    ASSUME SchedInv, TreeInv, WaitNotLost, NEW K, NEW f, Ended(K, f)
    PROVE  WaitNotLost'
<1> SUFFICES ASSUME NEW t \in Pids, state'[t] = "Blocked", pc'[t].op = "wait4"
             PROVE  /\ Matching(t, pc[t])' # {}
                    /\ \A c \in Zombies(Matching(t, pc[t]))' : <<c, "RemoveEntry">> \in reaps'
                    /\ t # INIT => StopReports(Matching(t, pc[t]), pc[t].options)' = {}
  BY Zenon DEF WaitNotLost
<1> DEFINE call == pc[t]
           M == Matching(t, call)
           MM == {c \in children'[t] : call.target \in {NoPid, c}}
<1>1. /\ pc' = pc /\ stopNote' = stopNote /\ reaps \subseteq reaps' /\ K \subseteq Pids
      /\ f # NoPid => f \in K
  BY Zenon DEF Ended
<1>2. t \notin K /\ state[t] = "Blocked" /\ call.op = "wait4"
  BY <1>1, EndedFacts, Zenon
<1>3. /\ Matching(t, pc[t])' = MM
      /\ Zombies(Matching(t, pc[t]))' = {c \in MM : state'[c] = "Zombie"}
      /\ StopReports(Matching(t, pc[t]), pc[t].options)' =
            {c \in MM \cap stopNote : "WUNTRACED" \in call.options /\ Exists(c)'}
  BY <1>1, Zenon DEF Matching, Zombies, StopReports
<1>4. /\ M # {}
      /\ \A c \in M : state[c] = "Zombie" => <<c, "RemoveEntry">> \in reaps
      /\ t # INIT => \A c \in M \cap stopNote : ~("WUNTRACED" \in call.options /\ Exists(c))
  BY <1>2, Zenon DEF WaitNotLost, Zombies, StopReports
<1>5. f # NoPid /\ parent[f] = t => call.target \notin {NoPid, f}
  <2> SUFFICES ASSUME f # NoPid, parent[f] = t, call.target \in {NoPid, f} PROVE FALSE
    OBVIOUS
  <2>1. t \in wake_parent_if_waiting(f)
    BY <1>2, Zenon DEF wake_parent_if_waiting, WaitingForChild
  <2> QED BY <2>1, Zenon DEF Ended
<1>6. M \subseteq MM
  <2> SUFFICES ASSUME NEW c \in children[t], call.target \in {NoPid, c}, c \notin children'[t]
               PROVE  FALSE
    BY Zenon DEF Matching
  <2>1. auto_reap(f) /\ c = f /\ t = parent[f]
    BY <1>2, Zenon DEF Ended
  <2> QED BY <1>5, <2>1, Zenon DEF auto_reap
<1>7. ASSUME NEW c \in MM, c \in children[t]
      PROVE  c \in M /\ c \in Pids
  BY <1>7, EndedFacts, Zenon DEF Matching
<1>8. ASSUME NEW c \in MM, c \notin children[t]
      PROVE  t = INIT /\ c \in Orphans(K) /\ c \in Pids
  <2>1. children'[t] \subseteq children[t] \cup IF t = INIT THEN Orphans(K) ELSE {}
    BY Zenon DEF Ended
  <2> QED BY <1>8, <2>1, EndedFacts, Zenon
<1>9. ASSUME NEW c \in MM, state'[c] = "Zombie" PROVE <<c, "RemoveEntry">> \in reaps'
  <2>1. CASE c \in K
    <3> SUFFICES ASSUME c = f PROVE FALSE
      BY <2>1, Zenon DEF Ended
    <3>1. Exists(c) /\ f # NoPid
      BY <1>1, <2>1, PidFacts DEF Ended, Exists, Alive
    <3>2. CASE c \in children[t]
      <4>1. parent[c] = t
        BY <3>1, <3>2, EndedFacts, Zenon
      <4> QED BY <1>5, <3>1, <4>1, Zenon
    <3>3. CASE c \notin children[t]
      <4>1. PICK k \in K : c \in children[k]
        BY <1>8, <3>3, Zenon DEF Orphans
      <4>2. tgid[c] = c /\ tgid[k] # c
        BY <1>1, <4>1 DEF TreeInv
      <4>3. tgid[k] = tgid[c]
        BY <2>1, <4>1 DEF Ended
      <4> QED BY <4>2, <4>3, Zenon
    <3> QED BY <3>2, <3>3, Zenon
  <2>2. CASE c \notin K /\ c \in children[t]
    <3>1. c \in M /\ state[c] = "Zombie"
      BY <1>7, <1>9, <2>2, EndedFacts, Zenon
    <3> QED BY <1>1, <1>4, <3>1, Zenon
  <2>3. CASE c \notin K /\ c \notin children[t]
    <3>1. t = INIT /\ c \in Orphans(K) /\ state[c] = "Zombie"
      BY <1>8, <1>9, <2>3, EndedFacts, Zenon
    <3>2. INIT \in reparent_orphans(K)
      BY <1>2, <3>1, Zenon DEF reparent_orphans, WaitingForChild
    <3> QED BY <3>1, <3>2, Zenon DEF Ended
  <2> QED BY <2>1, <2>2, <2>3, Zenon
<1>10. ASSUME t # INIT, NEW c \in MM \cap stopNote, "WUNTRACED" \in call.options, Exists(c)' PROVE FALSE
  <2>1. c \in M /\ Exists(c)
    BY <1>7, <1>8, <1>10, EndedFacts, Zenon
  <2> QED BY <1>4, <1>10, <2>1, Zenon
<1> HIDE DEF M, MM, call
<1> QED BY <1>3, <1>4, <1>6, <1>9, <1>10, Zenon DEF call

-----------------------------------------------------------------------------
(* A thread or process is created.                                         *)

\* The tree, when a thread is created.
LEMMA CreatedTree ==
    ASSUME SchedInv, TreeInv, NEW t, NEW n, Created(t, n), Mild
    PROVE  TreeInv'
<1>1. /\ t \in Pids /\ n \in Pids /\ n = nextPid /\ n # t /\ nextPid' = n + 1
      /\ state'[n] = "Ready" /\ state[n] = "Absent" /\ state[t] = "Running"
      /\ state'[t] \in {"Running", "Blocked"} /\ UNCHANGED <<stopNote, reaps>>
      /\ \A p \in Pids \ {t, n} : state'[p] = state[p]
  BY TreeTypes DEF Created
<1>2. /\ \A p \in Pids \ {n} : /\ Alive(p)' <=> Alive(p)
                               /\ Exists(p)' <=> Exists(p)
                               /\ state'[p] = "Zombie" <=> state[p] = "Zombie"
      /\ Alive(n)' /\ Exists(n)' /\ t < nextPid /\ Alive(t)
  BY <1>1, ExistsSmall, Zenon DEF Alive, Exists
<1>3. /\ \A p \in Pids \ {n} : tgid'[p] = tgid[p] /\ parent'[p] = parent[p] /\ vforkParent'[p] = vforkParent[p]
      /\ \A p \in Pids \ {t} : children'[p] = children[p]
      /\ \/ tgid'[n] = tgid[t] /\ tgid[t] # INIT /\ children'[t] = children[t]
         \/ tgid'[n] = n /\ parent'[n] = t /\ children'[t] = children[t] \cup {n}
      /\ vforkParent'[n] \in {vforkParent[n], t}
  BY Zenon DEF Created
<1>4. INIT # n /\ INIT \in Pids /\ nextPid \in Nat /\ NoPid \in Nat /\ NoPid < nextPid /\ tgid[t] < nextPid
  BY <1>1, <1>2, TreeTypes
<1>5. Alive(INIT)' /\ tgid'[INIT] = INIT
  BY <1>2, <1>3, <1>4, Zenon DEF TreeInv
<1>6. \A p \in Pids : tgid'[p] = INIT => pending'[p] = {} /\ p \notin sigwork'.targets
  <2> SUFFICES ASSUME NEW p \in Pids, tgid'[p] = INIT PROVE pending'[p] = {} /\ p \notin sigwork'.targets
    OBVIOUS
  <2>1. CASE p # n
    BY <1>3, <2>1, Zenon DEF TreeInv, Mild
  <2>2. CASE p = n
    BY <1>1, <1>3, <1>4, <2>2, Zenon DEF TreeInv, Mild
  <2> QED BY <2>1, <2>2, Zenon
<1>7. \A p \in Pids : p >= nextPid' => p \notin stopNote' /\ children'[p] = {} /\ vforkParent'[p] = NoPid
  <2> SUFFICES ASSUME NEW p \in Pids, p >= n + 1
               PROVE  p \notin stopNote' /\ children'[p] = {} /\ vforkParent'[p] = NoPid
    BY <1>1, Zenon
  <2>1. p >= nextPid /\ p # n /\ p # t
    BY <1>1, <1>2, <1>4, TreeTypes
  <2> QED BY <1>1, <1>3, <2>1 DEF TreeInv
<1>8. \A p \in Pids : vforkParent'[p] < nextPid'
  <2> SUFFICES ASSUME NEW p \in Pids PROVE vforkParent'[p] < n + 1
    BY <1>1, Zenon
  <2>1. vforkParent'[p] \in {vforkParent[p], t}
    BY <1>3, Zenon
  <2>2. vforkParent[p] < nextPid /\ vforkParent[p] \in Nat /\ t \in Nat
    BY <1>1, TreeTypes, SMTT(30) DEF TreeInv
  <2> QED BY <1>1, <1>2, <1>4, <2>1, <2>2, SMTT(30)
<1>9. \A p \in Pids : state'[p] = "Zombie" => vforkParent'[p] = NoPid
  BY <1>1, <1>2, <1>3 DEF TreeInv
<1>10. ASSUME NEW p \in Pids, NEW c \in children'[p]
       PROVE  /\ c < nextPid' /\ c # INIT /\ tgid'[c] = c /\ tgid'[p] # c
              /\ Exists(c)' => parent'[c] = p
  <2>1. CASE c \in children[p]
    <3>1. c \in Pids /\ c < nextPid /\ c # INIT /\ tgid[c] = c /\ tgid[p] # c /\ (Exists(c) => parent[c] = p)
      BY <2>1, TreeTypes DEF TreeInv
    <3>2. p # n
      <4>1. n >= nextPid
        BY <1>1, <1>4
      <4> QED BY <1>1, <2>1, <4>1, Zenon DEF TreeInv
    <3>3. c # n /\ c < n + 1
      <4>1. c \in Nat
        BY <3>1, PidFacts, Zenon
      <4> QED BY <1>1, <1>4, <3>1, <4>1, SMTT(30)
    <3> QED BY <1>1, <1>2, <1>3, <3>1, <3>2, <3>3, ZenonT(40)
  <2>2. CASE c \notin children[p]
    <3>1. p = t /\ c = n /\ tgid'[n] = n /\ parent'[n] = t
      BY <1>3, <1>10, <2>2
    <3>2. tgid'[t] # n /\ n < n + 1
      BY <1>1, <1>3, <1>4, TreeTypes
    <3> QED BY <1>1, <1>4, <3>1, <3>2, Zenon
  <2> QED BY <2>1, <2>2, Zenon
<1>11. ASSUME NEW c \in Pids \ {INIT}, Exists(c)', tgid'[c] = c, <<c, "RemoveEntry">> \notin reaps'
       PROVE  \E q \in Pids : Alive(q)' /\ parent'[c] = q /\ c \in children'[q]
  <2>1. CASE c = n
    <3>1. tgid[t] # n
      BY <1>1, <1>4, TreeTypes
    <3> QED BY <1>1, <1>2, <1>3, <1>11, <2>1, <3>1, Zenon
  <2>2. CASE c # n
    <3>1. PICK q \in Pids : Alive(q) /\ parent[c] = q /\ c \in children[q]
      <4>1. Exists(c) /\ tgid[c] = c /\ <<c, "RemoveEntry">> \notin reaps
        BY <1>1, <1>2, <1>3, <1>11, <2>2, SMTT(30)
      <4> QED BY <4>1, Zenon DEF TreeInv
    <3>2. q # n
      BY <1>1, <3>1, Zenon DEF Alive
    <3> QED BY <1>2, <1>3, <2>2, <3>1, <3>2, ZenonT(40)
  <2> QED BY <2>1, <2>2, Zenon
<1> QED BY <1>5, <1>6, <1>7, <1>8, <1>9, <1>10, <1>11, Zenon DEF TreeInv

\* The other invariants, when a thread is created.
LEMMA CreatedRest ==
    ASSUME SchedInv, TreeInv, StopNoteIsStopped, VforkBorrows, WaitNotLost, NEW t, NEW n, Created(t, n)
    PROVE  StopNoteIsStopped' /\ VforkBorrows' /\ WaitNotLost'
<1>1. /\ t \in Pids /\ n \in Pids /\ n = nextPid /\ n # t
      /\ state'[n] = "Ready" /\ state[n] = "Absent" /\ state[t] = "Running" /\ pc[t] = User
      /\ UNCHANGED <<stopNote, reaps>>
      /\ \A p \in Pids \ {t, n} : state'[p] = state[p] /\ pc'[p] = pc[p]
      /\ \A p \in Pids \ {n} : vforkParent'[p] = vforkParent[p]
      /\ \A p \in Pids \ {t} : children'[p] = children[p]
  BY TreeTypes, SMTT(30) DEF Created
<1>2. \/ state'[t] = "Running" /\ pc'[t] = User /\ vforkParent'[n] = NoPid
      \/ state'[t] = "Blocked" /\ pc'[t] = Vfork(n) /\ vforkParent'[n] = t
  BY <1>1, TreeTypes DEF Created, TreeInv
<1>3. \A p \in Pids \ {n} : Alive(p)' <=> Alive(p)
  BY <1>1, <1>2, Zenon DEF Alive
<1>4. n \notin stopNote /\ t \notin stopNote /\ stopNote \subseteq Pids
  <2>1. n >= nextPid /\ stopNote \subseteq Pids
    BY <1>1, TreeTypes
  <2>2. n \notin stopNote
    BY <1>1, <2>1, Zenon DEF TreeInv
  <2>3. t \notin stopNote
    BY <1>1 DEF StopNoteIsStopped, Alive
  <2> QED BY <2>1, <2>2, <2>3
<1>5. StopNoteIsStopped'
  BY <1>1, <1>3, <1>4, Zenon DEF StopNoteIsStopped
<1>6. ASSUME NEW c \in Pids, NEW q \in Pids, Alive(c)', vforkParent'[c] = q, Alive(q)'
      PROVE  pc'[q] = Vfork(c)
  <2>1. CASE c = n
    BY <1>2, <1>6, <2>1, PidFacts, Zenon
  <2>2. CASE c # n
    <3>1. vforkParent[c] = q /\ q # n
      <4>1. vforkParent[c] = q
        BY <1>1, <1>6, <2>2, Zenon
      <4>2. vforkParent[c] < nextPid
        BY Zenon DEF TreeInv
      <4> QED BY <1>1, <4>1, <4>2, TreeTypes
    <3>2. pc[q] = Vfork(c)
      BY <1>3, <1>6, <2>2, <3>1, Zenon DEF VforkBorrows
    <3>3. q # t
      BY <1>1, <3>2 DEF User, Vfork
    <3> QED BY <1>1, <3>1, <3>2, <3>3, Zenon
  <2> QED BY <2>1, <2>2, Zenon
<1>7. ASSUME NEW q \in Pids, state'[q] = "Blocked", pc'[q].op = "vfork"
      PROVE  Alive(pc[q].child)' /\ vforkParent'[pc'[q].child] = q
  <2>1. CASE q = t
    <3>1. pc'[q].child = n /\ vforkParent'[n] = t
      BY <1>2, <1>7, <2>1 DEF Vfork
    <3> QED BY <1>1, <2>1, <3>1, Zenon DEF Alive
  <2>2. CASE q # t
    <3>1. state[q] = "Blocked" /\ pc'[q] = pc[q]
      BY <1>1, <1>7, <2>2, Zenon
    <3>2. pc[q].child \in Pids /\ Alive(pc[q].child) /\ vforkParent[pc[q].child] = q
      BY <1>7, <3>1, TreeTypes, Zenon DEF Call, VforkBorrows
    <3>3. pc[q].child # n
      BY <1>1, <3>2, Zenon DEF Alive
    <3> QED BY <1>1, <1>3, <3>1, <3>2, <3>3
  <2> QED BY <2>1, <2>2, Zenon
<1>8. VforkBorrows'
  BY <1>6, <1>7, Zenon DEF VforkBorrows
<1>9. WaitNotLost'
  <2> SUFFICES ASSUME NEW q \in Pids, state'[q] = "Blocked", pc'[q].op = "wait4"
               PROVE  /\ Matching(q, pc[q])' # {}
                      /\ \A c \in Zombies(Matching(q, pc[q]))' : <<c, "RemoveEntry">> \in reaps'
                      /\ q # INIT => StopReports(Matching(q, pc[q]), pc[q].options)' = {}
    BY Zenon DEF WaitNotLost
  <2>1. q # t /\ q # n /\ state[q] = "Blocked" /\ pc'[q] = pc[q] /\ children'[q] = children[q]
    BY <1>1, <1>2, SMTT(30) DEF Vfork, User
  <2>2. \A c \in children[q] : c \in Pids /\ c # n
    BY <1>1, TreeTypes DEF TreeInv
  <2>3. \A c \in children[q] : (Exists(c)' <=> Exists(c)) /\ (state'[c] = "Zombie" <=> state[c] = "Zombie")
    BY <1>1, <1>2, <2>2, Zenon DEF Exists
  <2>4. Matching(q, pc[q])' = Matching(q, pc[q]) /\ Matching(q, pc[q]) \subseteq children[q]
    BY <2>1, Zenon DEF Matching
  <2>5. Zombies(Matching(q, pc[q]))' = Zombies(Matching(q, pc[q]))
    BY <2>3, <2>4, Zenon DEF Zombies
  <2>6. StopReports(Matching(q, pc[q]), pc[q].options)' = StopReports(Matching(q, pc[q]), pc[q].options)
    BY <1>1, <2>1, <2>3, <2>4, Zenon DEF StopReports
  <2> QED BY <1>1, <2>1, <2>4, <2>5, <2>6, Zenon DEF WaitNotLost
<1> QED BY <1>5, <1>8, <1>9, Zenon

-----------------------------------------------------------------------------
(* A zombie is reaped.                                                     *)

\* The tree, when a zombie is reaped.
LEMMA ReapedTree ==
    ASSUME SchedInv, TreeInv, NEW t, NEW c, Reaped(t, c), Mild
    PROVE  TreeInv'
<1>1. /\ t \in Pids /\ c \in Pids /\ c \in children[t] /\ state[c] = "Zombie" /\ c # INIT
      /\ \A p \in Pids \ {c} : state'[p] = state[p]
      /\ state'[c] = "Absent"
      /\ \A p \in Pids : children'[p] \subseteq children[p] /\ children[p] \ {c} \subseteq children'[p]
      /\ UNCHANGED <<nextPid, tgid, parent, vforkParent, stopNote, reaps>>
  BY TreeTypes DEF Reaped, TreeInv
<1>2. /\ \A p \in Pids : Alive(p)' <=> Alive(p)
      /\ \A p \in Pids : Exists(p)' <=> Exists(p) /\ p # c
  BY <1>1, Zenon DEF Alive, Exists
<1>3. Alive(INIT)' /\ tgid'[INIT] = INIT
  BY <1>1, <1>2, PidFacts, Zenon DEF TreeInv
<1>4. \A p \in Pids : tgid'[p] = INIT => pending'[p] = {} /\ p \notin sigwork'.targets
  <2>1. tgid' = tgid
    BY <1>1
  <2> QED BY <2>1, Zenon DEF TreeInv, Mild
<1>5. /\ \A p \in Pids : p >= nextPid' => p \notin stopNote' /\ children'[p] = {} /\ vforkParent'[p] = NoPid
      /\ \A p \in Pids : vforkParent'[p] < nextPid'
      /\ \A p \in Pids : state'[p] = "Zombie" => vforkParent'[p] = NoPid
  BY <1>1, SMTT(30) DEF TreeInv
<1>6. \A p \in Pids : \A d \in children'[p] :
        /\ d < nextPid' /\ d # INIT /\ tgid'[d] = d /\ tgid'[p] # d
        /\ Exists(d)' => parent'[d] = p
  BY <1>1, <1>2, TreeTypes DEF TreeInv
<1>7. ASSUME NEW d \in Pids \ {INIT}, Exists(d)', tgid'[d] = d, <<d, "RemoveEntry">> \notin reaps'
      PROVE  \E q \in Pids : Alive(q)' /\ parent'[d] = q /\ d \in children'[q]
  <2>1. Exists(d) /\ d # c /\ tgid[d] = d /\ <<d, "RemoveEntry">> \notin reaps
    BY <1>1, <1>2, <1>7, Zenon
  <2>2. PICK q \in Pids : Alive(q) /\ parent[d] = q /\ d \in children[q]
    BY <2>1, Zenon DEF TreeInv
  <2> QED BY <1>1, <1>2, <2>1, <2>2, Zenon
<1> QED BY <1>3, <1>4, <1>5, <1>6, <1>7, Zenon DEF TreeInv

\* The other invariants, when a zombie is reaped.
LEMMA ReapedRest ==
    ASSUME SchedInv, TreeInv, StopNoteIsStopped, VforkBorrows, WaitNotLost, NEW t, NEW c, Reaped(t, c)
    PROVE  StopNoteIsStopped' /\ VforkBorrows' /\ WaitNotLost'
<1>1. /\ t \in Pids /\ c \in Pids /\ state[c] = "Zombie" /\ state[t] = "Running"
      /\ \A p \in Pids \ {c} : state'[p] = state[p]
      /\ state'[c] = "Absent"
      /\ \A p \in Pids \ {t} : children'[p] = children[p] /\ pc'[p] = pc[p]
      /\ pc[t].op # "vfork" /\ pc'[t] = User
      /\ UNCHANGED <<vforkParent, stopNote, reaps>>
  BY TreeTypes, Zenon DEF Reaped
<1>2. /\ \A p \in Pids : Alive(p)' <=> Alive(p)
      /\ \A p \in Pids : Exists(p)' => Exists(p)
      /\ \A p \in Pids : state'[p] = "Zombie" => state[p] = "Zombie"
      /\ \A p \in Pids : state'[p] = "Blocked" => state[p] = "Blocked" /\ p # t
  BY <1>1, Zenon DEF Alive, Exists
<1>3. StopNoteIsStopped'
  BY <1>1, <1>2, TreeTypes, SMTT(30) DEF StopNoteIsStopped
<1>4. ASSUME NEW d \in Pids, NEW q \in Pids, Alive(d)', vforkParent'[d] = q, Alive(q)'
      PROVE  pc'[q] = Vfork(d)
  <2>1. pc[q] = Vfork(d)
    BY <1>1, <1>2, <1>4, Zenon DEF VforkBorrows
  <2> QED BY <1>1, <2>1 DEF Vfork
<1>5. ASSUME NEW q \in Pids, state'[q] = "Blocked", pc'[q].op = "vfork"
      PROVE  Alive(pc[q].child)' /\ vforkParent'[pc'[q].child] = q
  <2>1. state[q] = "Blocked" /\ pc'[q] = pc[q]
    BY <1>1, <1>2, <1>5, Zenon
  <2>2. pc[q].child \in Pids /\ Alive(pc[q].child) /\ vforkParent[pc[q].child] = q
    BY <1>5, <2>1, TreeTypes, Zenon DEF Call, VforkBorrows
  <2> QED BY <1>1, <1>2, <2>1, <2>2, Zenon
<1>6. VforkBorrows'
  BY <1>4, <1>5, Zenon DEF VforkBorrows
<1>7. WaitNotLost'
  <2> SUFFICES ASSUME NEW q \in Pids, state'[q] = "Blocked", pc'[q].op = "wait4"
               PROVE  /\ Matching(q, pc[q])' # {}
                      /\ \A d \in Zombies(Matching(q, pc[q]))' : <<d, "RemoveEntry">> \in reaps'
                      /\ q # INIT => StopReports(Matching(q, pc[q]), pc[q].options)' = {}
    BY Zenon DEF WaitNotLost
  <2>1. state[q] = "Blocked" /\ pc'[q] = pc[q] /\ children'[q] = children[q]
    BY <1>1, <1>2, Zenon
  <2>2. Matching(q, pc[q])' = Matching(q, pc[q]) /\ Matching(q, pc[q]) \subseteq Pids
    BY <2>1, TreeTypes, Zenon DEF Matching
  <2>3. Zombies(Matching(q, pc[q]))' \subseteq Zombies(Matching(q, pc[q]))
    BY <1>2, <2>2, Zenon DEF Zombies
  <2>4. StopReports(Matching(q, pc[q]), pc[q].options)' \subseteq StopReports(Matching(q, pc[q]), pc[q].options)
    BY <1>1, <1>2, <2>1, <2>2, Zenon DEF StopReports
  <2> QED BY <1>1, <2>1, <2>2, <2>3, <2>4, Zenon DEF WaitNotLost
<1> QED BY <1>3, <1>6, <1>7, Zenon

-----------------------------------------------------------------------------
(* exec, and a vfork caller's loop.                                        *)

\* Both leave the tree, the notes and the wait4 sleepers alone.
Quiet ==
    /\ UNCHANGED <<nextPid, tgid, parent, children, stopNote, reaps>>
    /\ \A p \in Pids : Alive(p)' <=> Alive(p)
    /\ \A p \in Pids : Exists(p)' <=> Exists(p)
    /\ \A p \in Pids : state'[p] = "Zombie" <=> state[p] = "Zombie"
    /\ \A p \in Pids : state[p] = "Stopped" => state'[p] = "Stopped"
    /\ \A p \in Pids : vforkParent'[p] \in {vforkParent[p], NoPid}
    /\ \A p \in Pids : state'[p] = "Blocked" /\ pc'[p].op = "wait4" => state[p] = "Blocked" /\ pc'[p] = pc[p]

\* execve is Quiet.
LEMMA ExecQuiet == ASSUME SchedInv, NEW t, Executed(t) PROVE Quiet
<1>1. \A p \in Pids : state'[p] = state[p] \/ (state[p] = "Blocked" /\ state'[p] = "Ready")
  BY Zenon DEF Executed
<1>2. \A p \in Pids : vforkParent'[p] \in {vforkParent[p], NoPid}
  BY TreeTypes, Zenon DEF Executed
<1>3. /\ UNCHANGED <<nextPid, tgid, parent, children, stopNote, reaps>>
      /\ UNCHANGED pc
  BY Zenon DEF Executed
<1> QED BY <1>1, <1>2, <1>3, Zenon DEF Quiet, Alive, Exists

\* The return of vfork is Quiet.
LEMMA VforkQuiet == ASSUME SchedInv, NEW t, VforkPassed(t) PROVE Quiet
<1>1. /\ t \in Pids /\ state[t] = "Running" /\ state'[t] \in {"Running", "Blocked"}
      /\ \A p \in Pids \ {t} : state'[p] = state[p] /\ pc'[p] = pc[p]
      /\ pc'[t].op # "wait4"
  BY TreeTypes DEF VforkPassed, User
<1>2. UNCHANGED <<nextPid, tgid, parent, children, vforkParent, stopNote, reaps>>
  BY Zenon DEF VforkPassed
<1> QED BY <1>1, <1>2, Zenon DEF Quiet, Alive, Exists

\* Quiet steps keep the tree.
LEMMA QuietTree ==
    ASSUME SchedInv, TreeInv, Quiet, Mild
    PROVE  TreeInv'
<1>1. Alive(INIT)' /\ tgid'[INIT] = INIT
  BY PidFacts, Zenon DEF TreeInv, Quiet
<1>2. \A p \in Pids : tgid'[p] = INIT => pending'[p] = {} /\ p \notin sigwork'.targets
  BY ZenonT(40) DEF TreeInv, Mild, Quiet
<1>3. \A p \in Pids : p >= nextPid' => p \notin stopNote' /\ children'[p] = {} /\ vforkParent'[p] = NoPid
  BY ZenonT(40) DEF TreeInv, Quiet
<1>4. \A p \in Pids : vforkParent'[p] < nextPid'
  BY TreeTypes, SMTT(30) DEF TreeInv, Quiet
<1>5. \A p \in Pids : state'[p] = "Zombie" => vforkParent'[p] = NoPid
  BY Zenon DEF TreeInv, Quiet
<1>6. \A p \in Pids : \A d \in children'[p] :
        /\ d < nextPid' /\ d # INIT /\ tgid'[d] = d /\ tgid'[p] # d
        /\ Exists(d)' => parent'[d] = p
  BY TreeTypes DEF TreeInv, Quiet
<1>7. \A c \in Pids \ {INIT} : Exists(c)' /\ tgid'[c] = c /\ <<c, "RemoveEntry">> \notin reaps' =>
         \E q \in Pids : Alive(q)' /\ parent'[c] = q /\ c \in children'[q]
  BY Zenon DEF TreeInv, Quiet
<1> QED BY <1>1, <1>2, <1>3, <1>4, <1>5, <1>6, <1>7, Zenon DEF TreeInv

\* Quiet steps keep the stops to report, and lose no wait.
LEMMA QuietRest ==
    ASSUME SchedInv, StopNoteIsStopped, WaitNotLost, Quiet
    PROVE  StopNoteIsStopped' /\ WaitNotLost'
<1>1. StopNoteIsStopped'
  BY TreeTypes, Zenon DEF StopNoteIsStopped, Quiet
<1>2. WaitNotLost'
  <2> SUFFICES ASSUME NEW q \in Pids, state'[q] = "Blocked", pc'[q].op = "wait4"
               PROVE  /\ Matching(q, pc[q])' # {}
                      /\ \A d \in Zombies(Matching(q, pc[q]))' : <<d, "RemoveEntry">> \in reaps'
                      /\ q # INIT => StopReports(Matching(q, pc[q]), pc[q].options)' = {}
    BY Zenon DEF WaitNotLost
  <2>1. state[q] = "Blocked" /\ pc'[q] = pc[q] /\ UNCHANGED <<children, stopNote, reaps>>
    BY Zenon DEF Quiet
  <2>2. Matching(q, pc[q])' = Matching(q, pc[q]) /\ Matching(q, pc[q]) \subseteq Pids
    BY <2>1, TreeTypes, Zenon DEF Matching
  <2>3. Zombies(Matching(q, pc[q]))' = Zombies(Matching(q, pc[q]))
    BY <2>2, Zenon DEF Zombies, Quiet
  <2>4. StopReports(Matching(q, pc[q]), pc[q].options)' = StopReports(Matching(q, pc[q]), pc[q].options)
    BY <2>1, <2>2, Zenon DEF StopReports, Quiet
  <2> QED BY <2>1, <2>2, <2>3, <2>4, Zenon DEF WaitNotLost
<1> QED BY <1>1, <1>2, Zenon

\* vfork callers, when their child executes a program.
LEMMA ExecVfork ==
    ASSUME SchedInv, VforkBorrows, NEW t, Executed(t)
    PROVE  VforkBorrows'
<1>1. /\ t \in Pids /\ vforkParent' = [vforkParent EXCEPT ![t] = NoPid] /\ pc' = pc
      /\ \A p \in Pids : Alive(p)' <=> Alive(p)
      /\ \A p \in Pids : state'[p] = "Blocked" => state[p] = "Blocked"
  BY ExecQuiet, Zenon DEF Executed, Quiet
<1>2. ASSUME NEW c \in Pids, NEW q \in Pids, Alive(c)', vforkParent'[c] = q, Alive(q)'
      PROVE  pc'[q] = Vfork(c)
  BY <1>1, <1>2, TreeTypes, SMTT(30) DEF VforkBorrows
<1>3. ASSUME NEW q \in Pids, state'[q] = "Blocked", pc'[q].op = "vfork"
      PROVE  Alive(pc[q].child)' /\ vforkParent'[pc'[q].child] = q
  <2> DEFINE c == pc[q].child
  <2>1. c \in Pids /\ pc[q] = Vfork(c)
    BY <1>1, <1>3, TreeTypes, Zenon DEF Call, Vfork
  <2>2. Alive(c) /\ vforkParent[c] = q
    BY <1>1, <1>3, Zenon DEF VforkBorrows
  <2>3. c # t
    BY <1>3, <2>1, <2>2, Zenon DEF Executed
  <2> QED BY <1>1, <2>1, <2>2, <2>3, TreeTypes, Zenon
<1> QED BY <1>2, <1>3, Zenon DEF VforkBorrows

\* vfork callers, when one of them runs again.
LEMMA VforkVfork ==
    ASSUME SchedInv, TreeInv, VforkBorrows, NEW t, VforkPassed(t)
    PROVE  VforkBorrows'
<1>1. /\ t \in Pids /\ state[t] = "Running" /\ pc[t].op = "vfork" /\ vforkParent' = vforkParent
      /\ \A p \in Pids \ {t} : state'[p] = state[p] /\ pc'[p] = pc[p]
      /\ \A p \in Pids : Alive(p)' <=> Alive(p)
  BY VforkQuiet, TreeTypes, Zenon DEF VforkPassed, Quiet
<1>2. pc[t].child \in Pids /\ Alive(t)
  BY <1>1, TreeTypes, Zenon DEF Call, Alive
<1>3. ASSUME NEW c \in Pids, NEW q \in Pids, Alive(c)', vforkParent'[c] = q, Alive(q)'
      PROVE  pc'[q] = Vfork(c)
  <2>1. pc[q] = Vfork(c) /\ vforkParent[c] = q /\ Alive(c)
    BY <1>1, <1>3, Zenon DEF VforkBorrows
  <2>2. CASE q = t
    <3>1. ~vfork_released(t)
      BY <2>1, <2>2 DEF vfork_released, Vfork, Alive, Exists
    <3> QED BY <2>1, <3>1, Zenon DEF VforkPassed
  <2> QED BY <1>1, <2>1, <2>2, Zenon
<1>4. ASSUME NEW q \in Pids, state'[q] = "Blocked", pc'[q].op = "vfork"
      PROVE  Alive(pc[q].child)' /\ vforkParent'[pc'[q].child] = q
  <2>1. CASE q = t
    <3>1. ~vfork_released(t) /\ pc' = pc
      BY <1>1, <1>4, <2>1, Zenon DEF VforkPassed
    <3>2. Exists(pc[t].child) /\ vforkParent[pc[t].child] = t
      BY <3>1, Zenon DEF vfork_released
    <3>3. Alive(pc[t].child)
      BY <1>1, <1>2, <3>2, PidFacts, SMTT(30) DEF TreeInv, Exists, Alive
    <3> QED BY <1>1, <1>2, <2>1, <3>1, <3>2, <3>3, Zenon
  <2>2. CASE q # t
    <3>1. state[q] = "Blocked" /\ pc'[q] = pc[q]
      BY <1>1, <1>4, <2>2, Zenon
    <3>2. pc[q].child \in Pids /\ Alive(pc[q].child) /\ vforkParent[pc[q].child] = q
      BY <1>4, <3>1, TreeTypes, Zenon DEF Call, VforkBorrows
    <3> QED BY <1>1, <3>1, <3>2, Zenon
  <2> QED BY <2>1, <2>2, Zenon
<1> QED BY <1>3, <1>4, Zenon DEF VforkBorrows

-----------------------------------------------------------------------------
(* The inductive invariant, and what follows from it.                      *)

ProcInv == SchedInv /\ TreeInv /\ StopNoteIsStopped /\ VforkBorrows /\ WaitNotLost

\* The invariant holds when only pid 1 exists.
LEMMA ProcInit == Init => ProcInv
<1> SUFFICES ASSUME Init PROVE ProcInv
  OBVIOUS
<1>1. SchedInv
  BY InitHolds, Zenon
<1>2. /\ state = [p \in Pids |-> IF p = INIT THEN "Running" ELSE "Absent"]
      /\ tgid = [p \in Pids |-> p] /\ nextPid = INIT + 1
      /\ children = [p \in Pids |-> {}] /\ vforkParent = [p \in Pids |-> NoPid]
      /\ stopNote = {} /\ pending = [p \in Pids |-> {}] /\ sigwork.targets = {}
  BY Zenon DEF Init, NoWork
<1>3. /\ Alive(INIT) /\ tgid[INIT] = INIT
      /\ \A p \in Pids : p # INIT => state[p] = "Absent"
      /\ state[INIT] = "Running" /\ NoPid < nextPid
  BY <1>2, PidFacts DEF Alive, INIT, NoPid
<1>4. TreeInv
  BY <1>2, <1>3, Zenon DEF TreeInv, Exists
<1>5. StopNoteIsStopped /\ VforkBorrows /\ WaitNotLost
  BY <1>2, <1>3, PidFacts, Zenon DEF StopNoteIsStopped, VforkBorrows, WaitNotLost
<1> QED BY <1>1, <1>4, <1>5, Zenon DEF ProcInv

\* Every step keeps the invariant, by its kind.
LEMMA ProcNext == ProcInv /\ [Next]_vars => ProcInv'
<1> SUFFICES ASSUME ProcInv, [Next]_vars PROVE ProcInv'
  OBVIOUS
<1>1. SchedInv /\ TreeInv /\ StopNoteIsStopped /\ VforkBorrows /\ WaitNotLost
  BY Zenon DEF ProcInv
<1>2. SchedInv' /\ Mild /\ StepShape
  BY <1>1, NextInv, NextMild, NextShape, Zenon
<1>3. CASE Calm
  BY <1>1, <1>2, <1>3, CalmTree, CalmStops, CalmVfork, CalmWait, Zenon DEF ProcInv
<1>4. ASSUME NEW K, NEW f, Ended(K, f) PROVE ProcInv'
  BY <1>1, <1>2, <1>4, EndedTree, EndedStops, EndedVfork, EndedWait, Zenon DEF ProcInv
<1>5. ASSUME NEW t, Created(t, nextPid) PROVE ProcInv'
  BY <1>1, <1>2, <1>5, CreatedTree, CreatedRest, Zenon DEF ProcInv
<1>6. ASSUME NEW t, NEW c, Reaped(t, c) PROVE ProcInv'
  BY <1>1, <1>2, <1>6, ReapedTree, ReapedRest, Zenon DEF ProcInv
<1>7. ASSUME NEW t, Executed(t) PROVE ProcInv'
  BY <1>1, <1>2, <1>7, ExecQuiet, QuietTree, QuietRest, ExecVfork, Zenon DEF ProcInv
<1>8. ASSUME NEW t, VforkPassed(t) PROVE ProcInv'
  BY <1>1, <1>2, <1>8, VforkQuiet, QuietTree, QuietRest, VforkVfork, Zenon DEF ProcInv
<1> QED BY <1>2, <1>3, <1>4, <1>5, <1>6, <1>7, <1>8, Zenon DEF StepShape, EndStep

\* The invariant always holds.
LEMMA ProcAlways == Spec => []ProcInv
BY ProcInit, ProcNext, PTL DEF Spec

-----------------------------------------------------------------------------
(* The theorems: of the whole system, as long as no signal character comes *)
(* over the serial console and no program signals its own group (RunsOn).  *)
(* A thread that runs on after it was killed or stopped can fork, sleep or *)
(* wait in that state; no other step of the system gets there.             *)

\* Every process in the table but pid 1 is listed by a parent that lives, and
\* pid 1 is never ended (sys/process/lifecycle.rs, reparent_orphans).
THEOREM TreeAlwaysSound == SpecAll /\ [][~RunsOn]_vars => []TreeInv
<1>1. ProcInv => TreeInv
  BY Zenon DEF ProcInv
<1> QED BY <1>1, NoneRunsOn, ProcAlways, PTL

\* wait4's WUNTRACED branch never meets a child that runs: its unreachable! is.
THEOREM StopsReportedAreStops == SpecAll /\ [][~RunsOn]_vars => []StopNoteIsStopped
<1>1. ProcInv => StopNoteIsStopped
  BY Zenon DEF ProcInv
<1> QED BY <1>1, NoneRunsOn, ProcAlways, PTL

\* A vfork caller sleeps as long as its child borrows its address space, and no
\* longer: sys/process/lifecycle.rs, vfork_release and the loop in do_vfork.
THEOREM VforkAlwaysBorrows == SpecAll /\ [][~RunsOn]_vars => []VforkBorrows
<1>1. ProcInv => VforkBorrows
  BY Zenon DEF ProcInv
<1> QED BY <1>1, NoneRunsOn, ProcAlways, PTL

\* No wait4 caller sleeps past the death or the stop of a child it waits for,
\* whichever way the child ends and whoever its parent was before.
THEOREM WaitNeverLost == SpecAll /\ [][~RunsOn]_vars => []WaitNotLost
<1>1. ProcInv => WaitNotLost
  BY Zenon DEF ProcInv
<1> QED BY <1>1, NoneRunsOn, ProcAlways, PTL

\* A process that ended has a living parent to reap it.
THEOREM ZombiesHaveParents == SpecAll /\ [][~RunsOn]_vars => []ZombieHasParent
<1>1. ProcInv => ZombieHasParent
  BY DEF ProcInv, TreeInv, ZombieHasParent, Exists, Alive
<1> QED BY <1>1, NoneRunsOn, ProcAlways, PTL

\* What a step does to the dead.
LEMMA DeadStep ==
    ASSUME ProcInv, [Next]_vars, NEW p \in Pids, state[p] = "Zombie"
    PROVE  state'[p] \in {"Zombie", "Absent"}
<1>1. SchedInv /\ TreeInv /\ StepShape /\ ~Alive(p)
  BY NextShape, Zenon DEF ProcInv, Alive
<1>2. CASE Calm
  BY <1>1, <1>2, Zenon DEF Calm, Alive
<1>3. ASSUME NEW K, NEW f, Ended(K, f) PROVE ~Alive(p)'
  BY <1>1, <1>3, EndedFacts, Zenon
<1>4. ASSUME NEW t, Created(t, nextPid) PROVE ~Alive(p)'
  BY <1>1, <1>4, TreeTypes DEF Created, Alive
<1>5. ASSUME NEW t, NEW c, Reaped(t, c) PROVE ~Alive(p)'
  BY <1>1, <1>5, TreeTypes, Zenon DEF Reaped, Alive
<1>6. ASSUME NEW t, Executed(t) \/ VforkPassed(t) PROVE ~Alive(p)'
  BY <1>1, <1>6, ExecQuiet, VforkQuiet, Zenon DEF Quiet
<1>7. ~Alive(p)' => state'[p] \in {"Zombie", "Absent"}
  BY Zenon DEF Alive
<1> QED BY <1>1, <1>2, <1>3, <1>4, <1>5, <1>6, <1>7, Zenon DEF StepShape, EndStep

\* No wake, signal, continue or schedule brings a dead thread back, unless it was
\* left executing.
THEOREM DeadStayDead == SpecAll /\ [][~RunsOn]_vars => DeadForGood
<1>1. ProcInv /\ [Next]_vars => [\A p \in Pids : state[p] = "Zombie" => state'[p] \in {"Zombie", "Absent"}]_vars
  BY DeadStep, Zenon
<1> QED BY <1>1, NoneRunsOn, ProcAlways, PTL DEF Spec, DeadForGood
=============================================================================
