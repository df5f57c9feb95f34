--------------------------- MODULE ProcessProofs ---------------------------
(***************************************************************************)
(* For any number of pids and any workload: the ready queue is exact, what *)
(* is in use is never freed, and only the Running thread runs.  First what *)
(* the scheduler and the operations on the process table keep of SchedInv, *)
(* then the system calls and signals one by one.                           *)
(***************************************************************************)
EXTENDS Process, TLAPS

\* INIT and NoPid, and the pids around them.
LEMMA PidFacts ==
    INIT \in Pids /\ NoPid \notin Pids /\ INIT + 1 \in Pids /\ \A p \in Pids : p \in Nat
BY SchedulerAssumption DEF Pids, INIT, NoPid

(***************************************************************************)
(* Move, the one operator every table update goes through: if the threads  *)
(* it wakes were not queued and those it removes are dead, the queue stays *)
(* exact and no thread becomes Running.                                    *)
(***************************************************************************)
LEMMA MoveFacts ==
    ASSUME TypeOK, ReadyQueueExact,
           NEW R, NEW Z, NEW S, NEW G,
           Move(R, Z, S, G),
           \A p \in R : state[p] \in {"Blocked", "Stopped", "Absent"},
           \A p \in G : p \in Z \/ state[p] = "Zombie"
    PROVE  /\ state' \in [Pids -> States]
           /\ queue' \in [Pids -> Nat]
           /\ ReadyQueueExact'
           /\ \A p \in Pids : state'[p] = "Running" => state[p] = "Running"
           /\ \A p \in Pids : p \notin R \cup Z \cup S \cup G => state'[p] = state[p]
           /\ \A p \in Pids : p \in Z => ~Alive(p)'
           /\ \A p \in Pids : p \notin G => (state'[p] = "Absent" => state[p] = "Absent")
           /\ \A p \in Pids : Alive(p)' => Alive(p) \/ p \in R \cup S
BY DEF Move, TypeOK, ReadyQueueExact, States, remove_ready, Alive

\* Wakers only ever pick Blocked threads.
LEMMA WokenBlocked ==
    ASSUME TypeOK
    PROVE  /\ \A c : \A q \in wake_parent_if_waiting(c) : state[q] = "Blocked"
           /\ \A c : \A q \in notify_parent_sigchld(c) : state[q] = "Blocked"
           /\ \A K : \A q \in vfork_release(K) : state[q] = "Blocked"
           /\ \A K : \A q \in reparent_orphans(K) : state[q] = "Blocked"
           /\ \A t : \A W \in FutexWakes(t) : \A q \in W : state[q] = "Blocked"
BY Zenon DEF wake_parent_if_waiting, notify_parent_sigchld, vfork_release, reparent_orphans,
       FutexWakes, WaitingForChild, Interrupted

(***************************************************************************)
(* What a change of the table keeps: its types, and the part of SchedInv   *)
(* that speaks of it.                                                      *)
(***************************************************************************)
TableTyped ==
    /\ state' \in [Pids -> States]
    /\ queue' \in [Pids -> Nat]
    /\ space' \subseteq Pids
    /\ reaps' \subseteq Pids \X ReapKinds

Kept ==
    /\ TableTyped
    /\ ReadyQueueExact'
    /\ state'[current] # "Absent"
    /\ \A p \in Pids : Alive(p)' => p \in space'
    /\ \A r \in reaps' : ~Alive(r[1])' /\ r[1] < nextPid
    /\ \A p \in Pids : state'[p] = "Running" => state[p] = "Running"
    /\ \A p \in Pids : p >= nextPid => state'[p] = "Absent"

\* The types alone.
LEMMA KeptTypes == Kept => TableTyped
BY Zenon DEF Kept

\* A termination, which leaves a Running current thread outside K alone.
LEMMA TerminateKept ==
    ASSUME SchedInv,
           NEW K \in SUBSET Pids, NEW f \in K \cup {NoPid}, NEW W \in SUBSET Pids,
           \A p \in K : Alive(p),
           \A q \in W : state[q] = "Blocked",
           terminate_process(K, f, W)
    PROVE  /\ Kept
           /\ vforkParent' \in [Pids -> Pids \cup {NoPid}]
           /\ parent' \in [Pids -> Pids \cup {NoPid}]
           /\ children' \in [Pids -> SUBSET Pids]
           /\ current \notin K /\ state[current] = "Running" => state'[current] = "Running"
           /\ state[current] # "Blocked" => state'[current] \in {"Zombie", state[current]}
<1> DEFINE notified == IF f = NoPid THEN {}
                       ELSE wake_parent_if_waiting(f) \cup notify_parent_sigchld(f)
           R == W \cup vfork_release(K) \cup reparent_orphans(K) \cup notified
           now == f # NoPid /\ f # current
           G == IF auto_reap(f) /\ now THEN {f} ELSE {}
<1>1. Move(R, K, {}, G)
  BY Zenon DEF terminate_process
<1>2. \A p \in R : state[p] = "Blocked"
  BY WokenBlocked DEF SchedInv
<1>3. \A p \in G : p \in K /\ p # current
  BY Zenon DEF NoPid
<1>4. TypeOK /\ ReadyQueueExact
  BY Zenon DEF SchedInv
<1> HIDE DEF R, G
<1>5. /\ state' \in [Pids -> States]
      /\ queue' \in [Pids -> Nat]
      /\ ReadyQueueExact'
      /\ \A p \in Pids : state'[p] = "Running" => state[p] = "Running"
      /\ \A p \in Pids : p \notin R \cup K \cup G => state'[p] = state[p]
      /\ \A p \in Pids : p \in K => ~Alive(p)'
      /\ \A p \in Pids : p \notin G => (state'[p] = "Absent" => state[p] = "Absent")
      /\ \A p \in Pids : Alive(p)' => Alive(p) \/ p \in R
  BY <1>1, <1>2, <1>3, <1>4, MoveFacts
<1>6. space' = IF now THEN space \ {f} ELSE space
  BY Zenon DEF terminate_process
<1>7. reaps' = reaps \cup {<<p, "RemoveEntry">> : p \in K \ {f}}
                    \cup IF f = current
                         THEN {<<f, IF auto_reap(f) THEN "RemoveEntry" ELSE "TeardownOnly">>}
                         ELSE {}
  BY Zenon DEF terminate_process
<1>8. current \in Pids /\ state[current] # "Absent"
  BY Zenon DEF SchedInv, TypeOK, NothingFreedInUse, Exists
<1>9. \A p \in Pids : Alive(p)' => p \in space'
  <2> SUFFICES ASSUME NEW p \in Pids, Alive(p)' PROVE p \in space'
    OBVIOUS
  <2>1. Alive(p)
    BY <1>2, <1>5, Zenon DEF Alive
  <2>2. p \in space /\ p \notin K
    BY <2>1, <1>5, Zenon DEF SchedInv, NothingFreedInUse
  <2> QED BY <2>2, <1>6, Zenon DEF NoPid
<1>10. \A r \in reaps' : ~Alive(r[1])' /\ r[1] < nextPid
  <2> SUFFICES ASSUME NEW r \in reaps' PROVE ~Alive(r[1])' /\ r[1] < nextPid
    OBVIOUS
  <2>1. CASE r \in reaps
    <3>1. ~Alive(r[1]) /\ r[1] \in Pids /\ r[1] < nextPid
      BY <2>1, Zenon DEF SchedInv, TypeOK
    <3>2. r[1] \notin R
      BY <3>1, <1>2, Zenon DEF Alive
    <3> QED BY <3>1, <3>2, <1>5, Zenon
  <2>2. CASE r \notin reaps
    <3>1. r[1] \in K
      BY <2>2, <1>7, <1>8, PidFacts
    <3>2. r[1] \in Pids /\ Alive(r[1]) /\ nextPid \in Nat
      BY <3>1 DEF SchedInv, TypeOK
    <3>3. r[1] < nextPid
      BY <3>2, PidFacts DEF SchedInv, Alive
    <3> QED BY <3>1, <3>3, <1>5, Zenon
  <2> QED BY <2>1, <2>2, Zenon
<1>11. \A p \in Pids : p >= nextPid => state'[p] = "Absent"
  <2> SUFFICES ASSUME NEW p \in Pids, p >= nextPid PROVE state'[p] = "Absent"
    OBVIOUS
  <2>1. state[p] = "Absent" /\ p \notin K
    BY Zenon DEF SchedInv, Alive
  <2> QED BY <2>1, <1>2, <1>3, <1>5, Zenon
<1>12. space' \subseteq Pids /\ reaps' \subseteq Pids \X ReapKinds
  BY <1>4, <1>6, <1>7, <1>8 DEF TypeOK, ReapKinds
<1>13. state'[current] # "Absent"
  BY <1>3, <1>5, <1>8, Zenon
<1>14. Kept
  BY <1>5, <1>9, <1>10, <1>11, <1>12, <1>13, Zenon DEF Kept, TableTyped
<1>15. /\ vforkParent' \in [Pids -> Pids \cup {NoPid}]
       /\ parent' \in [Pids -> Pids \cup {NoPid}]
  BY <1>4, PidFacts, Zenon DEF terminate_process, TypeOK
<1>16. children' \in [Pids -> SUBSET Pids]
  BY <1>4 DEF terminate_process, TypeOK, Orphans, Adopted
<1>17. current \notin K /\ state[current] = "Running" => state'[current] = "Running"
  BY <1>2, <1>3, <1>5, <1>8, Zenon
<1>18. state[current] # "Blocked" => state'[current] \in {"Zombie", state[current]}
  <2>1. state[current] # "Blocked" => current \notin R
    BY <1>2, Zenon
  <2> QED BY <1>1, <1>3, <1>8, <2>1, Zenon DEF Move
<1> QED BY <1>14, <1>15, <1>16, <1>17, <1>18, Zenon

\* The termination of a whole thread group.
LEMMA GroupKept ==
    ASSUME SchedInv, NEW t \in Pids, Alive(t), terminate_thread_group(t)
    PROVE  /\ Kept
           /\ vforkParent' \in [Pids -> Pids \cup {NoPid}]
           /\ parent' \in [Pids -> Pids \cup {NoPid}]
           /\ children' \in [Pids -> SUBSET Pids]
           /\ tgid[t] # tgid[current] /\ state[current] = "Running" => state'[current] = "Running"
           /\ tgid[t] = tgid[current] /\ Alive(current) => state'[current] # "Running"
           /\ state[current] # "Blocked" => state'[current] \in {"Zombie", state[current]}
<1> DEFINE K == LiveGroup(t)
           f == LastOf(t)
<1>1. K \in SUBSET Pids /\ f \in K /\ \A p \in K : Alive(p) /\ tgid[p] = tgid[t]
  BY Zenon DEF LiveGroup, LastOf, SchedInv, TypeOK
<1>2. terminate_process(K, f, {})
  BY Zenon DEF terminate_thread_group
<1>3. tgid[t] # tgid[current] => current \notin K
  BY <1>1, Zenon
<1>4. tgid[t] = tgid[current] /\ Alive(current) => state'[current] # "Running"
  <2>1. Move({} \cup vfork_release(K) \cup reparent_orphans(K)
               \cup (IF f = NoPid THEN {} ELSE wake_parent_if_waiting(f) \cup notify_parent_sigchld(f)),
             K, {}, IF auto_reap(f) /\ f # NoPid /\ f # current THEN {f} ELSE {})
    BY <1>2, Zenon DEF terminate_process
  <2>2. current \in Pids
    BY Zenon DEF SchedInv, TypeOK
  <2>3. tgid[t] = tgid[current] /\ Alive(current) => current \in K
    BY <2>2, Zenon DEF LiveGroup
  <2> HIDE DEF K, f
  <2> QED BY <2>1, <2>2, <2>3, Zenon DEF Move
<1> HIDE DEF K, f
<1> QED BY <1>1, <1>2, <1>3, <1>4, TerminateKept

(***************************************************************************)
(* Assembling SchedInv' from Kept, for steps that leave the tree alone.    *)
(***************************************************************************)
Same == tgid' = tgid /\ nextPid' = nextPid /\ current' = current

\* SchedInv', for a step after which cpu, sigwork and the state of current agree.
LEMMA Assemble ==
    ASSUME SchedInv, Kept, Same, TypeOK',
           cpu' = "run" => state'[current] = "Running",
           cpu' = "idle" => \A p \in Pids : state'[p] # "Running",
           cpu' = "schedule" => state'[current] # "Ready",
           cpu' = "signal" =>
             /\ sigwork'.from \notin {"run", "serial"}
             /\ sigwork'.from = "keyboard" => state'[current] \in {"Running", "Stopped", "Zombie"}
             /\ sigwork'.from = "idle" => state'[current] # "Running"
             /\ sigwork'.from = "kill" =>
                  /\ state'[current] = "Running"
                  /\ \A p \in sigwork'.targets : tgid[p] # tgid[current]
    PROVE  SchedInv'
<1>1. NothingFreedInUse'
  BY Zenon DEF Kept, Same, NothingFreedInUse, Exists
<1>2. OnlyRunningRuns'
  BY Zenon DEF Kept, Same, OnlyRunningRuns, SchedInv
<1>3. /\ \A p \in Pids : p >= nextPid' => state'[p] = "Absent" /\ tgid'[p] = p
      /\ \A p \in Pids : p < nextPid' => tgid'[p] < nextPid'
      /\ \A p \in Pids : tgid'[tgid'[p]] = tgid'[p]
  BY Zenon DEF Kept, Same, SchedInv
<1>4. (\A r \in reaps : ~Alive(r[1]) /\ r[1] < nextPid)' /\ ReadyQueueExact'
  BY Zenon DEF Kept, Same
<1>5. (cpu = "schedule" => state[current] # "Ready")'
  BY Zenon DEF Same
<1>6. (cpu = "signal" =>
        /\ sigwork.from \notin {"run", "serial"}
        /\ sigwork.from = "keyboard" => state[current] \in {"Running", "Stopped", "Zombie"}
        /\ sigwork.from = "idle" => state[current] # "Running"
        /\ sigwork.from = "kill" =>
             /\ state[current] = "Running"
             /\ \A p \in sigwork.targets : tgid[p] # tgid[current])'
  BY Zenon DEF Same
<1> QED BY <1>1, <1>2, <1>3, <1>4, <1>5, <1>6, Zenon DEF SchedInv

\* The two ways most steps end: the caller goes on running, or it sleeps or dies.
LEMMA AssembleRun ==
    ASSUME SchedInv, Kept, Same, TypeOK', cpu' = "run", state'[current] = "Running"
    PROVE  SchedInv'
BY Assemble, Zenon

\* The other way: the caller has left the processor.
LEMMA AssembleSchedule ==
    ASSUME SchedInv, Kept, Same, TypeOK', cpu' = "schedule", state'[current] # "Ready"
    PROVE  SchedInv'
BY Assemble, Zenon

\* Wakes, stops and reaps that kill nobody.
LEMMA MoveKept ==
    ASSUME SchedInv,
           NEW R, NEW S, NEW G,
           Move(R, {}, S, G),
           \A p \in R : state[p] \in {"Blocked", "Stopped"},
           \A p \in S : Alive(p),
           \A p \in G : state[p] = "Zombie" /\ p # current,
           space' = space \ G,
           reaps' = reaps
    PROVE  /\ Kept
           /\ current \notin R \cup S => state'[current] = state[current]
           /\ current \in S => state'[current] # "Running"
<1>1. TypeOK /\ ReadyQueueExact /\ current \in Pids /\ state[current] # "Absent"
  BY Zenon DEF SchedInv, TypeOK, NothingFreedInUse, Exists
<1>2. /\ state' \in [Pids -> States]
      /\ queue' \in [Pids -> Nat]
      /\ ReadyQueueExact'
      /\ \A p \in Pids : state'[p] = "Running" => state[p] = "Running"
      /\ \A p \in Pids : p \notin R \cup S \cup G => state'[p] = state[p]
      /\ \A p \in Pids : p \notin G => (state'[p] = "Absent" => state[p] = "Absent")
      /\ \A p \in Pids : Alive(p)' => Alive(p) \/ p \in R \cup S
  BY <1>1, MoveFacts
<1>3. space' \subseteq Pids /\ reaps' \subseteq Pids \X ReapKinds
  BY <1>1, Zenon DEF TypeOK
<1>4. \A p \in Pids : Alive(p)' => Alive(p) /\ p \notin G
  BY <1>2, Zenon DEF Alive, Move
<1>5. \A p \in Pids : Alive(p)' => p \in space'
  BY <1>4, Zenon DEF SchedInv, NothingFreedInUse
<1>6. \A r \in reaps' : ~Alive(r[1])' /\ r[1] < nextPid
  BY <1>1, <1>4, ZenonT(40) DEF SchedInv, TypeOK
<1>7. \A p \in Pids : p >= nextPid => state'[p] = "Absent"
  <2> SUFFICES ASSUME NEW p \in Pids, p >= nextPid PROVE state'[p] = "Absent"
    OBVIOUS
  <2>1. state[p] = "Absent" /\ p \notin R \cup S \cup G
    BY Zenon DEF SchedInv, Alive
  <2> QED BY <2>1, <1>2, Zenon
<1>8. current \in S => state'[current] # "Running"
  BY <1>1, Zenon DEF Move
<1> QED BY <1>1, <1>2, <1>3, <1>5, <1>6, <1>7, <1>8, Zenon DEF Kept, TableTyped

\* Wakes alone, and a stop with the wakes it causes.
LEMMA WakeKept ==
    ASSUME SchedInv, NEW R, Move(R, {}, {}, {}),
           \A p \in R : state[p] \in {"Blocked", "Stopped"},
           UNCHANGED <<space, reaps>>
    PROVE  Kept /\ (current \notin R => state'[current] = state[current])
<1>1. space' = space \ {}
  OBVIOUS
<1> QED BY <1>1, MoveKept

\* A thread stops, and its parent is woken.
LEMMA StopKept ==
    ASSUME SchedInv, NEW R, NEW t, Move(R, {}, {t}, {}),
           \A p \in R : state[p] = "Blocked",
           Alive(t),
           UNCHANGED <<space, reaps>>
    PROVE  /\ Kept
           /\ current \notin R \cup {t} => state'[current] = state[current]
           /\ current = t => state'[current] # "Running"
<1>1. space' = space \ {}
  OBVIOUS
<1>2. \A p \in R : state[p] \in {"Blocked", "Stopped"}
  OBVIOUS
<1>3. \A p \in {t} : Alive(p)
  OBVIOUS
<1> QED BY <1>1, <1>2, <1>3, MoveKept

-----------------------------------------------------------------------------
(* The initial state, the scheduler, and the creation of threads.          *)

\* The machine starts with pid 1 running and nothing else.
LEMMA InitHolds == Init => SchedInv
<1> SUFFICES ASSUME Init PROVE SchedInv
  OBVIOUS
<1>1. TypeOK
  BY PidFacts, SchedulerAssumption DEF Init, TypeOK, States, Call, User, NoWork, INIT
<1>2. ReadyQueueExact /\ NothingFreedInUse /\ OnlyRunningRuns
  BY PidFacts, Zenon DEF Init, ReadyQueueExact, NothingFreedInUse, OnlyRunningRuns, Exists, Alive
<1> QED BY <1>1, <1>2, PidFacts DEF Init, SchedInv, INIT, Pids

\* schedule_inner and the dispatch of a queued thread.
LEMMA ScheduleInv == SchedInv /\ Schedule => SchedInv'
<1> SUFFICES ASSUME SchedInv, Schedule PROVE SchedInv'
  OBVIOUS
<1> USE DEF treeVars, noteVars
<1>1. CASE schedule_inner /\ UNCHANGED <<treeVars, noteVars, sigwork>>
  <2>1. current \in Pids /\ state[current] # "Absent" /\ TypeOK
    BY Zenon DEF SchedInv, TypeOK, NothingFreedInUse, Exists
  <2>2. /\ \A p \in Pids : state'[p] = IF <<p, "RemoveEntry">> \in reap_pending_threads THEN "Absent"
                                     ELSE IF p = current /\ state[p] \in {"Ready", "Running"} THEN "Ready"
                                     ELSE state[p]
        /\ \A p \in Pids : queue'[p] = IF p = current /\ state[p] \in {"Ready", "Running"}
                                     THEN queue[p] + 1 ELSE queue[p]
        /\ state' \in [Pids -> States] /\ queue' \in [Pids -> Nat]
    BY <1>1, <2>1 DEF schedule_inner, TypeOK, States, reap_pending_threads
  <2>3. \A p \in Pids : \A k : <<p, k>> \in reap_pending_threads => p # current /\ ~Alive(p)
    BY Zenon DEF reap_pending_threads, SchedInv
  <2>4. cpu = "schedule" /\ cpu' = "idle" /\ state[current] # "Ready" /\ Same
    BY <1>1, Zenon DEF schedule_inner, SchedInv, Same
  <2>5. ReadyQueueExact'
    <3> SUFFICES ASSUME NEW p \in Pids PROVE queue'[p] = IF state'[p] = "Ready" THEN 1 ELSE 0
      BY Zenon DEF ReadyQueueExact
    <3>1. queue[p] = IF state[p] = "Ready" THEN 1 ELSE 0
      BY Zenon DEF SchedInv, ReadyQueueExact
    <3>2. CASE <<p, "RemoveEntry">> \in reap_pending_threads
      <4>1. p # current /\ state[p] # "Ready"
        BY <3>2, <2>3, Zenon DEF Alive
      <4> QED BY <4>1, <3>1, <3>2, <2>2, Zenon
    <3>3. CASE <<p, "RemoveEntry">> \notin reap_pending_threads
      BY <3>1, <3>3, <2>2, <2>4
    <3> QED BY <3>2, <3>3, Zenon
  <2>6. space' \subseteq space /\ reaps' \subseteq reaps
    BY <1>1, Zenon DEF schedule_inner
  <2>7. \A p \in Pids : Alive(p)' => Alive(p)
    BY <2>1, <2>2, Zenon DEF Alive
  <2>8. \A p \in Pids : Alive(p)' => p \in space'
    <3> SUFFICES ASSUME NEW p \in Pids, Alive(p)' PROVE p \in space'
      OBVIOUS
    <3>1. Alive(p) /\ p \in space
      BY <2>7, Zenon DEF SchedInv, NothingFreedInUse
    <3>2. \A k \in ReapKinds : <<p, k>> \notin reap_pending_threads
      BY <3>1, <2>3, Zenon
    <3> QED BY <1>1, <3>1, <3>2, Zenon DEF schedule_inner
  <2>9. \A r \in reaps' : ~Alive(r[1])' /\ r[1] < nextPid
    BY <2>1, <2>6, <2>7 DEF SchedInv, TypeOK
  <2>10. \A p \in Pids : state'[p] # "Running"
    <3> SUFFICES ASSUME NEW p \in Pids, state'[p] = "Running" PROVE FALSE
      OBVIOUS
    <3>1. state[p] = "Running" /\ p # current
      BY <2>2, Zenon
    <3> QED BY <3>1, Zenon DEF SchedInv, OnlyRunningRuns
  <2>11. \A p \in Pids : p >= nextPid => state'[p] = "Absent"
    BY <2>1, <2>2, Zenon DEF SchedInv
  <2>12. state'[current] # "Absent"
    BY <2>1, <2>2, <2>3, Zenon
  <2>13. TypeOK'
    BY <1>1, <2>1, <2>2, <2>6, Zenon DEF TypeOK, schedule_inner
  <2>14. Kept
    BY <2>1, <2>2, <2>5, <2>6, <2>8, <2>9, <2>10, <2>11, <2>12, Zenon DEF Kept, TableTyped, TypeOK
  <2> QED BY <2>4, <2>10, <2>13, <2>14, Assemble, Zenon
<1>2. ASSUME NEW n \in Pids, Dispatch(n), UNCHANGED <<treeVars, noteVars, sigwork>>
      PROVE  SchedInv'
  <2>1. state[n] = "Ready" /\ queue[n] = 1
    BY <1>2 DEF Dispatch, SchedInv, ReadyQueueExact
  <2>2. TypeOK'
    BY <1>2, <2>1 DEF Dispatch, SchedInv, TypeOK, States
  <2>3. state \in [Pids -> States] /\ queue \in [Pids -> Nat]
    BY Zenon DEF SchedInv, TypeOK
  <2>4. ReadyQueueExact'
    <3>1. \A p \in Pids : queue[p] = IF state[p] = "Ready" THEN 1 ELSE 0
      BY Zenon DEF SchedInv, ReadyQueueExact
    <3> QED BY <1>2, <2>1, <2>3, <3>1 DEF Dispatch, ReadyQueueExact
  <2>5. NothingFreedInUse'
    BY <1>2, <2>1, <2>3, Zenon DEF Dispatch, SchedInv, NothingFreedInUse, Alive, Exists
  <2>6. OnlyRunningRuns'
    BY <1>2, <2>1, <2>3, Zenon DEF Dispatch, SchedInv, OnlyRunningRuns
  <2>7. (\A r \in reaps : ~Alive(r[1]) /\ r[1] < nextPid)'
    <3>1. \A r \in reaps : ~Alive(r[1]) /\ r[1] < nextPid /\ r[1] \in Pids
      BY ZenonT(40) DEF SchedInv, TypeOK
    <3>2. reaps' = reaps /\ nextPid' = nextPid /\ \A p \in Pids : p # n => state'[p] = state[p]
      BY <1>2, <2>3, Zenon DEF Dispatch
    <3>3. Alive(n)
      BY <2>1, Zenon DEF Alive
    <3> QED BY <3>1, <3>2, <3>3, Zenon DEF Alive
  <2>8. (\A p \in Pids : p >= nextPid => state[p] = "Absent" /\ tgid[p] = p)'
    BY <1>2, <2>1, <2>3, Zenon DEF Dispatch, SchedInv
  <2> QED BY <1>2, <2>2, <2>4, <2>5, <2>6, <2>7, <2>8, Zenon DEF Dispatch, SchedInv
<1> QED BY <1>1, <1>2, Zenon DEF Schedule

\* What holds of the thread that executes.
LEMMA UserFacts ==
    ASSUME SchedInv, NEW t \in Pids, cpu = "run", current = t
    PROVE  state[t] = "Running" /\ Alive(t) /\ queue[t] = 0 /\ t \in space
BY Zenon DEF SchedInv, OnlyRunningRuns, ReadyQueueExact, NothingFreedInUse, Alive

\* A new entry is Ready, queued once, and has an address space; a vfork caller
\* is also put to sleep.
LEMMA CreateInv ==
    ASSUME SchedInv, NEW t \in Pids, do_clone(t) \/ do_fork(t) \/ do_vfork(t)
    PROVE  SchedInv'
<1> DEFINE c == nextPid
<1> USE DEF treeVars, noteVars
<1>1. InUser(t) /\ c \in Pids /\ nextPid' = nextPid + 1 /\ space' = space \cup {c}
      /\ UNCHANGED <<reaps, current, stopNote, contNote, pending, sigwork>>
  BY PidFacts, SMTT(30) DEF do_clone, do_fork, do_vfork, ForkEntry, NewEntry, SchedInv, TypeOK, Pids
<1>2. /\ state[t] = "Running" /\ queue[t] = 0 /\ t \in space
      /\ cpu = "run" /\ current = t
      /\ state[c] = "Absent" /\ queue[c] = 0 /\ t # c /\ tgid[c] = c
  BY <1>1, UserFacts DEF InUser, SchedInv, ReadyQueueExact, TypeOK
<1>3. \E g \in {c, tgid[t]}, up \in {t, parent[t]} :
        tgid' = [tgid EXCEPT ![c] = g] /\ parent' = [parent EXCEPT ![c] = up]
  BY Zenon DEF do_clone, do_fork, do_vfork, ForkEntry, NewEntry
<1>4. /\ state \in [Pids -> States] /\ queue \in [Pids -> Nat] /\ tgid \in [Pids -> Pids]
      /\ pc \in [Pids -> Call]
  BY Zenon DEF SchedInv, TypeOK
<1>5. \/ /\ state' = [state EXCEPT ![c] = "Ready"]
         /\ cpu' = "run" /\ pc' = pc
      \/ /\ state' = [state EXCEPT ![c] = "Ready", ![t] = "Blocked"]
         /\ cpu' = "schedule" /\ pc' = [pc EXCEPT ![t] = Vfork(c)]
  BY <1>1, <1>2, <1>4, Zenon DEF do_clone, do_fork, do_vfork, enqueue_ready, Move, InUser
<1>6. queue' = [queue EXCEPT ![c] = 1]
  BY <1>1, <1>2, <1>4 DEF do_clone, do_fork, do_vfork, enqueue_ready, Move, remove_ready
<1>7. /\ children' \in [Pids -> SUBSET Pids]
      /\ vforkParent' \in [Pids -> Pids \cup {NoPid}]
      /\ noCldWait' \subseteq Pids
  <2>1. /\ children \in [Pids -> SUBSET Pids]
        /\ vforkParent \in [Pids -> Pids \cup {NoPid}]
        /\ noCldWait \subseteq Pids
    BY Zenon DEF SchedInv, TypeOK
  <2>2. CASE do_clone(t)
    BY <2>1, <2>2, Zenon DEF do_clone
  <2>3. CASE do_fork(t)
    BY <1>1, <2>1, <2>3, Zenon DEF do_fork, ForkEntry
  <2>4. CASE do_vfork(t)
    BY <1>1, <2>1, <2>4, Zenon DEF do_vfork, ForkEntry
  <2> QED BY <2>2, <2>3, <2>4, Zenon
<1>8. pc' \in [Pids -> Call] /\ state' \in [Pids -> States] /\ queue' \in [Pids -> Nat]
  BY <1>1, <1>4, <1>5, <1>6, SMTT(30) DEF Call, Vfork, States
<1>9. /\ parent' \in [Pids -> Pids \cup {NoPid}]
      /\ tgid' \in [Pids -> Pids]
      /\ nextPid' \in 2..(MaxPid + 1)
  <2>1. nextPid' \in 2..(MaxPid + 1)
    BY <1>1, SchedulerAssumption DEF SchedInv, TypeOK, Pids
  <2>2. parent \in [Pids -> Pids \cup {NoPid}] /\ tgid \in [Pids -> Pids]
    BY Zenon DEF SchedInv, TypeOK
  <2> QED BY <1>1, <1>3, <2>1, <2>2, SMTT(30)
<1>10. TypeOK'
  <2>1. /\ space' \subseteq Pids /\ reaps' \subseteq Pids \X ReapKinds /\ current' \in Pids
        /\ stopNote' \subseteq Pids /\ contNote' \subseteq Pids
        /\ pending' \in [Pids -> SUBSET {"KILL", "STOP"}]
        /\ sigwork' \in [sig : {"KILL", "STOP"}, targets : SUBSET Pids,
                         from : {"run", "idle", "keyboard", "serial", "kill"}]
    BY <1>1, ZenonT(40) DEF SchedInv, TypeOK
  <2>2. cpu' \in {"run", "signal", "schedule", "idle"}
    BY <1>5, Zenon
  <2> QED BY <1>7, <1>8, <1>9, <2>1, <2>2, Zenon DEF TypeOK
<1>11. /\ state'[c] = "Ready" /\ state'[t] \in {"Running", "Blocked"}
       /\ \A p \in Pids \ {c, t} : state'[p] = state[p]
       /\ cpu' = "run" => state'[t] = "Running"
       /\ cpu' \in {"run", "schedule"}
  <2> HIDE DEF c
  <2> QED BY <1>1, <1>2, <1>4, <1>5, Zenon
<1>12. ReadyQueueExact'
  <2> SUFFICES ASSUME NEW p \in Pids PROVE queue'[p] = IF state'[p] = "Ready" THEN 1 ELSE 0
    BY Zenon DEF ReadyQueueExact
  <2>1. queue[p] = IF state[p] = "Ready" THEN 1 ELSE 0
    BY Zenon DEF SchedInv, ReadyQueueExact
  <2>2. queue'[p] = IF p = c THEN 1 ELSE queue[p]
    BY <1>1, <1>4, <1>6, Zenon
  <2> HIDE DEF c
  <2> QED BY <1>2, <1>11, <2>1, <2>2, Zenon
<1>13. NothingFreedInUse' /\ OnlyRunningRuns'
  <2>1. /\ \A p \in Pids : Alive(p) => p \in space
        /\ \A p \in Pids : state[p] = "Running" => p = t
    BY <1>2, Zenon DEF SchedInv, NothingFreedInUse, OnlyRunningRuns
  <2>2. current' = t /\ space' = space \cup {c} /\ t \in space /\ t # c
    BY <1>1, <1>2, Zenon
  <2> HIDE DEF c
  <2>3. \A p \in Pids : Alive(p)' => p \in space'
    BY <1>11, <2>1, <2>2, Zenon DEF Alive
  <2>4. \A p \in Pids : state'[p] = "Running" => p = t
    BY <1>11, <2>1, Zenon
  <2>5. NothingFreedInUse'
    BY <1>11, <2>2, <2>3, Zenon DEF NothingFreedInUse, Exists
  <2>6. OnlyRunningRuns'
    BY <1>11, <2>2, <2>4, Zenon DEF OnlyRunningRuns
  <2> QED BY <2>5, <2>6, Zenon
<1>14. (\A r \in reaps : ~Alive(r[1]) /\ r[1] < nextPid)'
  <2>1. \A q \in Pids : ~Alive(q) /\ q < nextPid => ~Alive(q)' /\ q < nextPid'
    <3> SUFFICES ASSUME NEW q \in Pids, ~Alive(q), q < nextPid PROVE ~Alive(q)' /\ q < nextPid'
      OBVIOUS
    <3>1. nextPid \in Nat /\ q \in Nat /\ nextPid' = nextPid + 1
      BY <1>1, PidFacts, Zenon DEF SchedInv, TypeOK
    <3>2. q # c /\ q < nextPid'
      BY <3>1
    <3>3. q # t
      BY <1>2, Zenon DEF Alive
    <3> HIDE DEF c
    <3> QED BY <3>2, <3>3, <1>11, Zenon DEF Alive
  <2>2. \A r \in reaps : r[1] \in Pids /\ ~Alive(r[1]) /\ r[1] < nextPid
    BY ZenonT(40) DEF SchedInv, TypeOK
  <2> QED BY <2>1, <2>2, <1>1, Zenon
<1>15. PICK g \in {c, tgid[t]} : tgid' = [tgid EXCEPT ![c] = g]
  BY <1>3, Zenon
<1> HIDE DEF c
<1>16. c \in Nat /\ t < c /\ tgid[t] < c /\ tgid[t] \in Pids /\ tgid[tgid[t]] = tgid[t]
       /\ nextPid' = c + 1
  BY <1>1, <1>2, <1>4, PidFacts DEF SchedInv, TypeOK, c
<1>17. \A p \in Pids : p >= c => tgid[p] = p /\ state[p] = "Absent"
  BY Zenon DEF SchedInv, c
<1>18. \A p \in Pids : p < c => tgid[p] < c
  BY Zenon DEF SchedInv, c
<1>19. \A p \in Pids : tgid[tgid[p]] = tgid[p]
  BY Zenon DEF SchedInv
<1>20. (\A p \in Pids : p >= nextPid => state[p] = "Absent" /\ tgid[p] = p)'
  <2> SUFFICES ASSUME NEW p \in Pids, p >= nextPid' PROVE state'[p] = "Absent" /\ tgid'[p] = p
    OBVIOUS
  <2>1. p \in Nat /\ p # c /\ p # t /\ p >= c
    BY <1>16, PidFacts
  <2>2. state'[p] = state[p] /\ tgid'[p] = tgid[p]
    BY <2>1, <1>4, <1>11, <1>15, Zenon
  <2> QED BY <2>1, <2>2, <1>17, Zenon
<1>21. (\A p \in Pids : p < nextPid => tgid[p] < nextPid)'
  <2> SUFFICES ASSUME NEW p \in Pids, p < nextPid' PROVE tgid'[p] < nextPid'
    OBVIOUS
  <2>1. CASE p = c
    BY <2>1, <1>1, <1>4, <1>15, <1>16, PidFacts
  <2>2. CASE p # c
    <3>1. p < c /\ tgid'[p] = tgid[p] /\ tgid[p] \in Nat
      BY <2>2, <1>4, <1>15, <1>16, PidFacts, SMTT(30)
    <3> QED BY <3>1, <1>16, <1>18
  <2> QED BY <2>1, <2>2, Zenon
<1>22. (\A p \in Pids : tgid[tgid[p]] = tgid[p])'
  <2> SUFFICES ASSUME NEW p \in Pids PROVE tgid'[tgid'[p]] = tgid'[p]
    OBVIOUS
  <2>1. CASE p = c
    BY <2>1, <1>1, <1>4, <1>15, <1>16, PidFacts, Zenon
  <2>2. CASE p # c
    <3>1. tgid'[p] = tgid[p] /\ tgid[p] \in Pids /\ tgid[p] # c
      BY <2>2, <1>4, <1>15, <1>16, <1>17, <1>18, PidFacts, SMTT(30)
    <3> QED BY <3>1, <1>4, <1>15, <1>19, Zenon
  <2> QED BY <2>1, <2>2, Zenon
<1>23. (cpu = "schedule" => state[current] # "Ready")' /\ cpu' # "signal"
  BY <1>1, <1>2, <1>11, Zenon
<1> QED BY <1>10, <1>12, <1>13, <1>14, <1>23, <1>20, <1>21, <1>22, Zenon DEF SchedInv

\* The current thread goes to sleep.
LEMMA BlockKept ==
    ASSUME SchedInv, NEW t \in Pids, NEW call \in Call, cpu = "run", current = t,
           Block(t, call), space' = space, reaps' = reaps
    PROVE  Kept /\ state'[t] = "Blocked" /\ pc' \in [Pids -> Call] /\ cpu' = "schedule"
<1>1. state[t] = "Running" /\ queue[t] = 0 /\ t \in space
  BY UserFacts, Zenon
<1>2. /\ state \in [Pids -> States] /\ queue \in [Pids -> Nat] /\ pc \in [Pids -> Call]
      /\ space \subseteq Pids /\ reaps \subseteq Pids \X ReapKinds
  BY Zenon DEF SchedInv, TypeOK
<1>3. /\ state' = [state EXCEPT ![t] = "Blocked"] /\ queue' = queue
      /\ pc' = [pc EXCEPT ![t] = call] /\ cpu' = "schedule"
  BY Zenon DEF Block
<1>4. state' \in [Pids -> States] /\ pc' \in [Pids -> Call]
  BY <1>2, <1>3, Zenon DEF States
<1>5. ReadyQueueExact'
  BY <1>1, <1>2, <1>3, Zenon DEF SchedInv, ReadyQueueExact
<1>6. \A p \in Pids : Alive(p)' => Alive(p)
  BY <1>1, <1>2, <1>3, Zenon DEF Alive
<1>7. \A p \in Pids : Alive(p)' => p \in space'
  BY <1>6, Zenon DEF SchedInv, NothingFreedInUse
<1>8. \A r \in reaps' : ~Alive(r[1])' /\ r[1] < nextPid
  BY <1>2, <1>6, Zenon DEF SchedInv
<1>9. \A p \in Pids : p >= nextPid => state'[p] = "Absent"
  BY <1>1, <1>2, <1>3, Zenon DEF SchedInv
<1> QED BY <1>1, <1>2, <1>3, <1>4, <1>5, <1>7, <1>8, <1>9, Zenon DEF Kept, TableTyped

\* Nothing in the table changes.
LEMMA StayKept ==
    ASSUME SchedInv, UNCHANGED <<state, queue, space, reaps>>
    PROVE  Kept
BY Zenon DEF SchedInv, TypeOK, Kept, TableTyped, ReadyQueueExact, NothingFreedInUse, Exists, Alive

-----------------------------------------------------------------------------
(* The system calls and signals.                                           *)

\* A thread goes to sleep, or runs again after one.
LEMMA SleepInv ==
    ASSUME SchedInv, NEW t \in Pids,
           ResumeVfork(t) \/ ResumeSleep(t) \/ BlockIn(t, Sleep) \/ BlockIn(t, Io)
    PROVE  SchedInv'
<1> USE DEF treeVars, noteVars
<1>1. cpu = "run" /\ current = t /\ UNCHANGED <<space, reaps, current, treeVars, noteVars, sigwork>>
  BY Zenon DEF ResumeVfork, ResumeSleep, BlockIn, InUser
<1>2. state[t] = "Running" /\ TypeOK /\ Same
  BY <1>1, UserFacts, Zenon DEF SchedInv, Same
<1>3. User \in Call /\ Sleep \in Call /\ Io \in Call /\ pc[t] \in Call
  BY <1>2, Zenon DEF Call, User, Sleep, Io, TypeOK
<1>4. CASE Return(t) /\ UNCHANGED <<state, queue, cpu>>
  <2>1. Kept
    BY <1>1, <1>4, StayKept, Zenon
  <2>2. TypeOK'
    BY <1>1, <1>2, <1>3, <1>4, Zenon DEF TypeOK, Return
  <2> QED BY <1>1, <1>2, <1>4, <2>1, <2>2, AssembleRun, Zenon
<1>5. ASSUME NEW call \in Call, Block(t, call) PROVE SchedInv'
  <2>1. Kept /\ state'[t] = "Blocked" /\ pc' \in [Pids -> Call] /\ cpu' = "schedule"
    BY <1>1, <1>5, BlockKept, Zenon
  <2>2. TypeOK'
    BY <1>1, <1>2, <2>1, KeptTypes, Zenon DEF TypeOK, TableTyped
  <2> QED BY <1>1, <1>2, <2>1, <2>2, AssembleSchedule, Zenon
<1> QED BY <1>3, <1>4, <1>5, Zenon DEF ResumeVfork, ResumeSleep, BlockIn

\* sigaction and preemption touch nothing of the table.
LEMMA SmallInv ==
    ASSUME SchedInv, NEW t \in Pids, do_sigaction(t) \/ Preempt(t)
    PROVE  SchedInv'
<1> USE DEF treeVars, noteVars, schedVars
<1>1. /\ cpu = "run" /\ current = t /\ cpu' \in {"run", "schedule"}
      /\ UNCHANGED <<state, pc, space, queue, reaps, current, treeVars, sigwork>>
  BY Zenon DEF do_sigaction, Preempt, InUser
<1>2. state[t] = "Running" /\ TypeOK /\ Same
  BY <1>1, UserFacts, Zenon DEF SchedInv, Same
<1>3. TypeOK'
  BY <1>1, <1>2, Zenon DEF TypeOK, do_sigaction, Preempt
<1>4. Kept
  BY <1>1, StayKept, Zenon
<1> QED BY <1>1, <1>2, <1>3, <1>4, Assemble, Zenon

\* exec gives a borrowed address space back.
LEMMA ExecInv ==
    ASSUME SchedInv, NEW t \in Pids, do_execve(t)
    PROVE  SchedInv'
<1> USE DEF treeVars, noteVars
<1>1. /\ cpu = "run" /\ current = t /\ cpu' = "run" /\ Move(vfork_release({t}), {}, {}, {})
      /\ UNCHANGED <<pc, space, reaps, current, nextPid, tgid, parent, children, noteVars, sigwork>>
  BY Zenon DEF do_execve, InUser
<1>2. state[t] = "Running" /\ TypeOK /\ Same
  BY <1>1, UserFacts, Zenon DEF SchedInv, Same
<1>3. \A q \in vfork_release({t}) : state[q] = "Blocked"
  BY <1>2, WokenBlocked, Zenon
<1>4. Kept /\ state'[current] = state[current]
  BY <1>1, <1>2, <1>3, WakeKept, Zenon
<1>5. TypeOK'
  BY <1>1, <1>2, <1>4, KeptTypes, Zenon DEF TypeOK, TableTyped, do_execve
<1> QED BY <1>1, <1>2, <1>4, <1>5, AssembleRun, Zenon

\* An interrupt or a call wakes a sleeper.
LEMMA WakeupInv ==
    ASSUME SchedInv, NEW p \in Pids, Wakeup(p)
    PROVE  SchedInv'
<1> USE DEF treeVars, noteVars
<1> DEFINE R == {p}
<1>1. state[p] = "Blocked" /\ Move(R, {}, {}, {}) /\ Interruptible
  BY Zenon DEF Wakeup, enqueue_ready
<1>2. UNCHANGED <<pc, space, reaps, current, cpu, treeVars, noteVars, sigwork>> /\ Same
  BY Zenon DEF Wakeup, Same
<1>3. \A q \in R : state[q] \in {"Blocked", "Stopped"}
  BY <1>1, Zenon
<1>4. cpu \in {"run", "idle"}
  BY <1>1, Zenon DEF Interruptible
<1>5. TypeOK /\ (cpu = "run" => state[current] = "Running" /\ current \notin R)
  BY <1>1, Zenon DEF SchedInv, OnlyRunningRuns
<1> HIDE DEF R
<1>6. Kept /\ (current \notin R => state'[current] = state[current])
  BY <1>1, <1>2, <1>3, WakeKept, Zenon
<1>7. TypeOK'
  BY <1>2, <1>5, <1>6, KeptTypes, Zenon DEF TypeOK, TableTyped
<1>8. CASE cpu = "run"
  BY <1>2, <1>5, <1>6, <1>7, <1>8, AssembleRun, Zenon
<1>9. CASE cpu = "idle"
  <2>1. \A q \in Pids : state'[q] # "Running"
    BY <1>6, <1>9, Zenon DEF Kept, SchedInv, OnlyRunningRuns
  <2>2. cpu' = "idle"
    BY <1>2, <1>9, Zenon
  <2> QED BY <1>2, <1>6, <1>7, <2>1, <2>2, Assemble, Zenon
<1> QED BY <1>4, <1>8, <1>9, Zenon

\* A thread, or its whole group, exits.
LEMMA ExitInv ==
    ASSUME SchedInv, NEW t \in Pids, do_exit(t) \/ do_exit_group(t)
    PROVE  SchedInv'
<1> USE DEF noteVars
<1>1. /\ cpu = "run" /\ current = t /\ cpu' = "schedule"
      /\ UNCHANGED <<pc, current, nextPid, tgid, noteVars, sigwork>>
  BY Zenon DEF do_exit, do_exit_group, Exiting, InUser
<1>2. state[t] = "Running" /\ Alive(t) /\ TypeOK /\ Same
  BY <1>1, UserFacts, Zenon DEF SchedInv, Same
<1>3. /\ Kept
      /\ vforkParent' \in [Pids -> Pids \cup {NoPid}]
      /\ parent' \in [Pids -> Pids \cup {NoPid}]
      /\ children' \in [Pids -> SUBSET Pids]
      /\ state'[t] # "Ready"
  <2>1. CASE do_exit(t)
    <3>1. PICK W \in FutexWakes(t) :
            terminate_process({t}, IF LiveGroup(t) \subseteq {t} THEN t ELSE NoPid, W)
      BY <2>1, Zenon DEF do_exit
    <3>2. W \in SUBSET Pids /\ \A q \in W : state[q] = "Blocked"
      BY <1>2, WokenBlocked DEF FutexWakes
    <3>3. state'[t] # "Ready"
      BY <3>1, Zenon DEF terminate_process, Move
    <3> QED BY <1>2, <3>1, <3>2, <3>3, TerminateKept, Zenon
  <2>2. CASE do_exit_group(t)
    <3>1. terminate_thread_group(t)
      BY <2>2, Zenon DEF do_exit_group
    <3>2. t \in LiveGroup(t)
      BY <1>2, Zenon DEF LiveGroup
    <3>3. state'[t] # "Ready"
      BY <3>1, <3>2, Zenon DEF terminate_thread_group, terminate_process, Move
    <3> QED BY <1>2, <3>1, <3>3, GroupKept, Zenon
  <2> QED BY <2>1, <2>2, Zenon
<1>4. TypeOK'
  BY <1>1, <1>2, <1>3, KeptTypes, Zenon DEF TypeOK, TableTyped
<1> QED BY <1>1, <1>2, <1>3, <1>4, AssembleSchedule, Zenon

\* One pass of wait4: it reaps, reports, fails or sleeps.
LEMMA WaitInv ==
    ASSUME SchedInv, NEW t \in Pids, NEW call \in Call, call.op = "wait4",
           cpu = "run", current = t, WaitPass(t, call)
    PROVE  SchedInv'
<1> DEFINE M == Matching(t, call)
<1>1. /\ UNCHANGED <<reaps, current, nextPid, tgid, parent, vforkParent, pending, noCldWait, sigwork>>
      /\ Same
  BY Zenon DEF WaitPass, Same
<1>2. state[t] = "Running" /\ TypeOK /\ User \in Call
  BY UserFacts, Zenon DEF SchedInv, Call, User
<1>3. CASE Block(t, call) /\ UNCHANGED <<space, children, stopNote, contNote>>
  <2>1. Kept /\ state'[t] = "Blocked" /\ pc' \in [Pids -> Call] /\ cpu' = "schedule"
    BY <1>1, <1>3, BlockKept, Zenon
  <2>2. TypeOK'
    BY <1>1, <1>2, <1>3, <2>1, KeptTypes, Zenon DEF TypeOK, TableTyped
  <2> QED BY <1>1, <1>2, <2>1, <2>2, AssembleSchedule, Zenon
<1>4. ASSUME NEW stops, NEW conts, Report(stops, conts), Return(t), cpu' = cpu
      PROVE  SchedInv'
  <2>1. Kept
    BY <1>1, <1>4, StayKept, Zenon DEF Report
  <2>2. TypeOK'
    BY <1>1, <1>2, <1>4, Zenon DEF TypeOK, Report, Return
  <2> QED BY <1>1, <1>2, <1>4, <2>1, <2>2, AssembleRun, Zenon DEF Report
<1>5. ASSUME NEW c \in Zombies(M), ReapChild(t, c), Return(t), cpu' = cpu
      PROVE  SchedInv'
  <2>1. state[c] = "Zombie" /\ c # current /\ Move({}, {}, {}, {c}) /\ space' = space \ {c}
    BY <1>2, <1>5, Zenon DEF Zombies, ReapChild
  <2>2. Kept /\ state'[current] = state[current]
    BY <1>1, <2>1, MoveKept
  <2>3. TypeOK'
    BY <1>1, <1>2, <1>5, <2>2, KeptTypes, Zenon DEF TypeOK, TableTyped, ReapChild, Return
  <2> QED BY <1>1, <1>2, <1>5, <2>2, <2>3, AssembleRun, Zenon
<1> QED BY <1>3, <1>4, <1>5, Zenon DEF WaitPass, WaitReturns

\* wait4, on entry and after a sleep.
LEMMA Wait4Inv ==
    ASSUME SchedInv, NEW t \in Pids,
           \/ \E target \in Pids \cup {NoPid}, options \in Options : do_wait4(t, target, options)
           \/ ResumeWait4(t)
    PROVE  SchedInv'
<1>1. ASSUME NEW target \in Pids \cup {NoPid}, NEW options \in Options, do_wait4(t, target, options)
      PROVE  SchedInv'
  <2>1. Wait4(target, options) \in Call /\ Wait4(target, options).op = "wait4"
    BY Zenon DEF Wait4, Call
  <2> QED BY <1>1, <2>1, WaitInv, Zenon DEF do_wait4, InUser
<1>2. CASE ResumeWait4(t)
  <2>1. pc[t] \in Call
    BY ZenonT(40) DEF SchedInv, TypeOK
  <2> QED BY <1>2, <2>1, WaitInv, Zenon DEF ResumeWait4
<1> QED BY <1>1, <1>2, Zenon

\* A signal carried out on a thread of another group, or by the loop of
\* signal_foreground_group on any thread.
LEMMA KillKept ==
    ASSUME SchedInv, NEW r \in Pids, Alive(r), NEW sig, KillOther(r, sig), current' = current
    PROVE  /\ Kept /\ Same
           /\ vforkParent' \in [Pids -> Pids \cup {NoPid}]
           /\ parent' \in [Pids -> Pids \cup {NoPid}]
           /\ children' \in [Pids -> SUBSET Pids]
           /\ stopNote' \subseteq Pids /\ contNote' \subseteq Pids
           /\ pending' \in [Pids -> SUBSET {"KILL", "STOP"}]
           /\ tgid[r] # tgid[current] /\ state[current] = "Running" => state'[current] = "Running"
           /\ sig # "CONT" /\ state[current] \in {"Running", "Stopped", "Zombie"} =>
                state'[current] \in {"Running", "Stopped", "Zombie"}
<1> USE DEF treeVars
<1>1. TypeOK /\ current \in Pids
  BY Zenon DEF SchedInv, TypeOK
<1>2. CASE sig = "KILL" /\ terminate_thread_group(r) /\ UNCHANGED <<nextPid, tgid, stopNote, contNote, pending>>
  <2>1. Same
    BY <1>2, Zenon DEF Same
  <2>2. stopNote' \subseteq Pids /\ contNote' \subseteq Pids /\ pending' \in [Pids -> SUBSET {"KILL", "STOP"}]
    BY <1>1, <1>2, Zenon DEF TypeOK
  <2> QED BY <1>2, <2>1, <2>2, GroupKept, Zenon
<1>3. CASE sig = "STOP" /\ Stop(r) /\ UNCHANGED <<space, reaps, treeVars, contNote, pending>>
  <2>1. Move(StopWakes(r), {}, {r}, {}) /\ \A q \in StopWakes(r) : state[q] = "Blocked"
    BY <1>1, <1>3, WokenBlocked, Zenon DEF Stop, StopWakes
  <2>2. /\ Kept
        /\ current \notin StopWakes(r) \cup {r} => state'[current] = state[current]
    BY <1>3, <2>1, StopKept, Zenon
  <2>3. /\ stopNote' \subseteq Pids /\ contNote' \subseteq Pids /\ pending' \in [Pids -> SUBSET {"KILL", "STOP"}]
        /\ vforkParent' \in [Pids -> Pids \cup {NoPid}]
        /\ parent' \in [Pids -> Pids \cup {NoPid}]
        /\ children' \in [Pids -> SUBSET Pids]
        /\ Same
    BY <1>1, <1>3, Zenon DEF TypeOK, Stop, Same
  <2>4. current = r => state'[current] = "Stopped"
    BY <1>1, <2>1, Zenon DEF Move
  <2> QED BY <1>3, <2>1, <2>2, <2>3, <2>4, Zenon
<1>4. CASE sig = "CONT" /\ Continue({r}) /\ UNCHANGED <<space, reaps, treeVars>>
  <2> DEFINE C == Resumed({r})
             R == C \cup UNION {notify_parent_sigchld(p) : p \in C}
  <2>1. Move(R, {}, {}, {}) /\ \A q \in R : state[q] \in {"Blocked", "Stopped"}
    BY <1>1, <1>4, WokenBlocked, Zenon DEF Continue, Resumed
  <2> HIDE DEF R
  <2>2. Kept /\ (current \notin R => state'[current] = state[current])
    BY <1>4, <2>1, WakeKept, Zenon
  <2>3. /\ stopNote' \subseteq Pids /\ contNote' \subseteq Pids /\ pending' \in [Pids -> SUBSET {"KILL", "STOP"}]
        /\ vforkParent' \in [Pids -> Pids \cup {NoPid}]
        /\ parent' \in [Pids -> Pids \cup {NoPid}]
        /\ children' \in [Pids -> SUBSET Pids]
        /\ Same
    BY <1>1, <1>4, Zenon DEF TypeOK, Continue, StopsAfter, Resumed, Same
  <2> QED BY <1>4, <2>1, <2>2, <2>3, Zenon
<1> QED BY <1>2, <1>3, <1>4, Zenon DEF KillOther

\* kill() of one process.
LEMMA KillInv ==
    ASSUME SchedInv, NEW t \in Pids, NEW target \in Pids, NEW sig \in Signals, do_kill(t, target, sig)
    PROVE  SchedInv'
<1> USE DEF treeVars, noteVars
<1>1. /\ cpu = "run" /\ current = t
      /\ UNCHANGED <<pc, current, cpu, noCldWait, sigwork>>
  BY Zenon DEF do_kill, InUser
<1>2. state[t] = "Running" /\ TypeOK
  BY <1>1, UserFacts, Zenon DEF SchedInv
<1>3. PICK r \in route_signal_target(target) :
        /\ Alive(r)
        /\ \/ tgid[r] = tgid[t] /\ sig # "CONT" /\ KillOwnThread(r, sig)
           \/ tgid[r] # tgid[t] /\ KillOther(r, sig)
  BY Zenon DEF do_kill, Signalled
<1>4. r \in Pids
  BY Zenon DEF route_signal_target, LiveGroup
<1>5. CASE tgid[r] = tgid[t] /\ sig # "CONT" /\ KillOwnThread(r, sig)
  <2> DEFINE R == IF Interrupted(r) THEN {r} ELSE {}
  <2>1. /\ Move(R, {}, {}, {}) /\ UNCHANGED <<space, reaps, treeVars, stopNote, contNote>>
        /\ \A q \in R : state[q] = "Blocked"
    BY <1>5, Zenon DEF KillOwnThread, Interrupted
  <2> HIDE DEF R
  <2>2. Kept /\ state'[current] = state[current]
    BY <1>1, <1>2, <2>1, WakeKept, Zenon
  <2>3. sig \in {"KILL", "STOP"}
    BY <1>5, ProcessAssumption, Zenon
  <2>4. TypeOK'
    BY <1>1, <1>2, <1>4, <1>5, <2>1, <2>2, <2>3, KeptTypes, Zenon DEF TypeOK, TableTyped, KillOwnThread
  <2> QED BY <1>1, <1>2, <2>1, <2>2, <2>4, AssembleRun, Zenon DEF Same
<1>6. CASE tgid[r] # tgid[t] /\ KillOther(r, sig)
  <2>1. /\ Kept /\ Same
        /\ vforkParent' \in [Pids -> Pids \cup {NoPid}]
        /\ parent' \in [Pids -> Pids \cup {NoPid}]
        /\ children' \in [Pids -> SUBSET Pids]
        /\ stopNote' \subseteq Pids /\ contNote' \subseteq Pids
        /\ pending' \in [Pids -> SUBSET {"KILL", "STOP"}]
        /\ state'[current] = "Running"
    BY <1>1, <1>2, <1>3, <1>4, <1>6, KillKept, Zenon
  <2>2. TypeOK'
    BY <1>1, <1>2, <2>1, KeptTypes, Zenon DEF TypeOK, TableTyped, Same
  <2> QED BY <1>1, <2>1, <2>2, AssembleRun, Zenon
<1> QED BY <1>3, <1>5, <1>6, Zenon

\* SIGCONT to a group, which wakes its members at once.
LEMMA ContinueGroupInv ==
    ASSUME SchedInv, NEW t \in Pids, NEW G \in SUBSET Pids, do_kill_group_cont(t, G)
    PROVE  SchedInv'
<1> USE DEF treeVars, noteVars
<1> DEFINE C == Resumed(GroupTargets(G))
           R == C \cup UNION {notify_parent_sigchld(p) : p \in C}
<1>1. /\ cpu = "run" /\ current = t /\ Continue(GroupTargets(G))
      /\ UNCHANGED <<pc, space, reaps, current, cpu, treeVars, noCldWait, sigwork>>
  BY Zenon DEF do_kill_group_cont, InUser
<1>2. state[t] = "Running" /\ TypeOK /\ Same
  BY <1>1, UserFacts, Zenon DEF SchedInv, Same
<1>3. Move(R, {}, {}, {}) /\ \A q \in R : state[q] \in {"Blocked", "Stopped"}
  BY <1>1, <1>2, WokenBlocked, Zenon DEF Continue, Resumed
<1>4. /\ stopNote' \subseteq Pids /\ contNote' \subseteq Pids
      /\ pending' \in [Pids -> SUBSET {"KILL", "STOP"}]
  BY <1>1, <1>2, Zenon DEF TypeOK, Continue, StopsAfter, Resumed, GroupTargets
<1> HIDE DEF R
<1>5. Kept /\ state'[current] = state[current]
  BY <1>1, <1>2, <1>3, WakeKept, Zenon
<1>6. TypeOK'
  BY <1>1, <1>2, <1>4, <1>5, KeptTypes, Zenon DEF TypeOK, TableTyped
<1> QED BY <1>1, <1>2, <1>5, <1>6, AssembleRun, Zenon

\* The signal loop begins: from the keyboard, in user code or the idle loop, or
\* from kill() by a thread none of whose group is a target.
LEMMA LoopStartInv ==
    ASSUME SchedInv, NEW G \in SUBSET Pids, NEW sig \in Signals \ {"CONT"},
           \/ keyboard_interrupt_handler(G, sig)
           \/ \E t \in Pids : do_kill_group(t, G, sig)
    PROVE  SchedInv'
<1> USE DEF treeVars, noteVars
<1>1. /\ UNCHANGED <<state, pc, space, queue, reaps, current, treeVars, noteVars>>
      /\ cpu' = "signal"
  BY Zenon DEF keyboard_interrupt_handler, do_kill_group, signal_foreground_group
<1>2. TypeOK /\ Same /\ sig \in {"KILL", "STOP"}
  <2>1. sig \in {"KILL", "STOP"}
    BY ProcessAssumption, Zenon
  <2>2. TypeOK /\ Same
    BY <1>1, Zenon DEF SchedInv, Same
  <2> QED BY <2>1, <2>2, Zenon
<1>3. PICK from \in {"idle", "keyboard", "kill"} :
        /\ sigwork' = [sig |-> sig, targets |-> {p \in GroupTargets(G) : ~discards(p)}, from |-> from]
        /\ from = "idle" => cpu = "idle"
        /\ from = "keyboard" => cpu = "run"
        /\ from = "kill" => cpu = "run" /\ \A p \in GroupTargets(G) : tgid[p] # tgid[current]
  BY Zenon DEF keyboard_interrupt_handler, do_kill_group, signal_foreground_group, Interruptible,
         InUser, OwnGroup
<1>4. {p \in GroupTargets(G) : ~discards(p)} \in SUBSET Pids
  BY Zenon DEF GroupTargets
<1>5. TypeOK'
  BY <1>1, <1>2, <1>3, <1>4, Zenon DEF TypeOK
<1>6. Kept
  BY <1>1, StayKept, Zenon
<1>7. /\ cpu = "run" => state[current] = "Running"
      /\ cpu = "idle" => state[current] # "Running"
  BY <1>2, Zenon DEF SchedInv, OnlyRunningRuns, TypeOK
<1>8. /\ sigwork'.from = from
      /\ sigwork'.targets = {p \in GroupTargets(G) : ~discards(p)}
  BY <1>3, Zenon
<1> QED BY <1>1, <1>2, <1>3, <1>5, <1>6, <1>7, <1>8, Assemble, Zenon

\* The signal loop takes its next target, or ends.
LEMMA LoopInv ==
    ASSUME SchedInv, SignalNext \/ SignalDone
    PROVE  SchedInv'
<1> USE DEF treeVars, noteVars
<1>1. /\ cpu = "signal" /\ TypeOK
      /\ sigwork.from \in {"idle", "keyboard", "kill"}
      /\ sigwork.from = "keyboard" => state[current] \in {"Running", "Stopped", "Zombie"}
      /\ sigwork.from = "idle" => state[current] # "Running"
      /\ sigwork.from = "kill" => /\ state[current] = "Running"
                                 /\ \A p \in sigwork.targets : tgid[p] # tgid[current]
  BY Zenon DEF SchedInv, TypeOK, SignalNext, SignalDone
<1>2. CASE SignalNext
  <2>1. PICK r \in sigwork.targets :
          /\ sigwork' = [sigwork EXCEPT !.targets = @ \ {r}]
          /\ \/ Alive(r) /\ KillOther(r, sigwork.sig)
             \/ ~Alive(r) /\ UNCHANGED <<state, queue, space, reaps, treeVars, stopNote, contNote, pending>>
    BY <1>2, Zenon DEF SignalNext
  <2>2. UNCHANGED <<pc, current, cpu, noCldWait>>
    BY <1>2, Zenon DEF SignalNext
  <2>3. r \in Pids /\ sigwork.sig # "CONT"
    BY <1>1, Zenon DEF TypeOK
  <2>4. /\ Kept /\ Same
        /\ vforkParent' \in [Pids -> Pids \cup {NoPid}]
        /\ parent' \in [Pids -> Pids \cup {NoPid}]
        /\ children' \in [Pids -> SUBSET Pids]
        /\ stopNote' \subseteq Pids /\ contNote' \subseteq Pids
        /\ pending' \in [Pids -> SUBSET {"KILL", "STOP"}]
        /\ tgid[r] # tgid[current] /\ state[current] = "Running" => state'[current] = "Running"
        /\ state[current] \in {"Running", "Stopped", "Zombie"} =>
             state'[current] \in {"Running", "Stopped", "Zombie"}
    <3>1. CASE Alive(r) /\ KillOther(r, sigwork.sig)
      BY <2>2, <2>3, <3>1, KillKept, Zenon
    <3>2. CASE UNCHANGED <<state, queue, space, reaps, treeVars, stopNote, contNote, pending>>
      <4>1. Kept
        BY <3>2, StayKept, Zenon
      <4> QED BY <1>1, <2>2, <3>2, <4>1, Zenon DEF TypeOK, Same
    <3> QED BY <2>1, <3>1, <3>2, Zenon
  <2>5. /\ sigwork'.from = sigwork.from
        /\ sigwork'.targets \subseteq sigwork.targets
        /\ sigwork' \in [sig : {"KILL", "STOP"}, targets : SUBSET Pids,
                         from : {"run", "idle", "keyboard", "serial", "kill"}]
    BY <1>1, <2>1, Zenon DEF TypeOK
  <2>6. TypeOK'
    BY <1>1, <2>2, <2>4, <2>5, KeptTypes, Zenon DEF TypeOK, TableTyped, Same
  <2>7. state[current] # "Running" => state'[current] # "Running"
    BY <1>1, <2>4, Zenon DEF Kept, TypeOK
  <2> QED BY <1>1, <2>1, <2>2, <2>4, <2>5, <2>6, <2>7, Assemble, Zenon
<1>3. CASE SignalDone
  <2>1. /\ UNCHANGED <<state, pc, space, queue, reaps, current, treeVars, noteVars>>
        /\ sigwork' = NoWork
        /\ cpu' = IF must_reschedule THEN "schedule" ELSE IF sigwork.from = "idle" THEN "idle" ELSE "run"
    BY <1>3, Zenon DEF SignalDone
  <2>2. Kept /\ Same
    BY <2>1, StayKept, Zenon DEF Same
  <2>3. TypeOK'
    BY <1>1, <2>1, Zenon DEF TypeOK, NoWork
  <2>4. cpu' = "run" => state[current] = "Running"
    BY <1>1, <2>1, Zenon DEF must_reschedule
  <2>5. cpu' = "schedule" => state[current] # "Ready"
    BY <1>1, <2>1, Zenon DEF must_reschedule
  <2>6. cpu' = "idle" => \A p \in Pids : state[p] # "Running"
    BY <1>1, <2>1, Zenon DEF must_reschedule, SchedInv, OnlyRunningRuns
  <2> QED BY <2>1, <2>2, <2>3, <2>4, <2>5, <2>6, Assemble, Zenon
<1> QED BY <1>2, <1>3, Zenon

\* A pending signal ends or stops its own thread.
LEMMA DeliverInv ==
    ASSUME SchedInv, NEW t \in Pids, DeliverSignal(t)
    PROVE  SchedInv'
<1> USE DEF treeVars, noteVars
<1>1. cpu = "run" /\ current = t /\ cpu' = "schedule" /\ UNCHANGED <<pc, current, contNote, noCldWait, sigwork>>
  BY Zenon DEF DeliverSignal, InUser
<1>2. state[t] = "Running" /\ Alive(t) /\ TypeOK
  BY <1>1, UserFacts, Zenon DEF SchedInv
<1>3. CASE terminate_thread_group(t) /\ UNCHANGED <<nextPid, tgid, stopNote, pending>>
  <2>1. /\ Kept
        /\ vforkParent' \in [Pids -> Pids \cup {NoPid}]
        /\ parent' \in [Pids -> Pids \cup {NoPid}]
        /\ children' \in [Pids -> SUBSET Pids]
        /\ state'[current] \in {"Zombie", "Running"}
    BY <1>1, <1>2, <1>3, GroupKept, Zenon
  <2>2. TypeOK'
    BY <1>1, <1>2, <1>3, <2>1, KeptTypes, Zenon DEF TypeOK, TableTyped
  <2> QED BY <1>1, <1>3, <2>1, <2>2, AssembleSchedule, Zenon DEF Same
<1>4. CASE /\ Stop(t)
           /\ pending' = [pending EXCEPT ![t] = @ \ {"STOP"}]
           /\ UNCHANGED <<space, reaps, treeVars>>
  <2>1. Move(StopWakes(t), {}, {t}, {})
    BY <1>4, Zenon DEF Stop
  <2>2. \A q \in StopWakes(t) : state[q] = "Blocked"
    BY <1>2, WokenBlocked, Zenon DEF StopWakes
  <2>3. UNCHANGED <<space, reaps>> /\ Same
    BY <1>1, <1>4, Zenon DEF Same
  <2>4. Kept
    BY <1>2, <2>1, <2>2, <2>3, StopKept, Zenon
  <2>5. state'[t] = "Stopped"
    BY <2>1, Zenon DEF Move
  <2>6. TypeOK'
    BY <1>1, <1>2, <1>4, <2>4, KeptTypes, Zenon DEF TypeOK, TableTyped, Stop
  <2> QED BY <1>1, <2>3, <2>4, <2>5, <2>6, AssembleSchedule, Zenon
<1> QED BY <1>3, <1>4, Zenon DEF DeliverSignal

-----------------------------------------------------------------------------
\* SchedInv is inductive.
LEMMA NextInv == SchedInv /\ [Next]_vars => SchedInv'
<1> SUFFICES ASSUME SchedInv, [Next]_vars PROVE SchedInv'
  OBVIOUS
<1>1. CASE Schedule
  BY <1>1, ScheduleInv, Zenon
<1>2. ASSUME NEW t \in Pids, Calling(t) PROVE SchedInv'
  BY <1>2, CreateInv, ExecInv, ExitInv, Wait4Inv, SleepInv, SmallInv, Zenon DEF Calling
<1>3. ASSUME NEW t \in Pids, Resuming(t) PROVE SchedInv'
  BY <1>3, SleepInv, Wait4Inv, Zenon DEF Resuming
<1>g. Groups \subseteq SUBSET Pids
  BY Zenon DEF Groups
<1>4. ASSUME NEW t \in Pids, Killing(t) PROVE SchedInv'
  <2>1. ASSUME NEW G \in SUBSET Pids, NEW sig \in Signals, do_kill_group(t, G, sig) PROVE SchedInv'
    BY <2>1, LoopStartInv, Zenon DEF do_kill_group
  <2> QED BY <1>4, <1>g, <2>1, KillInv, ContinueGroupInv, DeliverInv, Zenon DEF Killing
<1>5. CASE Interrupt
  BY <1>5, <1>g, WakeupInv, LoopStartInv, Zenon DEF Interrupt
<1>6. CASE SignalNext \/ SignalDone
  BY <1>6, LoopInv, Zenon
<1>7. CASE UNCHANGED vars
  BY <1>7 DEF vars, schedVars, treeVars, noteVars, SchedInv, TypeOK, ReadyQueueExact,
              NothingFreedInUse, OnlyRunningRuns, Exists, Alive
<1> QED BY <1>1, <1>2, <1>3, <1>4, <1>5, <1>6, <1>7, Zenon DEF Next

\* The invariant holds in every behaviour of Spec.
LEMMA SchedInvSpec == Spec => []SchedInv
BY InitHolds, NextInv, PTL DEF Spec

\* Of the whole system, Spec is what happens as long as nothing signals the
\* thread it interrupts, or its caller, without switching away from it.
LEMMA NoneRunsOn == SpecAll /\ [][~RunsOn]_vars => Spec
<1>1. [NextAll]_vars /\ [~RunsOn]_vars => [Next]_vars
  BY Zenon DEF NextAll
<1> QED BY <1>1, PTL DEF SpecAll, Spec

\* The inductive invariant holds for any number of processes, any workload and
\* any signals, as long as no signal character comes over the serial console
\* (sys/tty/console.rs, serial_interrupt) and no program signals its own process
\* group: after either, a thread that was killed or stopped goes on executing.
THEOREM SchedInvAlways == SpecAll /\ [][~RunsOn]_vars => []SchedInv
BY NoneRunsOn, SchedInvSpec, PTL

\* Until then, READY_QUEUE holds exactly the Ready threads, each once
\* (sys/process/scheduler.rs, schedule_inner's comment).
THEOREM ReadyQueueAlwaysExact == SpecAll /\ [][~RunsOn]_vars => []ReadyQueueExact
<1>1. SchedInv => ReadyQueueExact
  BY Zenon DEF SchedInv
<1> QED BY <1>1, SchedInvAlways, PTL

\* Until then, the current thread's table entry, and the address space of every
\* thread that can still run, are never freed.
THEOREM NeverFreedInUse == SpecAll /\ [][~RunsOn]_vars => []NothingFreedInUse
<1>1. SchedInv => NothingFreedInUse
  BY Zenon DEF SchedInv
<1> QED BY <1>1, SchedInvAlways, PTL

\* Until then, user code only ever executes as the one Running thread: the two
\* steps of RunsOn are the only ones after which it does not.
THEOREM OnlyTheRunningThreadRuns == SpecAll /\ [][~RunsOn]_vars => []OnlyRunningRuns
<1>1. SchedInv => OnlyRunningRuns
  BY Zenon DEF SchedInv
<1> QED BY <1>1, SchedInvAlways, PTL
=============================================================================
