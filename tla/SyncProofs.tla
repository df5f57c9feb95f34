----------------------------- MODULE SyncProofs -----------------------------
(***************************************************************************)
(* The kernel's sleeping locks and its task queue.                         *)
(*                                                                         *)
(* The filesystem lock, for any number of processes and any depth: only a  *)
(* living holder is inside, nobody sleeps in enter while the lock is free, *)
(* and no deferred termination is forgotten.  The first two as long as the *)
(* keyboard does not kill the holder in the idle loop.                     *)
(*                                                                         *)
(* File locks, for any number of threads, processes and descriptions, and  *)
(* the task queue, for any number of tasks and drainers: an exclusive lock *)
(* excludes, no wakeup is lost, a closed description holds no lock, the    *)
(* intrusive list is sound, and drain waits long enough.                   *)
(***************************************************************************)
EXTENDS FsLock, Flock, Taskqueue, FiniteSetTheorems, TLAPS

-----------------------------------------------------------------------------
(* The filesystem lock.                                                    *)

FsCall ==
    {User, Fs, Dying, Disk}
    \cup [op : {"enter"}, depth : 0..MaxDepth, next : {Fs, Dying}]
    \cup [op : {"away"}, depth : 1..MaxDepth]

\* The threads in enter, awake or not.  A thread killed there leaves its count
\* behind, so waiters may exceed their number.
Entrants == {p \in Pids : Alive(p) /\ pc[p].op = "enter"}

FsTyped ==
    /\ FsTypeOK
    /\ state \in [Pids -> States] /\ pc \in [Pids -> FsCall] /\ queue \in [Pids -> Nat]
    /\ reaps \subseteq Pids \X ReapKinds
    /\ current \in Pids /\ cpu \in {"run", "schedule", "idle"}

\* What the scheduler needs: only the living are queued, the dead are reaped,
\* and the CPU executes a Running thread.  (A thread woken by the signal it
\* posts to itself on its way to sleep is queued twice; see Flock.)
FsScheduled ==
    /\ \A p \in Pids : queue[p] > 0 => Alive(p)
    /\ \A r \in reaps : ~Alive(r[1])
    /\ cpu = "run" => state[current] = "Running"

FsInv ==
    /\ FsTyped
    /\ FsScheduled
    /\ HolderAliveInside
    /\ owner = NoPid => depth = 0
    /\ Cardinality(Entrants) <= waiters
    /\ FreeMeansNoSleeper

-----------------------------------------------------------------------------
(* The pids, the values of pc, and counting the threads in enter.          *)

\* INIT is a pid and NoPid is none.
LEMMA FsPidFacts == INIT \in Pids /\ NoPid \notin Pids /\ IsFiniteSet(Pids)
<1>1. INIT \in Pids /\ NoPid \notin Pids
  BY SchedulerAssumption DEF Pids, INIT, NoPid
<1>2. IsFiniteSet(Pids)
  BY SchedulerAssumption, FS_Interval DEF Pids
<1> QED BY <1>1, <1>2, Zenon

\* The kinds of call, told apart by their op.
LEMMA CallKinds ==
    /\ User.op = "user" /\ Fs.op = "fs" /\ Dying.op = "dying" /\ Disk.op = "disk"
    /\ \A d, n : Entering(d, n).op = "enter"
    /\ \A d : Away(d).op = "away"
    /\ User \in FsCall /\ Fs \in FsCall /\ Dying \in FsCall /\ Disk \in FsCall
    /\ \A d \in 0..MaxDepth : \A n \in {Fs, Dying} : Entering(d, n) \in FsCall
    /\ \A d \in 1..MaxDepth : Away(d) \in FsCall
<1>1. User.op = "user" /\ Fs.op = "fs" /\ Dying.op = "dying" /\ Disk.op = "disk"
  BY Zenon DEF User, Fs, Dying, Disk
<1>2. (\A d, n : Entering(d, n).op = "enter") /\ (\A d : Away(d).op = "away")
  BY Zenon DEF Entering, Away
<1>3. User \in FsCall /\ Fs \in FsCall /\ Dying \in FsCall /\ Disk \in FsCall
  BY Zenon DEF FsCall
<1>4. \A d \in 0..MaxDepth : \A n \in {Fs, Dying} : Entering(d, n) \in FsCall
  BY Zenon DEF FsCall, Entering
<1>5. \A d \in 1..MaxDepth : Away(d) \in FsCall
  BY Zenon DEF FsCall, Away
<1> QED BY <1>1, <1>2, <1>3, <1>4, <1>5, Zenon

\* A call is known by its op, and what it carries is in range.
LEMMA CallFields ==
    ASSUME NEW c \in FsCall
    PROVE  /\ c.op = "fs" => c = Fs
           /\ c.op = "dying" => c = Dying
           /\ c.op = "disk" => c = Disk
           /\ c.op = "enter" => c.depth \in 0..MaxDepth /\ c.next \in {Fs, Dying}
           /\ c.op = "away" => c.depth \in 1..MaxDepth
<1>1. CASE c \in {User, Fs, Dying, Disk}
  BY <1>1 DEF User, Fs, Dying, Disk
<1>2. CASE c \in [op : {"enter"}, depth : 0..MaxDepth, next : {Fs, Dying}]
  BY <1>2, Zenon
<1>3. CASE c \in [op : {"away"}, depth : 1..MaxDepth]
  BY <1>3, Zenon
<1> QED BY <1>1, <1>2, <1>3, Zenon DEF FsCall

\* waiters counts enough when no thread joins the entrants, when one joins and
\* is counted, and when one that was counted leaves.
LEMMA Counting ==
    ASSUME waiters \in Nat, Cardinality(Entrants) <= waiters
    PROVE  /\ Entrants' \subseteq Entrants /\ waiters' = waiters
              => Cardinality(Entrants)' <= waiters'
           /\ \A p : Entrants' \subseteq Entrants \cup {p} /\ waiters' = waiters + 1
              => Cardinality(Entrants)' <= waiters'
           /\ \A p \in Entrants : Entrants' \subseteq Entrants \ {p} /\ waiters' = waiters - 1
              => waiters' \in Nat /\ Cardinality(Entrants)' <= waiters'
           /\ Entrants # {} => waiters > 0
<1>1. IsFiniteSet(Entrants)
  BY FsPidFacts, FS_Subset, Zenon DEF Entrants
<1>2. Cardinality(Entrants) \in Nat
  BY <1>1, FS_CardinalityType, Zenon
<1>3. ASSUME Entrants' \subseteq Entrants, waiters' = waiters
      PROVE  Cardinality(Entrants)' <= waiters'
  <2>1. Cardinality(Entrants') <= Cardinality(Entrants) /\ Cardinality(Entrants') \in Nat
    BY <1>1, <1>3, FS_Subset, FS_CardinalityType, Zenon
  <2> QED BY <2>1, <1>2, <1>3
<1>4. ASSUME NEW p, Entrants' \subseteq Entrants \cup {p}, waiters' = waiters + 1
      PROVE  Cardinality(Entrants)' <= waiters'
  <2>1. IsFiniteSet(Entrants \cup {p}) /\ Cardinality(Entrants \cup {p}) \in Nat
    BY <1>1, FS_AddElement, FS_CardinalityType, Zenon
  <2>2. Cardinality(Entrants \cup {p}) <= Cardinality(Entrants) + 1
    BY <1>1, <1>2, FS_AddElement
  <2>3. Cardinality(Entrants') <= Cardinality(Entrants \cup {p}) /\ Cardinality(Entrants') \in Nat
    BY <2>1, <1>4, FS_Subset, FS_CardinalityType, Zenon
  <2> QED BY <2>1, <2>2, <2>3, <1>2, <1>4
<1>5. ASSUME NEW p \in Entrants, Entrants' \subseteq Entrants \ {p}, waiters' = waiters - 1
      PROVE  waiters' \in Nat /\ Cardinality(Entrants)' <= waiters'
  <2>1. IsFiniteSet(Entrants \ {p}) /\ Cardinality(Entrants \ {p}) \in Nat
    BY <1>1, FS_RemoveElement, FS_CardinalityType, Zenon
  <2>2. Cardinality(Entrants \ {p}) = Cardinality(Entrants) - 1
    BY <1>1, FS_RemoveElement, Zenon
  <2>3. Cardinality(Entrants') <= Cardinality(Entrants \ {p}) /\ Cardinality(Entrants') \in Nat
    BY <2>1, <1>5, FS_Subset, FS_CardinalityType, Zenon
  <2> QED BY <2>1, <2>2, <2>3, <1>2, <1>5
<1>6. Entrants # {} => waiters > 0
  <2>1. Entrants # {} => Cardinality(Entrants) # 0
    BY <1>1, FS_EmptySet, Zenon
  <2> QED BY <2>1, <1>2
<1> QED BY <1>3, <1>4, <1>5, <1>6, Zenon

-----------------------------------------------------------------------------
(* The kinds of step.                                                      *)

\* The running thread is alive.
LEMMA RunningAlive ==
    ASSUME FsInv, cpu = "run"
    PROVE  current \in Pids /\ Alive(current) /\ state[current] = "Running"
<1>1. current \in Pids /\ state[current] = "Running"
  BY Zenon DEF FsInv, FsTyped, FsScheduled
<1> QED BY <1>1, Zenon DEF Alive

\* Steps that leave the lock and every pc alone, kill nobody and put nobody to
\* sleep: dispatching, waking, stopping, continuing and deferring a kill.
Quiet ==
    /\ UNCHANGED <<pc, owner, asleep, depth, waiters, posted>>
    /\ \A p \in Pids : Alive(p)' <=> Alive(p)
    /\ \A p \in Pids : state'[p] = "Blocked" => state[p] = "Blocked"

\* A quiet step keeps the invariant if it keeps the types and the scheduler's part.
LEMMA QuietInv ==
    ASSUME FsInv, Quiet, FsTyped', FsScheduled'
    PROVE  FsInv'
<1>1. HolderAliveInside'
  <2>1. \A t \in Pids : Alive(t)' /\ Inside(t)' => owner' = t
    BY Zenon DEF FsInv, HolderAliveInside, Quiet, Inside
  <2>2. owner' # NoPid => Alive(owner)' /\ Inside(owner)' /\ depth' > 0
    BY Zenon DEF FsInv, HolderAliveInside, Quiet, Inside, FsTyped, FsTypeOK
  <2>3. asleep' <=> owner' # NoPid /\ pc'[owner'] = Disk
    BY Zenon DEF FsInv, HolderAliveInside, Quiet
  <2> QED BY <2>1, <2>2, <2>3, Zenon DEF HolderAliveInside
<1>2. (owner = NoPid => depth = 0)'
  BY Zenon DEF FsInv, Quiet
<1>3. (Cardinality(Entrants) <= waiters)'
  <2>1. Entrants' \subseteq Entrants
    BY Zenon DEF Quiet, Entrants
  <2> QED BY <2>1, Counting, Zenon DEF Quiet, FsInv, FsTyped, FsTypeOK
<1>4. FreeMeansNoSleeper'
  BY Zenon DEF FsInv, FreeMeansNoSleeper, Quiet, Waiting
<1> QED BY <1>1, <1>2, <1>3, <1>4, Zenon DEF FsInv

\* Killing a thread that does not hold the lock.
Killed(p) ==
    /\ UNCHANGED <<pc, owner, asleep, depth, waiters, posted>>
    /\ ~Alive(p)'
    /\ \A q \in Pids \ {p} : state'[q] = state[q]

\* The invariant, when such a thread is killed.
LEMMA KilledInv ==
    ASSUME FsInv, NEW p \in Pids, p # owner, Killed(p), FsTyped', FsScheduled'
    PROVE  FsInv'
<1>0. \A q \in Pids : Alive(q)' => q # p /\ Alive(q)
  BY Zenon DEF Killed, Alive
<1>1. HolderAliveInside'
  <2>1. \A t \in Pids : Alive(t)' /\ Inside(t)' => owner' = t
    BY <1>0, Zenon DEF FsInv, HolderAliveInside, Killed, Inside
  <2>2. owner' # NoPid => Alive(owner)' /\ Inside(owner)' /\ depth' > 0
    BY Zenon DEF FsInv, HolderAliveInside, Killed, Inside, FsTyped, FsTypeOK, Alive
  <2>3. asleep' <=> owner' # NoPid /\ pc'[owner'] = Disk
    BY Zenon DEF FsInv, HolderAliveInside, Killed
  <2> QED BY <2>1, <2>2, <2>3, Zenon DEF HolderAliveInside
<1>2. (owner = NoPid => depth = 0)'
  BY Zenon DEF FsInv, Killed
<1>3. (Cardinality(Entrants) <= waiters)'
  <2>1. Entrants' \subseteq Entrants
    BY <1>0, Zenon DEF Killed, Entrants
  <2> QED BY <2>1, Counting, Zenon DEF Killed, FsInv, FsTyped, FsTypeOK
<1>4. FreeMeansNoSleeper'
  <2>1. \A q \in Pids : state'[q] = "Blocked" => state[q] = "Blocked"
    <3> SUFFICES ASSUME NEW q \in Pids, state'[q] = "Blocked" PROVE state[q] = "Blocked"
      OBVIOUS
    <3>1. Alive(q)'
      BY Zenon DEF Alive
    <3> QED BY <3>1, <1>0, Zenon DEF Killed
  <2> QED BY <2>1, Zenon DEF FsInv, FreeMeansNoSleeper, Killed, Waiting
<1> QED BY <1>1, <1>2, <1>3, <1>4, Zenon DEF FsInv

\* The running thread t takes the lock and goes on at next: as the last step of
\* enter, at once or after a sleep.
LEMMA TakenInv ==
    ASSUME FsInv, NEW t \in Pids, NEW next \in {Fs, Dying},
           Alive(t), pc[t].op # "disk", owner \in {NoPid, t},
           owner' = t, depth' \in 1..MaxDepth, pc' = [pc EXCEPT ![t] = next],
           \/ waiters' = waiters
           \/ pc[t].op = "enter" /\ waiters' = waiters - 1,
           UNCHANGED <<state, queue, cpu, space, reaps, current, asleep, deferred, posted>>
    PROVE  FsInv'
<1>1. /\ pc \in [Pids -> FsCall] /\ next \in FsCall
      /\ next.op \in {"fs", "dying"} /\ next # Disk
  BY CallKinds, Zenon DEF FsInv, FsTyped
<1>2. \A q \in Pids : pc'[q] = IF q = t THEN next ELSE pc[q]
  BY <1>1, Zenon
<1>3. \A q \in Pids : Alive(q)' <=> Alive(q)
  BY Zenon DEF Alive
<1>4. waiters' \in Nat /\ (Cardinality(Entrants) <= waiters)'
  <2>1. waiters \in Nat /\ Cardinality(Entrants) <= waiters
    BY Zenon DEF FsInv, FsTyped, FsTypeOK
  <2>2. Entrants' \subseteq Entrants \ {t}
    BY <1>1, <1>2, <1>3, CallKinds, Zenon DEF Entrants
  <2>3. CASE waiters' = waiters
    BY <2>1, <2>2, <2>3, Counting, Zenon
  <2>4. CASE pc[t].op = "enter" /\ waiters' = waiters - 1
    <3>1. t \in Entrants
      BY <2>4, Zenon DEF Entrants
    <3> QED BY <3>1, <2>1, <2>2, <2>4, Counting, Zenon
  <2> QED BY <2>3, <2>4, Zenon
<1>5. FsTyped'
  <2>1. pc' \in [Pids -> FsCall]
    BY <1>1, Zenon
  <2>2. depth' \in 0..MaxDepth
    BY FsLockAssumption
  <2> QED BY <1>4, <2>1, <2>2, Zenon DEF FsInv, FsTyped, FsTypeOK
<1>6. FsScheduled'
  BY <1>3, Zenon DEF FsInv, FsTyped, FsScheduled, Alive
<1>7. HolderAliveInside'
  <2>1. \A q \in Pids : Alive(q)' /\ Inside(q)' => owner' = q
    BY <1>2, <1>3, FsPidFacts, Zenon DEF FsInv, HolderAliveInside, Inside
  <2>2. Alive(owner)' /\ Inside(owner)' /\ depth' > 0
    <3>1. Alive(owner)' /\ Inside(owner)'
      BY <1>1, <1>2, <1>3, Zenon DEF Inside
    <3> QED BY <3>1, FsLockAssumption
  <2>3. asleep' = FALSE
    <3>1. asleep \in BOOLEAN
      BY Zenon DEF FsInv, FsTyped, FsTypeOK
    <3>2. ~asleep
      BY CallKinds, Zenon DEF FsInv, HolderAliveInside
    <3> QED BY <3>1, <3>2, Zenon
  <2> QED BY <2>1, <2>2, <2>3, <1>1, <1>2, Zenon DEF HolderAliveInside
<1>8. (owner = NoPid => depth = 0)' /\ FreeMeansNoSleeper'
  BY FsPidFacts, Zenon DEF FreeMeansNoSleeper
<1> QED BY <1>4, <1>5, <1>6, <1>7, <1>8, Zenon DEF FsInv

\* A living thread that does not hold the lock goes to sleep in enter, while
\* another holds it.
LEMMA SleptInv ==
    ASSUME FsInv, NEW t \in Pids, NEW call \in FsCall,
           Alive(t), call.op = "enter", owner \notin {NoPid, t}, Block(t, call),
           \/ waiters' = waiters + 1
           \/ pc[t].op = "enter" /\ waiters' = waiters,
           UNCHANGED <<space, reaps, current, owner, asleep, depth, deferred, posted>>
    PROVE  FsInv'
<1>1. pc \in [Pids -> FsCall] /\ state \in [Pids -> States] /\ owner \in Pids
  BY Zenon DEF FsInv, FsTyped, FsTypeOK
<1>2. \A q \in Pids : /\ pc'[q] = IF q = t THEN call ELSE pc[q]
                      /\ state'[q] = IF q = t THEN "Blocked" ELSE state[q]
  BY <1>1, Zenon DEF Block
<1>3. \A q \in Pids : Alive(q)' <=> Alive(q)
  BY <1>2, Zenon DEF Alive
<1>4. waiters' \in Nat /\ (Cardinality(Entrants) <= waiters)'
  <2>1. waiters \in Nat /\ Cardinality(Entrants) <= waiters
    BY Zenon DEF FsInv, FsTyped, FsTypeOK
  <2>2. CASE waiters' = waiters + 1
    <3>1. Entrants' \subseteq Entrants \cup {t}
      BY <1>2, <1>3, Zenon DEF Entrants
    <3>2. waiters' \in Nat
      BY <2>1, <2>2
    <3> QED BY <3>1, <3>2, <2>1, <2>2, Counting, Zenon
  <2>3. CASE pc[t].op = "enter" /\ waiters' = waiters
    <3>1. Entrants' \subseteq Entrants
      BY <2>3, <1>2, <1>3, Zenon DEF Entrants
    <3> QED BY <3>1, <2>1, <2>3, Counting, Zenon
  <2> QED BY <2>2, <2>3, Zenon
<1>5. FsTyped'
  <2>1. pc' \in [Pids -> FsCall]
    BY <1>1, Zenon DEF Block
  <2>2. state' \in [Pids -> States]
    BY <1>1, Zenon DEF Block, States
  <2>3. cpu' \in {"run", "schedule", "idle"} /\ queue' = queue
    BY Zenon DEF Block
  <2> QED BY <1>4, <2>1, <2>2, <2>3, Zenon DEF FsInv, FsTyped, FsTypeOK
<1>6. FsScheduled'
  <2>1. \A p \in Pids : queue'[p] > 0 => Alive(p)'
    BY <1>3, Zenon DEF FsInv, FsScheduled, Block
  <2>2. \A r \in reaps' : ~Alive(r[1])'
    BY <1>3, Zenon DEF FsInv, FsTyped, FsScheduled
  <2>3. cpu' # "run"
    BY Zenon DEF Block
  <2> QED BY <2>1, <2>2, <2>3, Zenon DEF FsScheduled
<1>7. HolderAliveInside'
  <2>1. \A q \in Pids : Alive(q)' /\ Inside(q)' => owner' = q
    <3> SUFFICES ASSUME NEW q \in Pids, Alive(q)', Inside(q)' PROVE owner' = q
      OBVIOUS
    <3>1. q # t
      BY <1>2, Zenon DEF Inside
    <3> QED BY <3>1, <1>2, <1>3, Zenon DEF FsInv, HolderAliveInside, Inside
  <2>2. owner' = owner /\ pc'[owner] = pc[owner] /\ (Alive(owner)' <=> Alive(owner))
    BY <1>1, <1>2, <1>3, Zenon
  <2>3. owner' # NoPid => Alive(owner)' /\ Inside(owner)' /\ depth' > 0
    BY <2>2, Zenon DEF FsInv, HolderAliveInside, Inside
  <2>4. asleep' <=> owner' # NoPid /\ pc'[owner'] = Disk
    BY <2>2, Zenon DEF FsInv, HolderAliveInside
  <2> QED BY <2>1, <2>3, <2>4, Zenon DEF HolderAliveInside
<1>8. (owner = NoPid => depth = 0)' /\ FreeMeansNoSleeper'
  BY Zenon DEF FreeMeansNoSleeper
<1> QED BY <1>4, <1>5, <1>6, <1>7, <1>8, Zenon DEF FsInv

\* The holder gives the lock up: it returns to user code, sleeps, or ends.
\* Everyone asleep in enter is woken or, if a kill was deferred, dies.
LEMMA ReleaseInv ==
    ASSUME FsInv, NEW t \in Pids, NEW self \in {"Running", "Blocked", "Zombie"},
           NEW woken \in SUBSET {t}, NEW call \in FsCall,
           Alive(t), pc[t].op \in {"fs", "dying"},
           Release(t, self, woken), pc' = [pc EXCEPT ![t] = call],
           call.op # "enter",
           self # "Zombie" => call.op \in {"user", "away"},
           self # "Blocked" => woken = {},
           IF self = "Running" THEN cpu' = cpu /\ (cpu = "run" => current = t)
                               ELSE cpu' = "schedule",
           reaps' = IF self = "Zombie" THEN reaps \cup {<<t, "TeardownOnly">>} ELSE reaps
    PROVE  FsInv'
<1> DEFINE D == {p \in run_deferred : p # t /\ Alive(p)}
           W == wake_waiters \cup woken
<1>1. /\ pc \in [Pids -> FsCall] /\ state \in [Pids -> States] /\ queue \in [Pids -> Nat]
      /\ deferred \subseteq Pids /\ posted \subseteq Pids /\ waiters \in Nat
      /\ reaps \subseteq Pids \X ReapKinds /\ current \in Pids
      /\ cpu \in {"run", "schedule", "idle"} /\ asleep \in BOOLEAN
  BY Zenon DEF FsInv, FsTyped, FsTypeOK
<1>2. /\ state' = [p \in Pids |-> IF p \in D THEN "Zombie"
                                  ELSE IF p \in W THEN "Ready"
                                  ELSE IF p = t THEN self ELSE state[p]]
      /\ queue' = [p \in Pids |-> IF p \in D \/ (p = t /\ self = "Zombie") THEN 0
                                  ELSE IF p \in W THEN queue[p] + 1 ELSE queue[p]]
      /\ owner' = NoPid /\ depth' = 0
      /\ deferred' = {} /\ posted' = posted \cup (deferred \cap {t})
      /\ UNCHANGED <<current, asleep, waiters>>
  BY Zenon DEF Release, remove_ready, run_deferred
<1>3. \A q \in Pids : pc'[q] = IF q = t THEN call ELSE pc[q]
  BY <1>1, Zenon
<1>4. /\ t \notin D
      /\ \A q \in W : q \in Pids /\ ((q = t /\ self = "Blocked") \/ (state[q] = "Blocked" /\ q # t))
  <2>1. t \notin D /\ \A q \in woken : q = t /\ self = "Blocked"
    BY Zenon
  <2>2. \A q \in wake_waiters : q \in Pids /\ state[q] = "Blocked" /\ pc[q].op = "enter"
    BY Zenon DEF wake_waiters, Waiting
  <2>3. t \notin wake_waiters
    BY <2>2, Zenon
  <2>4. ASSUME NEW q \in W
        PROVE  q \in Pids /\ ((q = t /\ self = "Blocked") \/ (state[q] = "Blocked" /\ q # t))
    <3>1. CASE q \in woken
      BY <3>1, <2>1, Zenon
    <3>2. CASE q \in wake_waiters
      BY <3>2, <2>2, <2>3, Zenon
    <3> QED BY <3>1, <3>2, Zenon
  <2> QED BY <2>1, <2>4, Zenon
<1>5. Waiting \subseteq W
  <2>1. Waiting \subseteq Entrants
    BY Zenon DEF Waiting, Entrants, Alive
  <2> QED BY <2>1, Counting, Zenon DEF wake_waiters, FsInv, FsTyped, FsTypeOK
<1> HIDE DEF D, W
<1>6. owner = t
  BY Zenon DEF FsInv, HolderAliveInside, Inside
<1>7. \A q \in Pids \ {t} : Alive(q)' => Alive(q) /\ q \notin D
  BY <1>2, <1>4, Zenon DEF Alive
<1>8. FsTyped'
  <2>1. state' \in [Pids -> States] /\ queue' \in [Pids -> Nat]
    BY <1>1, <1>2 DEF States
  <2>2. reaps' \subseteq Pids \X ReapKinds
    BY <1>1 DEF ReapKinds
  <2>3. pc' \in [Pids -> FsCall]
    BY <1>1, Zenon
  <2>4. depth' \in 0..MaxDepth
    BY <1>2, FsLockAssumption
  <2>5. cpu' \in {"run", "schedule", "idle"}
    BY <1>1, Zenon
  <2>6. deferred' \subseteq Pids /\ posted' \subseteq Pids
    BY <1>1, <1>2, Zenon
  <2> QED BY <1>1, <1>2, <2>1, <2>2, <2>3, <2>4, <2>5, <2>6, Zenon DEF FsTyped, FsTypeOK
<1>9. FsScheduled'
  <2>1. \A p \in Pids : queue'[p] > 0 => Alive(p)'
    BY <1>1, <1>2, <1>4 DEF FsInv, FsScheduled, Alive
  <2>2. \A r \in reaps' : ~Alive(r[1])'
    <3> SUFFICES ASSUME NEW r \in reaps' PROVE ~Alive(r[1])'
      OBVIOUS
    <3>1. CASE r \in reaps
      <4>1. ~Alive(r[1]) /\ r[1] \in Pids
        BY <3>1, <1>1, Zenon DEF FsInv, FsScheduled
      <4> QED BY <4>1, <1>7, Zenon
    <3>2. CASE r = <<t, "TeardownOnly">> /\ self = "Zombie"
      <4>1. r[1] = t /\ t \notin W
        BY <3>2, <1>4, Zenon
      <4> QED BY <4>1, <3>2, <1>2, <1>4, Zenon DEF Alive
    <3> QED BY <3>1, <3>2, Zenon
  <2>3. cpu' = "run" => state'[current'] = "Running"
    <3> SUFFICES ASSUME cpu' = "run" PROVE state'[current'] = "Running"
      OBVIOUS
    <3>1. self = "Running"
      OBVIOUS
    <3>2. current' = t /\ t \notin W
      BY <3>1, <1>2, <1>4, Zenon
    <3> QED BY <3>1, <3>2, <1>2, <1>4, Zenon
  <2> QED BY <2>1, <2>2, <2>3, Zenon DEF FsScheduled
<1>10. HolderAliveInside'
  <2>1. \A q \in Pids : ~(Alive(q)' /\ Inside(q)')
    <3> SUFFICES ASSUME NEW q \in Pids, Alive(q)', Inside(q)' PROVE FALSE
      OBVIOUS
    <3>1. CASE q # t
      BY <3>1, <1>3, <1>6, <1>7, Zenon DEF FsInv, HolderAliveInside, Inside
    <3>2. CASE q = t
      <4>1. self = "Zombie"
        BY <3>2, <1>3, Zenon DEF Inside
      <4>2. t \notin W
        BY <4>1, <1>4, Zenon
      <4> QED BY <3>2, <4>1, <4>2, <1>2, <1>4, Zenon DEF Alive
    <3> QED BY <3>1, <3>2, Zenon
  <2>2. ~asleep'
    <3>1. pc[t] # Disk
      BY CallKinds, Zenon
    <3> QED BY <3>1, <1>2, <1>6, Zenon DEF FsInv, HolderAliveInside
  <2> QED BY <2>1, <2>2, <1>2, Zenon DEF HolderAliveInside
<1>11. (Cardinality(Entrants) <= waiters)'
  <2>1. Entrants' \subseteq Entrants
    BY <1>3, <1>7, Zenon DEF Entrants
  <2> QED BY <2>1, <1>1, <1>2, Counting, Zenon DEF FsInv
<1>12. FreeMeansNoSleeper'
  <2>1. \A q \in Pids : ~(state'[q] = "Blocked" /\ pc'[q].op = "enter")
    <3> SUFFICES ASSUME NEW q \in Pids, state'[q] = "Blocked", pc'[q].op = "enter" PROVE FALSE
      OBVIOUS
    <3>1. q # t /\ pc[q].op = "enter"
      BY <1>3, Zenon
    <3>2. q \notin W /\ state[q] = "Blocked"
      BY <3>1, <1>2, Zenon
    <3> QED BY <3>1, <3>2, <1>5, Zenon DEF Waiting
  <2> QED BY <2>1, Zenon DEF FreeMeansNoSleeper, Waiting
<1> QED BY <1>2, <1>8, <1>9, <1>10, <1>11, <1>12, Zenon DEF FsInv

-----------------------------------------------------------------------------
(* The actions, one by one.                                                *)

\* What a table update by Move keeps: only the woken and the stopped may come
\* to life, and only the living were in a state they can be woken from.
LEMMA MoveSound ==
    ASSUME FsInv, NEW R \in SUBSET Pids, NEW Z \in SUBSET Pids, NEW S \in SUBSET Pids,
           Move(R, Z, S, {}), \A p \in R \cup S : Alive(p)
    PROVE  /\ state' \in [Pids -> States] /\ queue' \in [Pids -> Nat]
           /\ \A p \in Pids : Alive(p)' <=> Alive(p) /\ p \notin Z
           /\ \A p \in Pids : p \notin R \cup Z \cup S => state'[p] = state[p]
           /\ \A p \in Pids : state'[p] = "Blocked" => state[p] = "Blocked"
           /\ \A p \in Pids : queue'[p] > 0 => Alive(p)'
<1>1. state \in [Pids -> States] /\ queue \in [Pids -> Nat]
  BY Zenon DEF FsInv, FsTyped
<1>2. \A p \in Pids : queue[p] > 0 => Alive(p)
  BY Zenon DEF FsInv, FsScheduled
<1>3. state' \in [Pids -> States] /\ queue' \in [Pids -> Nat]
  BY <1>1 DEF Move, States, remove_ready
<1>4. \A p \in Pids : Alive(p)' <=> Alive(p) /\ p \notin Z
  BY <1>1, Zenon DEF Move, Alive
<1>5. \A p \in Pids : p \notin R \cup Z \cup S => state'[p] = state[p]
  BY Zenon DEF Move
<1>6. \A p \in Pids : state'[p] = "Blocked" => state[p] = "Blocked"
  BY <1>1, Zenon DEF Move
<1>7. \A p \in Pids : queue'[p] > 0 => Alive(p)'
  BY <1>1, <1>2, <1>4 DEF Move, remove_ready
<1> QED BY <1>3, <1>4, <1>5, <1>6, <1>7, Zenon

\* Waking, stopping and continuing threads that are not running.
LEMMA MoveQuiet ==
    ASSUME FsInv, NEW R \in SUBSET Pids, NEW S \in SUBSET Pids,
           Move(R, {}, S, {}), \A p \in R \cup S : Alive(p) /\ state[p] # "Running",
           UNCHANGED <<pc, space, reaps, current, cpu, lockVars>>
    PROVE  FsInv'
<1>1. /\ state' \in [Pids -> States] /\ queue' \in [Pids -> Nat]
      /\ \A p \in Pids : Alive(p)' <=> Alive(p)
      /\ \A p \in Pids : p \notin R \cup S => state'[p] = state[p]
      /\ \A p \in Pids : state'[p] = "Blocked" => state[p] = "Blocked"
      /\ \A p \in Pids : queue'[p] > 0 => Alive(p)'
  <2>1. /\ state' \in [Pids -> States] /\ queue' \in [Pids -> Nat]
        /\ \A p \in Pids : Alive(p)' <=> Alive(p) /\ p \notin {}
        /\ \A p \in Pids : p \notin R \cup {} \cup S => state'[p] = state[p]
        /\ \A p \in Pids : state'[p] = "Blocked" => state[p] = "Blocked"
        /\ \A p \in Pids : queue'[p] > 0 => Alive(p)'
    BY MoveSound, Zenon
  <2> QED BY <2>1, Zenon
<1>2. Quiet
  BY <1>1, Zenon DEF Quiet, lockVars
<1>3. FsTyped'
  BY <1>1, Zenon DEF FsInv, FsTyped, FsTypeOK, lockVars
<1>4. FsScheduled'
  <2>1. \A r \in reaps' : ~Alive(r[1])'
    BY <1>1, Zenon DEF FsInv, FsTyped, FsScheduled
  <2>2. cpu' = "run" => state'[current'] = "Running"
    BY <1>1, Zenon DEF FsInv, FsTyped, FsScheduled
  <2> QED BY <1>1, <2>1, <2>2, Zenon DEF FsScheduled
<1> QED BY <1>2, <1>3, <1>4, QuietInv, Zenon

\* The interrupts that wake, and the signals that stop and continue.
LEMMA WakingInv ==
    ASSUME FsInv, NEW p \in Pids,
           wake_disk_waiters \/ WakeAway(p) \/ StopProcess(p) \/ ContinueProcess(p)
    PROVE  FsInv'
<1>1. CASE wake_disk_waiters
  <2> DEFINE W == {q \in Pids : state[q] = "Blocked" /\ pc[q] = Disk}
  <2>1. Move(W, {}, {}, {}) /\ UNCHANGED <<pc, space, reaps, current, cpu, lockVars>>
    BY <1>1, Zenon DEF wake_disk_waiters
  <2>2. \A q \in W : Alive(q) /\ state[q] # "Running"
    BY Zenon DEF Alive
  <2> QED BY <2>1, <2>2, MoveQuiet
<1>2. CASE WakeAway(p)
  <2>1. Move({p}, {}, {}, {}) /\ UNCHANGED <<pc, space, reaps, current, cpu, lockVars>>
    BY <1>2, Zenon DEF WakeAway, enqueue_ready
  <2>2. Alive(p) /\ state[p] # "Running"
    BY <1>2, Zenon DEF WakeAway, Alive
  <2> QED BY <2>1, <2>2, MoveQuiet
<1>3. CASE StopProcess(p)
  <2>1. Move({}, {}, {p}, {}) /\ UNCHANGED <<pc, space, reaps, current, cpu, lockVars>>
    BY <1>3, Zenon DEF StopProcess
  <2>2. Alive(p) /\ state[p] # "Running"
    BY <1>3, Zenon DEF StopProcess
  <2> QED BY <2>1, <2>2, MoveQuiet
<1>4. CASE ContinueProcess(p)
  <2>1. Move({p}, {}, {}, {}) /\ UNCHANGED <<pc, space, reaps, current, cpu, lockVars>>
    BY <1>4, Zenon DEF ContinueProcess
  <2>2. Alive(p) /\ state[p] # "Running"
    BY <1>4, Zenon DEF ContinueProcess, Alive
  <2> QED BY <2>1, <2>2, MoveQuiet
<1> QED BY <1>1, <1>2, <1>3, <1>4, Zenon

\* The scheduler and the timer's quantum.
LEMMA SchedulingInv ==
    ASSUME FsInv, Schedule \/ \E t \in Pids : Preempt(t)
    PROVE  FsInv'
<1>0. /\ state \in [Pids -> States] /\ queue \in [Pids -> Nat] /\ current \in Pids
      /\ reaps \subseteq Pids \X ReapKinds
      /\ \A p \in Pids : queue[p] > 0 => Alive(p)
      /\ \A r \in reaps : ~Alive(r[1])
  BY Zenon DEF FsInv, FsTyped, FsScheduled
<1>1. CASE schedule_inner /\ UNCHANGED lockVars
  <2>1. /\ \A p \in Pids : state'[p] = IF <<p, "RemoveEntry">> \in reap_pending_threads THEN "Absent"
                                     ELSE IF p = current /\ state[p] \in {"Ready", "Running"} THEN "Ready"
                                     ELSE state[p]
        /\ \A p \in Pids : queue'[p] = IF p = current /\ state[p] \in {"Ready", "Running"}
                                     THEN queue[p] + 1 ELSE queue[p]
        /\ state' \in [Pids -> States] /\ queue' \in [Pids -> Nat]
    BY <1>0, <1>1 DEF schedule_inner, States, reap_pending_threads
  <2>2. \A p : <<p, "RemoveEntry">> \in reap_pending_threads => ~Alive(p)
    BY <1>0, Zenon DEF reap_pending_threads
  <2>3. reaps' \subseteq reaps /\ cpu' = "idle" /\ UNCHANGED <<pc, current, lockVars>>
    BY <1>1, Zenon DEF schedule_inner
  <2>4. \A p : state[p] \in {"Ready", "Running"} => Alive(p)
    BY Zenon DEF Alive
  <2>5. \A p \in Pids : Alive(p)' <=> Alive(p)
    BY <2>1, <2>2, Zenon DEF Alive
  <2>6. \A p \in Pids : state'[p] = "Blocked" => state[p] = "Blocked"
    BY <2>1, Zenon
  <2>7. \A p \in Pids : queue'[p] > 0 => Alive(p)'
    <3>1. \A p \in Pids : queue'[p] > 0 => queue[p] > 0 \/ Alive(p)
      BY <1>0, <2>1, <2>4
    <3> QED BY <1>0, <3>1, <2>5, Zenon
  <2>8. FsTyped'
    BY <1>0, <2>1, <2>3, Zenon DEF FsInv, FsTyped, FsTypeOK, lockVars
  <2>9. FsScheduled'
    <3>1. \A r \in reaps' : ~Alive(r[1])'
      BY <1>0, <2>3, <2>5, Zenon
    <3>2. cpu' # "run"
      BY <2>3, Zenon
    <3> QED BY <3>1, <3>2, <2>7, Zenon DEF FsScheduled
  <2>10. Quiet
    BY <2>3, <2>5, <2>6, Zenon DEF Quiet, lockVars
  <2> QED BY <2>8, <2>9, <2>10, QuietInv, Zenon
<1>2. ASSUME NEW n \in Pids, Dispatch(n), UNCHANGED lockVars
      PROVE  FsInv'
  <2>1. /\ state' = [state EXCEPT ![n] = "Running"] /\ queue' = [queue EXCEPT ![n] = @ - 1]
        /\ current' = n /\ cpu' = "run" /\ UNCHANGED <<pc, space, reaps, lockVars>>
        /\ queue[n] > 0
    BY <1>2, Zenon DEF Dispatch
  <2>2. state' \in [Pids -> States] /\ queue' \in [Pids -> Nat]
    BY <1>0, <2>1 DEF States
  <2>3. \A p \in Pids : Alive(p)' <=> Alive(p)
    BY <1>0, <2>1, Zenon DEF Alive
  <2>4. \A p \in Pids : state'[p] = "Blocked" => state[p] = "Blocked"
    BY <1>0, <2>1, Zenon
  <2>5. \A p \in Pids : queue'[p] > 0 => queue[p] > 0
    BY <1>0, <2>1, Zenon
  <2>6. FsTyped'
    BY <2>1, <2>2, Zenon DEF FsInv, FsTyped, FsTypeOK, lockVars
  <2>7. state'[current'] = "Running"
    BY <1>0, <2>1, Zenon
  <2>8. FsScheduled'
    BY <1>0, <2>1, <2>3, <2>5, <2>7, Zenon DEF FsScheduled
  <2>9. Quiet
    BY <2>1, <2>3, <2>4, Zenon DEF Quiet, lockVars
  <2> QED BY <2>6, <2>8, <2>9, QuietInv, Zenon
<1>3. ASSUME NEW t \in Pids, Preempt(t)
      PROVE  FsInv'
  <2>1. cpu' = "schedule" /\ UNCHANGED <<state, pc, space, queue, reaps, current, lockVars>>
    BY <1>3, Zenon DEF Preempt
  <2>2. \A p : Alive(p)' <=> Alive(p)
    BY <2>1, Zenon DEF Alive
  <2>3. FsTyped'
    BY <2>1, Zenon DEF FsInv, FsTyped, FsTypeOK, lockVars
  <2>4. cpu' # "run"
    BY <2>1, Zenon
  <2>5. FsScheduled'
    BY <1>0, <2>1, <2>2, <2>4, Zenon DEF FsScheduled
  <2>6. Quiet
    BY <2>1, <2>2, Zenon DEF Quiet, lockVars
  <2> QED BY <2>3, <2>5, <2>6, QuietInv, Zenon
<1> QED BY <1>1, <1>2, <1>3, Zenon DEF Schedule

\* One pass of enter's loop by the running thread.
LEMMA EnterInv ==
    ASSUME FsInv, NEW t \in Pids, NEW d \in 0..MaxDepth, NEW next \in {Fs, Dying},
           Alive(t), pc[t].op # "disk", owner = t => d = 0 /\ depth < MaxDepth,
           Enter(t, d, next)
    PROVE  FsInv'
<1>1. CASE owner \in {NoPid, t}
  <2>1. /\ owner' = t /\ depth' = depth_taken(d) /\ pc' = [pc EXCEPT ![t] = next]
        /\ UNCHANGED <<state, queue, cpu, waiters, space, reaps, current, asleep, deferred, posted>>
    BY <1>1, Zenon DEF Enter
  <2>2. depth' \in 1..MaxDepth
    <3>1. depth \in 0..MaxDepth /\ (owner = NoPid => depth = 0)
      BY Zenon DEF FsInv, FsTyped, FsTypeOK
    <3> QED BY <1>1, <2>1, <3>1, FsLockAssumption DEF depth_taken
  <2> QED BY <1>1, <2>1, <2>2, TakenInv, Zenon
<1>2. CASE owner \notin {NoPid, t}
  <2>1. /\ waiters' = waiters + 1 /\ Block(t, Entering(d, next))
        /\ UNCHANGED <<space, reaps, current, owner, depth, asleep, deferred, posted>>
    BY <1>2, Zenon DEF Enter
  <2>2. Entering(d, next) \in FsCall /\ Entering(d, next).op = "enter"
    BY CallKinds, Zenon
  <2> QED BY <1>2, <2>1, <2>2, SleptInv, Zenon
<1> QED BY <1>1, <1>2, Zenon

\* Entering the filesystem, from user code and from inside it.
LEMMA EnteringInv ==
    ASSUME FsInv, NEW t \in Pids,
           enter(t) \/ do_exit(t) \/ reenter(t) \/ reacquire(t) \/ ResumeEnter(t)
    PROVE  FsInv'
<1>1. cpu = "run" /\ current = t
  BY Zenon DEF enter, do_exit, reenter, reacquire, ResumeEnter, InUser, Executing
<1>2. Alive(t)
  BY <1>1, RunningAlive, Zenon
<1>3. pc[t] \in FsCall
  BY Zenon DEF FsInv, FsTyped
<1>4. 0 \in 0..MaxDepth
  BY FsLockAssumption
<1>5. owner = t => pc[t].op \in {"fs", "dying", "disk"}
  BY FsPidFacts, Zenon DEF FsInv, HolderAliveInside, Inside
<1>6. CASE enter(t) \/ do_exit(t)
  <2>1. PICK next \in {Fs, Dying} : Enter(t, 0, next)
    BY <1>6, Zenon DEF enter, do_exit
  <2>2. pc[t].op = "user"
    BY <1>6, CallKinds, Zenon DEF enter, do_exit, InUser
  <2>3. owner # t /\ pc[t].op # "disk"
    BY <2>2, <1>5, Zenon
  <2> QED BY <1>2, <1>4, <2>1, <2>3, EnterInv, Zenon
<1>7. CASE reenter(t)
  <2>1. Enter(t, 0, Fs) /\ depth < MaxDepth /\ pc[t].op = "fs"
    BY <1>7, Zenon DEF reenter, Executing
  <2>2. pc[t].op # "disk"
    BY <2>1, Zenon
  <2> QED BY <1>2, <1>4, <2>1, <2>2, EnterInv, Zenon
<1>8. CASE reacquire(t)
  <2>1. Enter(t, pc[t].depth, Fs) /\ pc[t].op = "away"
    BY <1>8, Zenon DEF reacquire, Executing
  <2>2. pc[t].depth \in 0..MaxDepth
    BY <1>3, <2>1, CallFields
  <2>3. owner # t /\ pc[t].op # "disk"
    BY <2>1, <1>5, Zenon
  <2> QED BY <1>2, <2>1, <2>2, <2>3, EnterInv, Zenon
<1>9. CASE ResumeEnter(t)
  <2>1. pc[t].op = "enter"
    BY <1>9, Zenon DEF ResumeEnter, Executing
  <2>2. pc[t].depth \in 0..MaxDepth /\ pc[t].next \in {Fs, Dying}
    BY <1>3, <2>1, CallFields, Zenon
  <2>3. owner # t /\ pc[t].op # "disk"
    BY <2>1, <1>5, Zenon
  <2>4. CASE owner \in {NoPid, t}
    <3>1. /\ owner' = t /\ depth' = depth_taken(pc[t].depth) /\ waiters' = waiters - 1
          /\ pc' = [pc EXCEPT ![t] = pc[t].next]
          /\ UNCHANGED <<state, queue, cpu, space, reaps, current, asleep, deferred, posted>>
      BY <1>9, <2>4, Zenon DEF ResumeEnter
    <3>2. depth' \in 1..MaxDepth
      <4>1. depth = 0
        BY <2>3, <2>4, Zenon DEF FsInv
      <4> QED BY <2>2, <3>1, <4>1, FsLockAssumption DEF depth_taken
    <3> QED BY <1>2, <2>1, <2>2, <2>3, <2>4, <3>1, <3>2, TakenInv, Zenon
  <2>5. CASE owner \notin {NoPid, t}
    <3>1. /\ Block(t, pc[t])
          /\ UNCHANGED <<owner, depth, waiters, space, reaps, current, asleep, deferred, posted>>
      BY <1>9, <2>5, Zenon DEF ResumeEnter
    <3> QED BY <1>2, <1>3, <2>1, <2>5, <3>1, SleptInv, Zenon
  <2> QED BY <2>4, <2>5, Zenon
<1> QED BY <1>6, <1>7, <1>8, <1>9, Zenon

\* Leaving it, for good, for a sleep or at the end of the process.
LEMMA LeavingInv ==
    ASSUME FsInv, NEW t \in Pids,
           exit(t) \/ exit_dying(t) \/ release_for_sleep(t)
    PROVE  FsInv'
<1>1. cpu = "run" /\ current = t /\ pc[t].op \in {"fs", "dying"}
  BY Zenon DEF exit, exit_dying, release_for_sleep, Executing
<1>2. Alive(t)
  BY <1>1, RunningAlive, Zenon
<1>3. pc \in [Pids -> FsCall] /\ depth \in 0..MaxDepth
  BY Zenon DEF FsInv, FsTyped, FsTypeOK
<1>4. depth > 0
  <2>1. owner = t
    BY <1>1, <1>2, Zenon DEF FsInv, HolderAliveInside, Inside
  <2> QED BY <2>1, FsPidFacts, Zenon DEF FsInv, HolderAliveInside
<1>5. CASE exit(t) /\ depth > 1
  <2>1. /\ depth' = depth - 1
        /\ UNCHANGED <<schedVars, owner, asleep, waiters, deferred, posted>>
    BY <1>3, <1>5 DEF exit
  <2>2. depth' \in 0..MaxDepth /\ depth' > 0
    BY <1>3, <1>5, <2>1, FsLockAssumption
  <2>3. \A p : Alive(p)' <=> Alive(p)
    BY <2>1, Zenon DEF schedVars, Alive
  <2>4. owner = t
    BY <1>1, <1>2, Zenon DEF FsInv, HolderAliveInside, Inside
  <2>5. FsTyped'
    BY <2>1, <2>2, Zenon DEF FsInv, FsTyped, FsTypeOK, schedVars
  <2>6. FsScheduled'
    BY <2>1, <2>3, Zenon DEF FsInv, FsScheduled, schedVars
  <2>7. HolderAliveInside'
    BY <2>1, <2>2, <2>3, Zenon DEF FsInv, HolderAliveInside, Inside, schedVars
  <2>8. (Cardinality(Entrants) <= waiters)'
    <3>1. Entrants' = Entrants
      BY <2>1, <2>3, Zenon DEF Entrants, schedVars
    <3> QED BY <2>1, <3>1, Zenon DEF FsInv
  <2>9. (owner = NoPid => depth = 0)' /\ FreeMeansNoSleeper'
    BY <2>1, <2>4, FsPidFacts, Zenon DEF FreeMeansNoSleeper
  <2> QED BY <2>5, <2>6, <2>7, <2>8, <2>9, Zenon DEF FsInv
<1>6. CASE exit(t) /\ ~(depth > 1)
  <2>1. /\ Release(t, "Running", {}) /\ pc' = [pc EXCEPT ![t] = User]
        /\ UNCHANGED <<reaps, cpu>>
    BY <1>6, Zenon DEF exit, Return
  <2>2. User \in FsCall /\ User.op = "user"
    BY CallKinds, Zenon
  <2> QED BY <1>1, <1>2, <2>1, <2>2, ReleaseInv, Zenon
<1>7. CASE exit_dying(t)
  <2>1. /\ Release(t, "Zombie", {}) /\ reaps' = reaps \cup {<<t, "TeardownOnly">>}
        /\ cpu' = "schedule" /\ pc' = pc
    BY <1>7, Zenon DEF exit_dying
  <2>2. pc' = [pc EXCEPT ![t] = pc[t]] /\ pc[t] \in FsCall
    BY <1>3, <2>1, Zenon
  <2> QED BY <1>1, <1>2, <2>1, <2>2, ReleaseInv, Zenon
<1>8. CASE release_for_sleep(t)
  <2>1. /\ Release(t, "Blocked", run_deferred \cap {t})
        /\ pc' = [pc EXCEPT ![t] = Away(depth)] /\ cpu' = "schedule" /\ reaps' = reaps
    BY <1>8, Zenon DEF release_for_sleep
  <2>2. Away(depth) \in FsCall /\ Away(depth).op = "away"
    <3>1. depth \in 1..MaxDepth
      BY <1>3, <1>4, FsLockAssumption
    <3> QED BY <3>1, CallKinds, Zenon
  <2>3. run_deferred \cap {t} \in SUBSET {t}
    BY Zenon
  <2> QED BY <1>1, <1>2, <2>1, <2>2, <2>3, ReleaseInv, Zenon
<1> QED BY <1>5, <1>6, <1>7, <1>8, Zenon

\* Waiting for the disk with the lock held.
LEMMA DiskInv ==
    ASSUME FsInv, NEW t \in Pids, wait_for_disk(t) \/ DiskDone(t) \/ DiskAgain(t)
    PROVE  FsInv'
<1>1. cpu = "run" /\ current = t /\ pc[t].op \in {"fs", "disk"}
  BY Zenon DEF wait_for_disk, DiskDone, DiskAgain, Executing
<1>2. Alive(t) /\ state[t] = "Running"
  BY <1>1, RunningAlive, Zenon
<1>3. owner = t
  BY <1>1, <1>2, Zenon DEF FsInv, HolderAliveInside, Inside
<1>4. pc \in [Pids -> FsCall] /\ state \in [Pids -> States] /\ asleep \in BOOLEAN
  BY Zenon DEF FsInv, FsTyped, FsTypeOK
<1>5. PICK call \in {Fs, Disk} :
        /\ pc' = [pc EXCEPT ![t] = call]
        /\ asleep' = (call = Disk)
        /\ \/ state' = [state EXCEPT ![t] = "Blocked"] /\ cpu' = "schedule"
           \/ UNCHANGED <<state, cpu>>
        /\ UNCHANGED <<queue, space, reaps, current, owner, depth, waiters, deferred, posted>>
  <2>1. CASE wait_for_disk(t)
    BY <2>1, Zenon DEF wait_for_disk, Block
  <2>2. CASE DiskDone(t)
    <3>1. Fs # Disk
      BY CallKinds, Zenon
    <3> QED BY <3>1, <2>2, Zenon DEF DiskDone
  <2>3. CASE DiskAgain(t)
    <3>1. pc[t] = Disk
      BY <2>3, <1>4, CallFields, Zenon DEF DiskAgain, Executing
    <3>2. asleep' = TRUE
      BY <2>3, <3>1, <1>3, <1>4, FsPidFacts, Zenon DEF DiskAgain, lockVars, FsInv, HolderAliveInside
    <3> QED BY <3>2, <2>3, Zenon DEF DiskAgain, Block, lockVars
  <2> QED BY <2>1, <2>2, <2>3, Zenon
<1>6. \A q \in Pids : /\ pc'[q] = IF q = t THEN call ELSE pc[q]
                      /\ q # t => state'[q] = state[q]
  BY <1>4, <1>5, Zenon
<1>7. state' \in [Pids -> States] /\ cpu' \in {"run", "schedule", "idle"}
  BY <1>1, <1>4, <1>5, Zenon DEF States
<1>8. \A q \in Pids : Alive(q)' <=> Alive(q)
  <2>1. Alive(t)'
    BY <1>2, <1>4, <1>5, Zenon DEF Alive
  <2> QED BY <2>1, <1>2, <1>6, Zenon DEF Alive
<1>9. FsTyped'
  <2>1. pc' \in [Pids -> FsCall]
    BY <1>4, <1>5, CallKinds, Zenon
  <2>2. asleep' \in BOOLEAN
    BY <1>5, Zenon
  <2> QED BY <1>5, <1>7, <2>1, <2>2, Zenon DEF FsInv, FsTyped, FsTypeOK
<1>10. FsScheduled'
  <2>1. \A r \in reaps' : ~Alive(r[1])'
    BY <1>5, <1>8, Zenon DEF FsInv, FsTyped, FsScheduled
  <2>2. cpu' = "run" => state'[current'] = "Running"
    BY <1>1, <1>2, <1>5, Zenon
  <2> QED BY <2>1, <2>2, <1>5, <1>8, Zenon DEF FsInv, FsScheduled
<1>11. HolderAliveInside'
  <2>1. \A q \in Pids : Alive(q)' /\ Inside(q)' => owner' = q
    BY <1>3, <1>5, <1>6, <1>8, Zenon DEF FsInv, HolderAliveInside, Inside
  <2>2. Alive(owner)' /\ Inside(owner)' /\ depth' > 0
    BY <1>2, <1>3, <1>5, <1>6, <1>8, CallKinds, FsPidFacts, Zenon DEF FsInv, HolderAliveInside, Inside
  <2>3. asleep' <=> owner' # NoPid /\ pc'[owner'] = Disk
    BY <1>3, <1>5, <1>6, FsPidFacts, Zenon
  <2> QED BY <2>1, <2>2, <2>3, Zenon DEF HolderAliveInside
<1>12. (Cardinality(Entrants) <= waiters)'
  <2>1. call.op # "enter"
    BY CallKinds, Zenon
  <2>2. Entrants' \subseteq Entrants
    BY <2>1, <1>6, <1>8, Zenon DEF Entrants
  <2> QED BY <2>2, <1>5, Counting, Zenon DEF FsInv, FsTyped, FsTypeOK
<1>13. (owner = NoPid => depth = 0)' /\ FreeMeansNoSleeper'
  BY <1>3, <1>5, FsPidFacts, Zenon DEF FreeMeansNoSleeper
<1> QED BY <1>9, <1>10, <1>11, <1>12, <1>13, Zenon DEF FsInv

\* A kill, carried out on a process that does not hold the lock: at once, when
\* the lock is released, or by the process itself once it gets the lock.
LEMMA KillingInv ==
    ASSUME FsInv, HolderKills = FALSE, NEW p \in Pids,
           terminate_other(p) \/ terminate_idle(p)
    PROVE  FsInv'
<1>1. /\ state \in [Pids -> States] /\ reaps \subseteq Pids \X ReapKinds /\ current \in Pids
      /\ deferred \subseteq Pids
      /\ \A r \in reaps : ~Alive(r[1])
      /\ cpu = "run" => state[current] = "Running"
      /\ \A q \in Pids : queue[q] > 0 => Alive(q)
  BY Zenon DEF FsInv, FsTyped, FsTypeOK, FsScheduled
<1>2. CASE terminate_other(p) /\ busy
  <2>1. /\ deferred' = deferred \cup {p}
        /\ UNCHANGED <<state, queue, space, pc, reaps, current, cpu, owner, asleep, depth, waiters, posted>>
    BY <1>2, Zenon DEF terminate_other
  <2>2. \A q : Alive(q)' <=> Alive(q)
    BY <2>1, Zenon DEF Alive
  <2>3. FsTyped'
    BY <2>1, Zenon DEF FsInv, FsTyped, FsTypeOK
  <2>4. FsScheduled'
    BY <2>1, <2>2, Zenon DEF FsInv, FsScheduled
  <2>5. Quiet
    BY <2>1, <2>2, Zenon DEF Quiet
  <2> QED BY <2>3, <2>4, <2>5, QuietInv, Zenon
<1>3. ASSUME Move({}, {p}, {}, {}), Alive(p), owner # p,
             reaps' \in {reaps, reaps \cup {<<p, "TeardownOnly">>}},
             cpu = "run" => p # current,
             UNCHANGED <<pc, current, cpu, owner, asleep, depth, waiters, deferred, posted>>
      PROVE  FsInv'
  <2>1. /\ state' \in [Pids -> States] /\ queue' \in [Pids -> Nat]
        /\ \A q \in Pids : Alive(q)' <=> Alive(q) /\ q \notin {p}
        /\ \A q \in Pids : q \notin {} \cup {p} \cup {} => state'[q] = state[q]
        /\ \A q \in Pids : queue'[q] > 0 => Alive(q)'
    <3> DEFINE none == {}
               Z == {p}
    <3>1. Move(none, Z, none, {}) /\ none \in SUBSET Pids /\ Z \in SUBSET Pids
      BY <1>3, Zenon
    <3>2. \A q \in none \cup none : Alive(q)
      OBVIOUS
    <3> HIDE DEF none, Z
    <3>3. /\ state' \in [Pids -> States] /\ queue' \in [Pids -> Nat]
          /\ \A q \in Pids : Alive(q)' <=> Alive(q) /\ q \notin Z
          /\ \A q \in Pids : q \notin none \cup Z \cup none => state'[q] = state[q]
          /\ \A q \in Pids : queue'[q] > 0 => Alive(q)'
      BY <3>1, <3>2, MoveSound, Zenon
    <3> QED BY <3>3, Zenon DEF none, Z
  <2>2. Killed(p)
    BY <1>3, <2>1, Zenon DEF Killed
  <2>3. reaps' \subseteq Pids \X ReapKinds
    BY <1>1, <1>3 DEF ReapKinds
  <2>4. FsTyped'
    BY <1>3, <2>1, <2>3, Zenon DEF FsInv, FsTyped, FsTypeOK
  <2>5. \A r \in reaps' : ~Alive(r[1])'
    <3> SUFFICES ASSUME NEW r \in reaps' PROVE ~Alive(r[1])'
      OBVIOUS
    <3>1. r \in reaps \/ r[1] = p
      BY <1>3
    <3> QED BY <3>1, <1>1, <2>1, Zenon
  <2>6. cpu' = "run" => state'[current'] = "Running"
    BY <1>1, <1>3, <2>1, Zenon
  <2>7. FsScheduled'
    BY <2>1, <2>5, <2>6, Zenon DEF FsScheduled
  <2> QED BY <1>3, <2>2, <2>4, <2>7, KilledInv, Zenon
<1>4. CASE terminate_other(p) /\ ~busy
  <2>1. /\ Move({}, {p}, {}, {}) /\ Alive(p) /\ p # current
        /\ UNCHANGED <<pc, reaps, current, cpu, owner, asleep, depth, waiters, deferred, posted>>
    BY <1>4, Zenon DEF terminate_other
  <2>2. owner # p
    BY <1>4, <2>1, FsPidFacts, Zenon DEF busy
  <2> QED BY <1>3, <2>1, <2>2, Zenon
<1>5. CASE terminate_idle(p)
  <2>1. /\ owner # p /\ Alive(p) /\ cpu = "idle" /\ p = current
        /\ UNCHANGED <<space, current, owner, asleep, depth, deferred, posted>>
    BY <1>5, Zenon DEF terminate_idle
  <2>2. CASE owner \in {NoPid, p}
    <3>1. /\ Move({}, {p}, {}, {}) /\ reaps' = reaps \cup {<<p, "TeardownOnly">>}
          /\ UNCHANGED <<pc, cpu, waiters>>
      BY <1>5, <2>2, Zenon DEF terminate_idle
    <3>2. cpu # "run"
      BY <2>1, Zenon
    <3> QED BY <1>3, <2>1, <3>1, <3>2, Zenon
  <2>3. CASE owner \notin {NoPid, p}
    <3>1. Block(p, Entering(0, Dying)) /\ waiters' = waiters + 1 /\ reaps' = reaps
      BY <1>5, <2>3, Zenon DEF terminate_idle
    <3>2. 0 \in 0..MaxDepth
      BY FsLockAssumption
    <3>3. Entering(0, Dying) \in FsCall /\ Entering(0, Dying).op = "enter"
      BY <3>2, CallKinds, Zenon
    <3> QED BY <2>1, <2>3, <3>1, <3>3, SleptInv, Zenon
  <2> QED BY <2>2, <2>3, Zenon
<1> QED BY <1>2, <1>4, <1>5, Zenon

-----------------------------------------------------------------------------
(* The theorems.                                                           *)

\* At boot the lock is free and nobody is inside.
LEMMA FsInitInv == FsInit => FsInv
<1> SUFFICES ASSUME FsInit PROVE FsInv
  OBVIOUS
<1>1. \A p \in Pids : pc[p] = User /\ Alive(p) /\ state[p] \in {"Running", "Ready"}
  BY Zenon DEF FsInit, Alive
<1>2. FsTyped
  <2>1. state \in [Pids -> States] /\ queue \in [Pids -> Nat] /\ depth \in 0..MaxDepth /\ waiters \in Nat
    BY FsLockAssumption DEF FsInit, States
  <2>2. pc \in [Pids -> FsCall]
    BY CallKinds, Zenon DEF FsInit
  <2>3. /\ owner \in Pids \cup {NoPid} /\ asleep \in BOOLEAN /\ deferred \subseteq Pids
        /\ posted \subseteq Pids /\ reaps \subseteq Pids \X ReapKinds /\ current \in Pids
        /\ cpu \in {"run", "schedule", "idle"}
    BY FsPidFacts, Zenon DEF FsInit
  <2> QED BY <2>1, <2>2, <2>3, Zenon DEF FsTyped, FsTypeOK
<1>3. FsScheduled
  <2>1. state[current] = "Running" /\ reaps = {}
    BY FsPidFacts, Zenon DEF FsInit
  <2> QED BY <1>1, <2>1, Zenon DEF FsScheduled
<1>4. \A p \in Pids : ~Inside(p) /\ pc[p].op # "enter"
  BY <1>1, CallKinds, Zenon DEF Inside
<1>5. HolderAliveInside /\ FreeMeansNoSleeper /\ (owner = NoPid => depth = 0)
  BY <1>1, <1>4, Zenon DEF HolderAliveInside, FreeMeansNoSleeper, Waiting, FsInit
<1>6. Entrants = {} /\ waiters = 0
  BY <1>4, Zenon DEF Entrants, FsInit
<1>7. Cardinality(Entrants) <= waiters
  BY <1>6, FS_EmptySet
<1> QED BY <1>2, <1>3, <1>5, <1>7, Zenon DEF FsInv

\* Every step keeps the invariant, if none kills the holder in the idle loop.
LEMMA FsNextInv == HolderKills = FALSE /\ FsInv /\ [FsNext]_fsVars => FsInv'
<1> SUFFICES ASSUME HolderKills = FALSE, FsInv, [FsNext]_fsVars PROVE FsInv'
  BY Zenon
<1>1. CASE Schedule
  BY <1>1, SchedulingInv, Zenon
<1>2. ASSUME NEW t \in Pids, Locking(t) \/ Sleeping(t) \/ Resuming(t) \/ Preempt(t) \/ WakeAway(t)
      PROVE  FsInv'
  BY <1>2, EnteringInv, LeavingInv, DiskInv, SchedulingInv, WakingInv, Zenon
     DEF Locking, Sleeping, Resuming
<1>3. CASE wake_disk_waiters
  BY <1>3, WakingInv, FsPidFacts, Zenon
<1>4. CASE Signalling
  BY <1>4, KillingInv, WakingInv, Zenon DEF Signalling
<1>5. CASE UNCHANGED fsVars
  <2>1. UNCHANGED <<state, pc, queue, reaps, current, cpu, owner, asleep, depth, waiters, deferred, posted>>
    BY <1>5, Zenon DEF fsVars, schedVars, lockVars
  <2>2. \A p : Alive(p)' <=> Alive(p)
    BY <2>1, Zenon DEF Alive
  <2>3. FsTyped' /\ FsScheduled'
    BY <2>1, <2>2, Zenon DEF FsInv, FsTyped, FsTypeOK, FsScheduled
  <2>4. Quiet
    BY <2>1, <2>2, Zenon DEF Quiet
  <2> QED BY <2>3, <2>4, QuietInv, Zenon
<1> QED BY <1>1, <1>2, <1>3, <1>4, <1>5, Zenon DEF FsNext

\* FsInv, the inductive invariant of the lock, always holds.
THEOREM FsLockSound == HolderKills = FALSE /\ FsSpec => []FsInv
<1> SUFFICES ASSUME HolderKills = FALSE PROVE FsSpec => []FsInv
  BY Zenon
<1>1. FsInv /\ [FsNext]_fsVars => FsInv'
  BY FsNextInv, Zenon
<1> QED BY <1>1, FsInitInv, PTL DEF FsSpec

\* Only the holder is inside the filesystem, the holder lives, and it is
\* marked asleep exactly while it waits for the disk.
THEOREM HolderAlwaysInside == HolderKills = FALSE /\ FsSpec => []HolderAliveInside
<1>1. FsInv => HolderAliveInside
  BY Zenon DEF FsInv
<1> QED BY <1>1, FsLockSound, PTL

\* Nobody is left asleep in enter once the lock is free.
THEOREM EnterNotLost == HolderKills = FALSE /\ FsSpec => []FreeMeansNoSleeper
<1>1. FsInv => FreeMeansNoSleeper
  BY Zenon DEF FsInv
<1> QED BY <1>1, FsLockSound, PTL

\* Whatever is killed, a termination deferred to the holder is never left
\* behind when the lock is released.
THEOREM DeferredNeverForgotten == FsSpec => []DeferredHasHolder
<1>1. FsInit => DeferredHasHolder
  BY Zenon DEF FsInit, DeferredHasHolder
<1>2. DeferredHasHolder /\ [FsNext]_fsVars => DeferredHasHolder'
  <2> SUFFICES ASSUME DeferredHasHolder, [FsNext]_fsVars PROVE DeferredHasHolder'
    OBVIOUS
  <2>1. \A t, self, woken : Release(t, self, woken) => deferred' = {}
    BY Zenon DEF Release, run_deferred
  <2>2. \A t \in Pids : \A d, next : Enter(t, d, next) => deferred' = deferred /\ owner' \in {owner, t}
    BY Zenon DEF Enter
  <2>3. CASE Schedule \/ wake_disk_waiters \/ UNCHANGED fsVars
    BY <2>3, Zenon DEF Schedule, wake_disk_waiters, fsVars, lockVars, DeferredHasHolder
  <2>4. ASSUME NEW t \in Pids, Locking(t) \/ reacquire(t) \/ ResumeEnter(t) \/ release_for_sleep(t)
        PROVE  DeferredHasHolder'
    <3>1. deferred' = {} \/ (deferred' = deferred /\ owner' \in {owner, t})
      BY <2>1, <2>2, <2>4, Zenon DEF Locking, enter, do_exit, reenter, exit, exit_dying, reacquire,
         ResumeEnter, release_for_sleep
    <3> QED BY <3>1, FsPidFacts, Zenon DEF DeferredHasHolder
  <2>5. ASSUME NEW t \in Pids, wait_for_disk(t) \/ DiskDone(t) \/ DiskAgain(t) \/ Preempt(t) \/ WakeAway(t)
        PROVE  DeferredHasHolder'
    BY <2>5, Zenon DEF wait_for_disk, DiskDone, DiskAgain, Preempt, WakeAway, lockVars, DeferredHasHolder
  <2>6. CASE Signalling
    <3>1. PICK p \in Pids : terminate_other(p) \/ terminate_idle(p) \/ StopProcess(p) \/ ContinueProcess(p)
      BY <2>6, Zenon DEF Signalling
    <3>2. owner' = owner /\ (deferred' = deferred \/ busy)
      BY <3>1, Zenon DEF terminate_other, terminate_idle, StopProcess, ContinueProcess, lockVars
    <3> QED BY <3>2, Zenon DEF DeferredHasHolder, busy
  <2> QED BY <2>3, <2>4, <2>5, <2>6, Zenon DEF FsNext, Sleeping, Resuming
<1> QED BY <1>1, <1>2, PTL DEF FsSpec

-----------------------------------------------------------------------------
(* File locks.                                                             *)

\* Where a thread of this model can be.
FlockCall == {User, Flock("SH"), Flock("EX")}

\* The inductive invariant: types, exclusion and no lost wakeup.
FlockInv ==
    /\ state \in [Pids -> States]
    /\ pc \in [Pids -> FlockCall]
    /\ locks \in [Handles -> Kinds]
    /\ FlockExclusive
    /\ FlockNotLost

\* Records of calls: what a call in FlockCall says.
LEMMA CallFacts ==
    /\ User.op # "flock"
    /\ \A how : Flock(how).op = "flock" /\ Flock(how).how = how
    /\ \A c \in FlockCall : c.op = "flock" => c.how \in {"SH", "EX"}
BY DEF User, Flock, FlockCall

\* wake_waiters: the threads in W become Ready, and no other changes its state.
LEMMA WakeFacts ==
    ASSUME NEW W \in SUBSET Pids, wake_flock_waiters(W), state \in [Pids -> States]
    PROVE  /\ state' \in [Pids -> States]
           /\ \A p \in Pids : state'[p] = IF p \in W THEN "Ready" ELSE state[p]
BY DEF wake_flock_waiters, Move, States

LEMMA HandleType ==
    ASSUME NEW t \in Pids PROVE Handle(t) \in Handles /\ ProcOf[t] \in Pids
BY FlockAssumption DEF Handle

\* A lock that is dropped leaves exclusion as it is.
LEMMA DropKeepsExclusive ==
    ASSUME locks \in [Handles -> Kinds], FlockExclusive, NEW h \in Handles,
           locks' = [locks EXCEPT ![h] = "none"]
    PROVE  locks' \in [Handles -> Kinds] /\ FlockExclusive'
BY DEF Kinds, FlockExclusive

\* A lock that is granted conflicts with none, so it keeps exclusion.
LEMMA GrantKeepsExclusive ==
    ASSUME locks \in [Handles -> Kinds], FlockExclusive, NEW h \in Handles,
           NEW how \in {"SH", "EX"}, ~conflicts(h, how),
           locks' = [locks EXCEPT ![h] = how]
    PROVE  locks' \in [Handles -> Kinds] /\ FlockExclusive'
BY DEF Kinds, FlockExclusive, conflicts

\* The waiters after a step that wakes the threads in W and ends the call of t.
LEMMA WaitersAfterReturn ==
    ASSUME FlockInv, NEW t \in Pids, NEW W \in SUBSET Pids, wake_flock_waiters(W), Return(t)
    PROVE  /\ pc' \in [Pids -> FlockCall]
           /\ \A u \in Waiters' : u \in Waiters /\ u \notin W /\ pc'[u] = pc[u]
<1>1. pc' \in [Pids -> FlockCall] /\ pc'[t] = User /\ \A u \in Pids \ {t} : pc'[u] = pc[u]
  BY DEF FlockInv, Return, FlockCall
<1>2. \A p \in Pids : state'[p] = IF p \in W THEN "Ready" ELSE state[p]
  BY WakeFacts, Zenon DEF FlockInv
<1>3. ASSUME NEW u \in Waiters'
      PROVE  u \in Waiters /\ u \notin W /\ pc'[u] = pc[u]
  <2>1. u \in Pids /\ state'[u] = "Blocked" /\ pc'[u].op = "flock"
    BY <1>3 DEF Waiters
  <2>2. u # t
    BY <2>1, <1>1, CallFacts
  <2>3. QED
    BY <2>1, <2>2, <1>1, <1>2 DEF Waiters
<1>4. QED
  BY <1>1, <1>3, Zenon

\* A step that wakes every waiter leaves none asleep, whatever the locks are.
LEMMA AllWoken ==
    ASSUME FlockInv, NEW t \in Pids, wake_flock_waiters(Waiters), Return(t)
    PROVE  FlockNotLost'
<1>1. Waiters \in SUBSET Pids
  BY DEF Waiters
<1>2. Waiters' = {}
  BY <1>1, WaitersAfterReturn, Zenon
<1>3. QED
  BY <1>2, Zenon DEF FlockNotLost

\* A step that leaves the locks alone, and puts nobody to sleep.
LEMMA SameLocks ==
    ASSUME FlockInv, locks' = locks, \A u \in Waiters' : u \in Waiters /\ pc'[u] = pc[u]
    PROVE  FlockNotLost' /\ FlockExclusive' /\ locks' \in [Handles -> Kinds]
<1>1. \A g \in Handles : \A how : conflicts(g, how)' <=> conflicts(g, how)
  BY DEF conflicts
<1>2. \A u \in Pids : Handle(u)' = Handle(u) /\ Handle(u) \in Handles
  BY HandleType DEF Handle
<1>3. FlockNotLost'
  BY <1>1, <1>2 DEF FlockInv, FlockNotLost, Waiters
<1>4. QED
  BY <1>3 DEF FlockInv, FlockExclusive

\* LOCK_UN: every waiter looks again.
LEMMA UnlockInv ==
    ASSUME FlockInv, NEW t \in Pids, Unlock(t)
    PROVE  FlockInv'
<1>1. /\ locks' = [locks EXCEPT ![Handle(t)] = "none"]
      /\ wake_flock_waiters(Waiters) /\ Return(t)
  BY DEF Unlock, Done
<1>2. Waiters \in SUBSET Pids /\ Handle(t) \in Handles
  BY HandleType DEF Waiters
<1>3. locks' \in [Handles -> Kinds] /\ FlockExclusive'
  BY <1>1, <1>2, DropKeepsExclusive, Zenon DEF FlockInv
<1>4. FlockNotLost'
  BY <1>1, AllWoken, Zenon
<1>5. state' \in [Pids -> States] /\ pc' \in [Pids -> FlockCall]
  BY <1>1, <1>2, WakeFacts, WaitersAfterReturn, Zenon DEF FlockInv
<1>6. QED
  BY <1>3, <1>4, <1>5, Zenon DEF FlockInv

\* A grant: a downgrade wakes the waiters, and anything else only makes the lock
\* stronger.
LEMMA GrantInv ==
    ASSUME FlockInv, NEW t \in Pids, NEW how \in {"SH", "EX"}, Grant(t, how)
    PROVE  FlockInv'
<1> DEFINE W == IF downgrade(Handle(t), how) THEN Waiters ELSE {}
<1>1. /\ ~conflicts(Handle(t), how)
      /\ locks' = [locks EXCEPT ![Handle(t)] = how]
      /\ wake_flock_waiters(W) /\ Return(t)
  BY DEF Grant, Done
<1>2. W \in SUBSET Pids /\ Handle(t) \in Handles
  BY HandleType DEF Waiters
<1>3. locks' \in [Handles -> Kinds] /\ FlockExclusive'
  BY <1>1, <1>2, GrantKeepsExclusive, Zenon DEF FlockInv
<1>4. FlockNotLost'
  <2>1. CASE downgrade(Handle(t), how)
    BY <1>1, <2>1, AllWoken, Zenon
  <2>2. CASE ~downgrade(Handle(t), how)
    <3> SUFFICES ASSUME NEW u \in Waiters'
                 PROVE  conflicts(Handle(u), pc[u].how)' 
      BY DEF FlockNotLost
    <3> HIDE DEF W
    <3>1. u \in Waiters /\ pc'[u] = pc[u]
      BY <1>1, <1>2, WaitersAfterReturn, Zenon
    <3>2. u \in Pids /\ Handle(u) \in Handles /\ pc[u] \in FlockCall /\ pc[u].op = "flock"
      BY <3>1, HandleType DEF Waiters, FlockInv
    <3>3. pc[u].how \in {"SH", "EX"}
      BY <3>2, CallFacts, Zenon
    <3>4. conflicts(Handle(u), pc[u].how)
      BY <3>1, Zenon DEF FlockInv, FlockNotLost
    <3> DEFINE g == Handle(u)
               k == pc[u].how
    <3>5. g \in Handles /\ k \in {"SH", "EX"} /\ conflicts(g, k)
      BY <3>2, <3>3, <3>4, Zenon
    <3> HIDE DEF g, k
    <3>6. \E i \in Handles \ {g} : locks'[i] = "EX" \/ (k = "EX" /\ locks'[i] = "SH")
      BY <3>5, <1>1, <1>2, <2>2 DEF FlockInv, Kinds, conflicts, downgrade
    <3>7. QED
      BY <3>6, <3>1 DEF conflicts, g, k, Handle
  <2>3. QED
    BY <2>1, <2>2
<1>5. state' \in [Pids -> States] /\ pc' \in [Pids -> FlockCall]
  <2> HIDE DEF W
  <2>1. QED
    BY <1>1, <1>2, WakeFacts, WaitersAfterReturn, Zenon DEF FlockInv
<1>6. QED
  BY <1>3, <1>4, <1>5, Zenon DEF FlockInv

\* LOCK_NB: a lock that is given up wakes the waiters; with none, nothing changes.
LEMMA WouldBlockInv ==
    ASSUME FlockInv, NEW t \in Pids, NEW how, WouldBlock(t, how)
    PROVE  FlockInv'
<1> DEFINE W == IF locks[Handle(t)] # "none" THEN Waiters ELSE {}
<1>1. /\ locks' = [locks EXCEPT ![Handle(t)] = "none"]
      /\ wake_flock_waiters(W) /\ Return(t)
  BY DEF WouldBlock, GiveUp, Done
<1>2. W \in SUBSET Pids /\ Handle(t) \in Handles
  BY HandleType DEF Waiters
<1>3. locks' \in [Handles -> Kinds] /\ FlockExclusive'
  BY <1>1, <1>2, DropKeepsExclusive, Zenon DEF FlockInv
<1>4. FlockNotLost'
  <2>1. CASE locks[Handle(t)] # "none"
    BY <1>1, <2>1, AllWoken, Zenon
  <2>2. CASE locks[Handle(t)] = "none"
    <3>1. locks' = locks
      BY <1>1, <1>2, <2>2 DEF FlockInv
    <3> HIDE DEF W
    <3>2. \A u \in Waiters' : u \in Waiters /\ pc'[u] = pc[u]
      BY <1>1, <1>2, WaitersAfterReturn, Zenon
    <3>3. QED
      BY <3>1, <3>2, SameLocks, Zenon
  <2>3. QED
    BY <2>1, <2>2
<1>5. state' \in [Pids -> States] /\ pc' \in [Pids -> FlockCall]
  <2> HIDE DEF W
  <2>1. QED
    BY <1>1, <1>2, WakeFacts, WaitersAfterReturn, Zenon DEF FlockInv
<1>6. QED
  BY <1>3, <1>4, <1>5, Zenon DEF FlockInv

\* A wait: the caller that gave a lock up wakes everyone, itself too; one that
\* had none sleeps behind the conflict it has just found.
LEMMA WaitInv ==
    ASSUME FlockInv, NEW t \in Pids, NEW how \in {"SH", "EX"}, Wait(t, how)
    PROVE  FlockInv'
<1> DEFINE W == IF locks[Handle(t)] # "none" THEN Waiters \cup {t} ELSE {}
<1>1. /\ conflicts(Handle(t), how)
      /\ locks' = [locks EXCEPT ![Handle(t)] = "none"]
      /\ state' = [p \in Pids |-> IF p \in W THEN "Ready"
                                 ELSE IF p = t THEN "Blocked" ELSE state[p]]
      /\ pc' = [pc EXCEPT ![t] = Flock(how)]
  BY DEF Wait, GiveUp
<1>2. Handle(t) \in Handles
  BY HandleType
<1>3. locks' \in [Handles -> Kinds] /\ FlockExclusive'
  BY <1>1, <1>2, DropKeepsExclusive, Zenon DEF FlockInv
<1>4. state' \in [Pids -> States]
  BY <1>1 DEF FlockInv, States
<1>5. /\ pc' \in [Pids -> FlockCall] /\ pc'[t] = Flock(how)
      /\ \A u \in Pids \ {t} : pc'[u] = pc[u]
  BY <1>1 DEF FlockInv, FlockCall
<1>6. FlockNotLost'
  <2>1. CASE locks[Handle(t)] # "none"
    <3>1. \A u \in Pids : state'[u] = "Blocked" => u # t /\ u \notin Waiters /\ state[u] = "Blocked"
      BY <1>1, <2>1
    <3>2. Waiters' = {}
      BY <3>1, <1>5 DEF Waiters
    <3>3. QED
      BY <3>2, Zenon DEF FlockNotLost
  <2>2. CASE locks[Handle(t)] = "none"
    <3>1. locks' = locks
      BY <1>1, <1>2, <2>2 DEF FlockInv
    <3> SUFFICES ASSUME NEW u \in Waiters'
                 PROVE  conflicts(Handle(u), pc[u].how)' 
      BY DEF FlockNotLost
    <3>2. u \in Pids /\ state'[u] = "Blocked" /\ pc'[u].op = "flock"
      BY DEF Waiters
    <3>3. conflicts(Handle(u), pc'[u].how)
      <4>1. CASE u = t
        BY <4>1, <1>1, <1>5, CallFacts, Zenon
      <4>2. CASE u # t
        <5>1. state[u] = "Blocked" /\ pc'[u] = pc[u]
          BY <4>2, <3>2, <1>1, <1>5, <2>2
        <5>2. QED
          BY <5>1, <3>2 DEF FlockInv, FlockNotLost, Waiters
      <4>3. QED
        BY <4>1, <4>2
    <3>4. QED
      BY <3>3, <3>1 DEF conflicts, Handle
  <2>3. QED
    BY <2>1, <2>2
<1>7. QED
  BY <1>3, <1>4, <1>5, <1>6, Zenon DEF FlockInv

\* release_all for a closed descriptor: the locks change only if every waiter is
\* woken; Z are the threads that die with it.
LEMMA CloseInv ==
    ASSUME FlockInv, NEW q \in Pids, NEW Z \in SUBSET Pids,
           locks' = Closed(q), Move(ClosedWakes(q), Z, {}, {}), pc' = pc
    PROVE  FlockInv'
<1>1. HandleOf[q] \in Handles
  BY FlockAssumption
<1>2. locks' = locks \/ locks' = [locks EXCEPT ![HandleOf[q]] = "none"]
  BY DEF Closed
<1>3. locks' \in [Handles -> Kinds] /\ FlockExclusive'
  <2>1. CASE locks' = locks
    BY <2>1 DEF FlockInv, FlockExclusive
  <2>2. CASE locks' = [locks EXCEPT ![HandleOf[q]] = "none"]
    BY <2>2, <1>1, DropKeepsExclusive, Zenon DEF FlockInv
  <2>3. QED
    BY <1>2, <2>1, <2>2, Zenon
<1>4. /\ state' \in [Pids -> States]
      /\ \A p \in Pids : state'[p] = "Blocked" => state[p] = "Blocked" /\ p \notin ClosedWakes(q)
  BY DEF FlockInv, Move, States
<1>5. FlockNotLost'
  <2>1. CASE locks' = locks
    <3>1. \A u \in Waiters' : u \in Waiters /\ pc'[u] = pc[u]
      BY <1>4 DEF Waiters
    <3>2. QED
      BY <2>1, <3>1, SameLocks, Zenon
  <2>2. CASE locks' # locks
    <3>1. ClosedWakes(q) = Waiters
      BY <2>2, Zenon DEF ClosedWakes
    <3>2. Waiters' = {}
      BY <3>1, <1>4 DEF Waiters
    <3>3. QED
      BY <3>2, Zenon DEF FlockNotLost
  <2>3. QED
    BY <2>1, <2>2
<1>6. QED
  BY <1>3, <1>4, <1>5, Zenon DEF FlockInv

\* schedule_inner and Dispatch put nobody to sleep.
LEMMA FlockScheduleInv ==
    ASSUME FlockInv, FlockSchedule
    PROVE  FlockInv'
<1>1. pc' = pc /\ locks' = locks
  BY DEF FlockSchedule, flockVars, schedule_inner, Dispatch
<1>2. /\ state' \in [Pids -> States]
      /\ \A p \in Pids : state'[p] = "Blocked" => state[p] = "Blocked"
  <2>1. CASE schedule_inner
    BY <2>1 DEF FlockInv, schedule_inner, States
  <2>2. CASE \E n \in Pids : Dispatch(n)
    BY <2>2 DEF FlockInv, Dispatch, States
  <2>3. QED
    BY <2>1, <2>2 DEF FlockSchedule
<1>3. \A u \in Waiters' : u \in Waiters /\ pc'[u] = pc[u]
  BY <1>1, <1>2 DEF Waiters
<1>4. FlockNotLost' /\ FlockExclusive' /\ locks' \in [Handles -> Kinds]
  BY <1>1, <1>3, SameLocks, Zenon
<1>5. QED
  BY <1>1, <1>2, <1>4 DEF FlockInv

\* flock: one pass of the loop, from the call or after a sleep.
LEMMA FlockPassInv ==
    ASSUME FlockInv, NEW t \in Pids,
           ResumeFlock(t) \/ \E how \in {"SH", "EX", "UN"}, nb \in BOOLEAN : flock(t, how, nb)
    PROVE  FlockInv'
<1>1. CASE \E how \in {"SH", "EX", "UN"}, nb \in BOOLEAN : flock(t, how, nb)
  <2>1. PICK how \in {"SH", "EX", "UN"}, nb \in BOOLEAN : flock(t, how, nb)
    BY <1>1, Zenon
  <2>2. \/ Unlock(t)
        \/ how \in {"SH", "EX"} /\ (Grant(t, how) \/ WouldBlock(t, how) \/ Wait(t, how))
    BY <2>1 DEF flock
  <2>3. QED
    BY <2>2, UnlockInv, GrantInv, WouldBlockInv, WaitInv, Zenon
<1>2. CASE ResumeFlock(t)
  <2>1. pc[t] \in FlockCall /\ pc[t].op = "flock"
    BY <1>2 DEF ResumeFlock, FlockInv
  <2>2. pc[t].how \in {"SH", "EX"}
    BY <2>1, CallFacts, Zenon
  <2>3. CASE Done(t) /\ UNCHANGED <<state, queue, locks>>
    <3>1. pc' = [pc EXCEPT ![t] = User] /\ state' = state /\ locks' = locks
      BY <2>3 DEF Done, Return
    <3>2. pc' \in [Pids -> FlockCall]
      BY <3>1 DEF FlockInv, FlockCall
    <3>3. \A u \in Waiters' : u \in Waiters /\ pc'[u] = pc[u]
      BY <3>1, CallFacts DEF Waiters, FlockInv
    <3>4. QED
      BY <3>1, <3>2, <3>3, SameLocks DEF FlockInv
  <2>4. CASE Grant(t, pc[t].how)
    BY <2>4, <2>2, GrantInv, Zenon
  <2>5. CASE Wait(t, pc[t].how)
    BY <2>5, <2>2, WaitInv, Zenon
  <2>6. QED
    BY <1>2, <2>3, <2>4, <2>5, Zenon DEF ResumeFlock
<1>3. QED
  BY <1>1, <1>2, Zenon

\* Every step keeps the invariant.
LEMMA FlockStep ==
    ASSUME FlockInv, [FlockNext]_allVars
    PROVE  FlockInv'
<1>1. CASE FlockSchedule
  BY <1>1, FlockScheduleInv, Zenon
<1>2. ASSUME NEW t \in Pids,
             ResumeFlock(t) \/ \E how \in {"SH", "EX", "UN"}, nb \in BOOLEAN : flock(t, how, nb)
      PROVE  FlockInv'
  BY <1>2, FlockPassInv, Zenon
<1>3. ASSUME NEW t \in Pids, close_one(t) PROVE FlockInv'
  <2>1. /\ locks' = Closed(ProcOf[t]) /\ pc' = pc
        /\ Move(ClosedWakes(ProcOf[t]), {}, {}, {}) /\ {} \in SUBSET Pids
    BY <1>3 DEF close_one, wake_flock_waiters
  <2>2. QED
    BY <2>1, HandleType, CloseInv, Zenon
<1>4. ASSUME NEW q \in Pids, terminate_thread_group(q) PROVE FlockInv'
  <2>1. /\ locks' = Closed(q) /\ pc' = pc
        /\ Move(ClosedWakes(q), ThreadsOf(q), {}, {}) /\ ThreadsOf(q) \in SUBSET Pids
    BY <1>4 DEF terminate_thread_group, ThreadsOf
  <2>2. QED
    BY <2>1, CloseInv, Zenon
<1>5. ASSUME NEW t \in Pids, post_signal(t) PROVE FlockInv'
  <2>1. wake_flock_waiters({t} \cap Waiters) /\ pc' = pc /\ locks' = locks
    BY <1>5 DEF post_signal
  <2>2. /\ state' \in [Pids -> States]
        /\ \A p \in Pids : state'[p] = "Blocked" => state[p] = "Blocked"
    BY <2>1 DEF wake_flock_waiters, Move, States, FlockInv
  <2>3. \A u \in Waiters' : u \in Waiters /\ pc'[u] = pc[u]
    BY <2>1, <2>2 DEF Waiters
  <2>4. QED
    BY <2>1, <2>2, <2>3, SameLocks, SMTT(30) DEF FlockInv
<1>6. CASE UNCHANGED <<state, pc, locks>>
  <2>1. \A u \in Waiters' : u \in Waiters /\ pc'[u] = pc[u]
    BY <1>6 DEF Waiters
  <2>2. QED
    BY <1>6, <2>1, SameLocks DEF FlockInv
<1>7. ASSUME NEW t \in Pids, FlockPreempt(t) PROVE FlockInv'
  BY <1>7, <1>6 DEF FlockPreempt, flockVars
<1>8. CASE UNCHANGED allVars
  BY <1>8, <1>6 DEF allVars, schedVars, flockVars
<1>9. QED
  BY <1>1, <1>2, <1>3, <1>4, <1>5, <1>7, <1>8, Zenon DEF FlockNext

\* The invariant of file locks, for any threads, processes and descriptions.
THEOREM FlockInvAlways == FlockSpec => []FlockInv
<1>1. FlockInit => FlockInv
  <2> SUFFICES ASSUME FlockInit PROVE FlockInv
    OBVIOUS
  <2>1. /\ state \in [Pids -> States] /\ pc \in [Pids -> FlockCall]
        /\ locks \in [Handles -> Kinds] /\ FlockExclusive
    BY DEF FlockInit, States, FlockCall, Kinds, FlockExclusive
  <2>2. \A p \in Pids : state[p] # "Blocked"
    BY DEF FlockInit
  <2>3. FlockNotLost
    BY <2>2 DEF FlockNotLost, Waiters
  <2>4. QED
    BY <2>1, <2>3 DEF FlockInv
<1>2. QED
  BY <1>1, FlockStep, PTL DEF FlockSpec

\* vfs_advlock.rs, flock: an exclusive lock excludes every other description,
\* through conversions, closes, deaths and waits that are cut short.
THEOREM FlockExclusiveAlways == FlockSpec => []FlockExclusive
BY FlockInvAlways, PTL DEF FlockInv

\* wake_waiters is called whenever a lock goes or gets weaker: nobody sleeps in
\* flock unless a lock of another description stands in the way.
THEOREM FlockNotLostAlways == FlockSpec => []FlockNotLost
BY FlockInvAlways, PTL DEF FlockInv

-----------------------------------------------------------------------------
(* What a closed description holds.  A thread that waits in flock has no   *)
(* reference to the description of its own, only its process's descriptor, *)
(* so the next theorem is about processes of one thread.                   *)

OneThreadEach == \A t, u \in Pids : ProcOf[t] = ProcOf[u] => t = u

\* Its inductive invariant: the dead are not queued, the thread that executes
\* lives, and a living thread in flock has its descriptor open.
OpenInv ==
    /\ state \in [Pids -> States]
    /\ pc \in [Pids -> FlockCall]
    /\ queue \in [Pids -> Nat]
    /\ locks \in [Handles -> Kinds]
    /\ current \in Pids
    /\ reaps \subseteq Pids \X {"TeardownOnly"}
    /\ \A p \in Pids : state[p] # "Absent" /\ (state[p] = "Zombie" => queue[p] = 0)
    /\ cpu = "run" => state[current] # "Zombie"
    /\ \A t \in Pids : state[t] # "Zombie" /\ pc[t].op = "flock" => ProcOf[t] \in open
    /\ ClosedHoldsNothing

\* A lock granted to a description with an open descriptor, or dropped.
LEMMA OpenLocks ==
    ASSUME OpenInv, NEW h \in Handles, NEW how \in Kinds,
           how # "none" => \E q \in open : HandleOf[q] = h,
           locks' = [locks EXCEPT ![h] = how], open' = open
    PROVE  locks' \in [Handles -> Kinds] /\ ClosedHoldsNothing'
BY DEF OpenInv, Kinds, ClosedHoldsNothing

\* What wake_waiters does: a waiter is alive.
LEMMA WakeQueues ==
    ASSUME OpenInv, NEW W \in SUBSET Waiters, wake_flock_waiters(W)
    PROVE  /\ state' \in [Pids -> States] /\ queue' \in [Pids -> Nat]
           /\ \A p \in Pids : state'[p] # "Absent" /\ (state'[p] = "Zombie" => queue'[p] = 0)
           /\ \A p \in Pids : state'[p] = "Zombie" <=> state[p] = "Zombie"
BY DEF OpenInv, wake_flock_waiters, Move, States, Waiters

\* A pass of flock that returns, granted or not.
LEMMA OpenReturn ==
    ASSUME OpenInv, NEW t \in Pids, NEW W \in SUBSET Waiters, wake_flock_waiters(W), Return(t),
           UNCHANGED <<reaps, current, cpu, open>>,
           locks' \in [Handles -> Kinds], ClosedHoldsNothing'
    PROVE  OpenInv'
<1>1. /\ state' \in [Pids -> States] /\ queue' \in [Pids -> Nat]
      /\ \A p \in Pids : state'[p] # "Absent" /\ (state'[p] = "Zombie" => queue'[p] = 0)
      /\ \A p \in Pids : state'[p] = "Zombie" <=> state[p] = "Zombie"
  BY WakeQueues, Zenon
<1>2. /\ pc' \in [Pids -> FlockCall] /\ pc'[t] = User
      /\ \A u \in Pids \ {t} : pc'[u] = pc[u]
  BY DEF OpenInv, Return, FlockCall
<1>3. \A u \in Pids : state'[u] # "Zombie" /\ pc'[u].op = "flock" => ProcOf[u] \in open'
  BY <1>1, <1>2, CallFacts DEF OpenInv
<1>4. QED
  BY <1>1, <1>2, <1>3 DEF OpenInv

\* A pass of flock, of a process whose descriptor is open.
LEMMA OpenPass ==
    ASSUME OpenInv, NEW t \in Pids, t = current, ProcOf[t] \in open, cpu = "run",
           NEW how \in {"SH", "EX"}, UNCHANGED <<reaps, current, open>>,
           Unlock(t) \/ Grant(t, how) \/ WouldBlock(t, how) \/ Wait(t, how)
    PROVE  OpenInv'
<1>1. /\ Handle(t) \in Handles /\ {} \in SUBSET Waiters /\ Waiters \in SUBSET Waiters
      /\ \E q \in open : HandleOf[q] = Handle(t)
      /\ how \in Kinds /\ "none" \in Kinds
  BY HandleType, SMTT(30) DEF Handle, Kinds
<1>2. CASE Unlock(t)
  <2>1. /\ locks' = [locks EXCEPT ![Handle(t)] = "none"]
        /\ wake_flock_waiters(Waiters) /\ Return(t) /\ cpu' = cpu
    BY <1>2 DEF Unlock, Done
  <2>2. locks' \in [Handles -> Kinds] /\ ClosedHoldsNothing'
    BY <2>1, <1>1, OpenLocks, Zenon
  <2>3. QED
    BY <2>1, <2>2, <1>1, OpenReturn, SMTT(30)
<1>3. CASE Grant(t, how)
  <2>1. PICK W \in SUBSET Waiters :
           /\ locks' = [locks EXCEPT ![Handle(t)] = how]
           /\ wake_flock_waiters(W) /\ Return(t) /\ cpu' = cpu
    BY <1>1, <1>3, Zenon DEF Grant, Done
  <2>2. locks' \in [Handles -> Kinds] /\ ClosedHoldsNothing'
    BY <2>1, <1>1, OpenLocks, Zenon
  <2>3. QED
    BY <2>1, <2>2, <1>1, OpenReturn
<1>4. CASE WouldBlock(t, how)
  <2>1. PICK W \in SUBSET Waiters :
           /\ locks' = [locks EXCEPT ![Handle(t)] = "none"]
           /\ wake_flock_waiters(W) /\ Return(t) /\ cpu' = cpu
    BY <1>1, <1>4, Zenon DEF WouldBlock, GiveUp, Done
  <2>2. locks' \in [Handles -> Kinds] /\ ClosedHoldsNothing'
    BY <2>1, <1>1, OpenLocks, Zenon
  <2>3. QED
    BY <2>1, <2>2, <1>1, OpenReturn
<1>5. CASE Wait(t, how)
  <2> DEFINE W == IF locks[Handle(t)] # "none" THEN Waiters \cup {t} ELSE {}
  <2>1. /\ locks' = [locks EXCEPT ![Handle(t)] = "none"]
        /\ state' = [p \in Pids |-> IF p \in W THEN "Ready"
                                   ELSE IF p = t THEN "Blocked" ELSE state[p]]
        /\ queue' = [p \in Pids |-> IF p \in W THEN queue[p] + 1 ELSE queue[p]]
        /\ pc' = [pc EXCEPT ![t] = Flock(how)] /\ cpu' = "schedule"
    BY <1>5, Zenon DEF Wait, GiveUp
  <2>2. locks' \in [Handles -> Kinds] /\ ClosedHoldsNothing'
    BY <2>1, <1>1, OpenLocks, Zenon
  <2>3. state[t] # "Zombie" /\ \A p \in Pids : p \in W => state[p] # "Zombie"
    BY DEF OpenInv, Waiters
  <2>4. /\ state' \in [Pids -> States] /\ queue' \in [Pids -> Nat]
        /\ \A p \in Pids : state'[p] # "Absent" /\ (state'[p] = "Zombie" => queue'[p] = 0)
        /\ \A p \in Pids : state'[p] = "Zombie" <=> state[p] = "Zombie"
    <3> HIDE DEF W
    <3>1. QED
      BY <2>1, <2>3, SMTT(30) DEF OpenInv, States
  <2>5. /\ pc' \in [Pids -> FlockCall]
        /\ \A u \in Pids \ {t} : pc'[u] = pc[u]
    BY <2>1 DEF OpenInv, FlockCall
  <2>6. QED
    BY <2>1, <2>2, <2>4, <2>5, SMTT(30) DEF OpenInv
<1>6. QED
  BY <1>2, <1>3, <1>4, <1>5, Zenon

\* release_all takes the locks of a description along with its last descriptor.
LEMMA CloseDrops ==
    ASSUME OpenInv, NEW q \in Pids, locks' = Closed(q), open' = open \ {q}
    PROVE  locks' \in [Handles -> Kinds] /\ ClosedHoldsNothing'
<1>1. HandleOf[q] \in Handles
  BY FlockAssumption
<1>2. CASE last_close(q)
  <2>1. locks' = [locks EXCEPT ![HandleOf[q]] = "none"]
    BY <1>2 DEF Closed
  <2>2. QED
    BY <2>1, <1>1 DEF OpenInv, Kinds, ClosedHoldsNothing
<1>3. CASE ~last_close(q)
  <2>1. locks' = locks
    BY <1>3 DEF Closed
  <2>2. q \notin open \/ \E r \in open \ {q} : HandleOf[r] = HandleOf[q]
    BY <1>3 DEF last_close
  <2>3. QED
    BY <2>1, <2>2 DEF OpenInv, ClosedHoldsNothing
<1>4. QED
  BY <1>2, <1>3

\* A process that gives its descriptor up: no thread of it that lives is in
\* flock afterwards, because it has one thread and that is here, or dead.
LEMMA OpenClose ==
    ASSUME OpenInv, OneThreadEach, NEW q \in Pids, NEW Z \in SUBSET Pids,
           locks' = Closed(q), open' = open \ {q}, Move(ClosedWakes(q), Z, {}, {}),
           UNCHANGED <<pc, current>>, reaps' \subseteq Pids \X {"TeardownOnly"},
           \A t \in Pids : ProcOf[t] = q => t \in Z \/ pc[t] = User,
           cpu' = "run" => cpu = "run" /\ current \notin Z
    PROVE  OpenInv'
<1>1. locks' \in [Handles -> Kinds] /\ ClosedHoldsNothing'
  BY CloseDrops, Zenon
<1>2. ClosedWakes(q) \subseteq Waiters
  BY DEF ClosedWakes
<1>3. /\ state' \in [Pids -> States] /\ queue' \in [Pids -> Nat]
      /\ \A p \in Pids : state'[p] # "Absent" /\ (state'[p] = "Zombie" => queue'[p] = 0)
      /\ \A p \in Pids : state'[p] = "Zombie" <=> (p \in Z \/ state[p] = "Zombie")
  BY <1>2 DEF OpenInv, Move, States, Waiters, remove_ready
<1>4. \A t \in Pids : state'[t] # "Zombie" /\ pc'[t].op = "flock" => ProcOf[t] \in open'
  BY <1>3, CallFacts, SMTT(30) DEF OpenInv
<1>5. cpu' = "run" => state'[current'] # "Zombie"
  BY <1>3 DEF OpenInv
<1>6. QED
  BY <1>1, <1>3, <1>4, <1>5 DEF OpenInv

\* The scheduler never runs a dead thread.
LEMMA OpenSchedule ==
    ASSUME OpenInv, FlockSchedule
    PROVE  OpenInv'
<1>1. UNCHANGED <<pc, locks, open>>
  BY SMTT(30) DEF FlockSchedule, flockVars, schedule_inner, Dispatch
<1>2. ClosedHoldsNothing'
  BY <1>1 DEF OpenInv, ClosedHoldsNothing
<1>3. CASE schedule_inner
  <2>1. \A p \in Pids : <<p, "RemoveEntry">> \notin reaps
    BY DEF OpenInv
  <2>2. /\ state' \in [Pids -> States] /\ queue' \in [Pids -> Nat]
        /\ \A p \in Pids : state'[p] # "Absent" /\ (state'[p] = "Zombie" => queue'[p] = 0)
        /\ \A p \in Pids : state'[p] = "Zombie" => state[p] = "Zombie"
        /\ \A p \in Pids : state[p] = "Zombie" => state'[p] = "Zombie"
    BY <2>1, <1>3 DEF OpenInv, schedule_inner, reap_pending_threads, States
  <2>3. reaps' \subseteq Pids \X {"TeardownOnly"} /\ cpu' = "idle" /\ current' = current
    BY <1>3 DEF OpenInv, schedule_inner
  <2>4. QED
    BY <1>1, <1>2, <2>2, <2>3 DEF OpenInv
<1>4. ASSUME NEW n \in Pids, Dispatch(n) PROVE OpenInv'
  <2>1. /\ state' \in [Pids -> States] /\ queue' \in [Pids -> Nat]
        /\ \A p \in Pids : state'[p] # "Absent" /\ (state'[p] = "Zombie" => queue'[p] = 0)
        /\ \A p \in Pids : state'[p] = "Zombie" <=> state[p] = "Zombie"
        /\ state'[n] = "Running"
    BY <1>4 DEF OpenInv, Dispatch, States
  <2>2. current' = n /\ reaps' = reaps
    BY <1>4 DEF Dispatch
  <2>3. QED
    BY <1>1, <1>2, <2>1, <2>2, SMTT(30) DEF OpenInv
<1>5. QED
  BY <1>3, <1>4, Zenon DEF FlockSchedule

\* Every step of processes of one thread keeps the invariant.
LEMMA OpenStep ==
    ASSUME OpenInv, OneThreadEach, [FlockNext]_allVars
    PROVE  OpenInv'
<1>1. CASE FlockSchedule
  BY <1>1, OpenSchedule, Zenon
<1>2. ASSUME NEW t \in Pids, NEW how \in {"SH", "EX", "UN"}, NEW nb \in BOOLEAN, flock(t, how, nb)
      PROVE  OpenInv'
  <2>1. t = current /\ ProcOf[t] \in open /\ cpu = "run" /\ UNCHANGED <<reaps, current, open>>
    BY <1>2 DEF flock, InUser
  <2>2. \/ Unlock(t)
        \/ how \in {"SH", "EX"} /\ (Grant(t, how) \/ WouldBlock(t, how) \/ Wait(t, how))
    BY <1>2 DEF flock
  <2>3. "SH" \in {"SH", "EX"}
    OBVIOUS
  <2>4. QED
    BY <2>1, <2>2, <2>3, OpenPass, ZenonT(40)
<1>3. ASSUME NEW t \in Pids, ResumeFlock(t) PROVE OpenInv'
  <2>1. t = current /\ cpu = "run" /\ pc[t].op = "flock" /\ UNCHANGED <<reaps, current, open>>
    BY <1>3 DEF ResumeFlock
  <2>2. ProcOf[t] \in open /\ pc[t] \in FlockCall
    BY <2>1 DEF OpenInv
  <2>3. pc[t].how \in {"SH", "EX"}
    BY <2>1, <2>2, CallFacts, Zenon
  <2>4. CASE Done(t) /\ UNCHANGED <<state, queue, locks>>
    <3>1. Return(t) /\ cpu' = cpu
      BY <2>4 DEF Done
    <3>2. /\ pc' \in [Pids -> FlockCall] /\ pc'[t] = User
          /\ \A u \in Pids \ {t} : pc'[u] = pc[u]
      BY <3>1 DEF OpenInv, Return, FlockCall
    <3>3. ClosedHoldsNothing'
      BY <2>1, <2>4 DEF OpenInv, ClosedHoldsNothing
    <3>4. QED
      BY <2>1, <2>4, <3>1, <3>2, <3>3, CallFacts, SMTT(30) DEF OpenInv
  <2>5. QED
    BY <1>3, <2>1, <2>2, <2>3, <2>4, OpenPass, ZenonT(40) DEF ResumeFlock
<1>4. ASSUME NEW t \in Pids, close_one(t) PROVE OpenInv'
  <2>1. /\ locks' = Closed(ProcOf[t]) /\ open' = open \ {ProcOf[t]}
        /\ Move(ClosedWakes(ProcOf[t]), {}, {}, {}) /\ {} \in SUBSET Pids
        /\ UNCHANGED <<pc, current>> /\ reaps' = reaps /\ cpu' = cpu /\ pc[t] = User
    BY <1>4, SMTT(30) DEF close_one, wake_flock_waiters, InUser
  <2>2. ProcOf[t] \in Pids /\ \A u \in Pids : ProcOf[u] = ProcOf[t] => u \in {} \/ pc[u] = User
    BY <2>1, HandleType, SMTT(30) DEF OneThreadEach
  <2>3. reaps' \subseteq Pids \X {"TeardownOnly"}
    BY <2>1, SMTT(30) DEF OpenInv
  <2>4. cpu' = "run" => cpu = "run" /\ current \notin {}
    BY <2>1
  <2> DEFINE q == ProcOf[t]
             Z == {}
  <2>5. /\ q \in Pids /\ Z \in SUBSET Pids /\ locks' = Closed(q) /\ open' = open \ {q}
        /\ Move(ClosedWakes(q), Z, {}, {})
        /\ \A u \in Pids : ProcOf[u] = q => u \in Z \/ pc[u] = User
        /\ (cpu' = "run" => cpu = "run" /\ current \notin Z)
    BY <2>1, <2>2, <2>4, Zenon
  <2> HIDE DEF q, Z
  <2>6. QED
    BY <2>1, <2>3, <2>5, OpenClose, ZenonT(40)
<1>5. ASSUME NEW q \in Pids, terminate_thread_group(q) PROVE OpenInv'
  <2> DEFINE Z == ThreadsOf(q)
  <2>1. /\ locks' = Closed(q) /\ open' = open \ {q} /\ Move(ClosedWakes(q), Z, {}, {})
        /\ UNCHANGED <<pc, current>>
        /\ reaps' = reaps \cup {<<t, "TeardownOnly">> : t \in Z \cap {current}}
        /\ cpu' = IF Z \cap {current} # {} /\ cpu = "run" THEN "schedule" ELSE cpu
    BY <1>5 DEF terminate_thread_group
  <2>2. Z \in SUBSET Pids /\ \A u \in Pids : ProcOf[u] = q => u \in Z \/ pc[u] = User
    BY SMTT(30) DEF ThreadsOf
  <2> HIDE DEF Z
  <2>3. reaps' \subseteq Pids \X {"TeardownOnly"}
    BY <2>1, <2>2, SMTT(30) DEF OpenInv
  <2>4. cpu' = "run" => cpu = "run" /\ current \notin Z
    BY <2>1, SMTT(30)
  <2>5. QED
    BY <2>1, <2>2, <2>3, <2>4, OpenClose, ZenonT(40)
<1>6. ASSUME NEW t \in Pids, post_signal(t) PROVE OpenInv'
  <2> DEFINE W == {t} \cap Waiters
  <2>1. W \in SUBSET Waiters /\ wake_flock_waiters(W) /\ UNCHANGED <<pc, reaps, current, cpu, locks, open>>
    BY <1>6 DEF post_signal
  <2> HIDE DEF W
  <2>2. /\ state' \in [Pids -> States] /\ queue' \in [Pids -> Nat]
        /\ \A p \in Pids : state'[p] # "Absent" /\ (state'[p] = "Zombie" => queue'[p] = 0)
        /\ \A p \in Pids : state'[p] = "Zombie" <=> state[p] = "Zombie"
    BY <2>1, WakeQueues, Zenon
  <2>3. ClosedHoldsNothing'
    BY <2>1, SMTT(30) DEF OpenInv, ClosedHoldsNothing
  <2>4. QED
    BY <2>1, <2>2, <2>3, SMTT(30) DEF OpenInv
<1>7. ASSUME NEW t \in Pids, FlockPreempt(t) PROVE OpenInv'
  <2>1. UNCHANGED <<state, pc, queue, reaps, current, locks, open>> /\ cpu' = "schedule"
    BY <1>7, SMTT(30) DEF FlockPreempt, flockVars
  <2>2. QED
    BY <2>1 DEF OpenInv, ClosedHoldsNothing
<1>8. CASE UNCHANGED allVars
  BY <1>8 DEF allVars, schedVars, flockVars, OpenInv, ClosedHoldsNothing
<1>9. QED
  BY <1>1, <1>2, <1>3, <1>4, <1>5, <1>6, <1>7, <1>8, Zenon DEF FlockNext

\* vfs_advlock.rs: "A description's locks go when it's closed or unlocks", for
\* processes of one thread: their last close, their death and a wait that is
\* still going on leave no lock behind.
THEOREM ClosedHoldsNothingAlways ==
    ASSUME OneThreadEach
    PROVE  FlockSpec => []ClosedHoldsNothing
<1>1. FlockInit => OpenInv
  <2> SUFFICES ASSUME FlockInit PROVE OpenInv
    OBVIOUS
  <2>1. INIT \in Pids
    BY SchedulerAssumption DEF INIT, Pids
  <2>2. /\ state \in [Pids -> States] /\ pc \in [Pids -> FlockCall] /\ queue \in [Pids -> Nat]
        /\ locks \in [Handles -> Kinds] /\ current \in Pids /\ reaps = {}
        /\ \A p \in Pids : state[p] \notin {"Absent", "Zombie"} /\ pc[p] = User
        /\ \A h \in Handles : locks[h] = "none"
    BY <2>1 DEF FlockInit, States, FlockCall, Kinds
  <2>3. QED
    BY <2>2, CallFacts DEF OpenInv, ClosedHoldsNothing
<1>2. OpenInv /\ [FlockNext]_allVars => OpenInv'
  BY OpenStep, Zenon
<1>3. OpenInv => ClosedHoldsNothing
  BY Zenon DEF OpenInv
<1>4. QED
  BY <1>1, <1>2, <1>3, PTL DEF FlockSpec

-----------------------------------------------------------------------------
(* The task queue.                                                         *)

\* The inductive invariant: besides what is promised, running names the task
\* the queue's thread is in.
TqInv ==
    /\ TqTypeOK
    /\ ListMatchesPending
    /\ WorkerNotLost
    /\ running = worker

\* A thread that is woken, and one that sleeps.
LEMMA WakeupFacts ==
    ASSUME TqTypeOK, NEW c \in {"work", "done"}
    PROVE  /\ wakeup(c) \in [TqThreads -> {None, "work", "done"}]
           /\ \A t \in TqThreads : wakeup(c)[t] = IF chan[t] = c THEN None ELSE chan[t]
BY DEF TqTypeOK, wakeup, None

\* What the constants are.
LEMMA TqAtoms ==
    /\ Taskq \in TqThreads /\ None # "work" /\ None # "done"
    /\ \A d \in Drainers : d \in TqThreads /\ d # Taskq
    /\ None \notin Tasks /\ MaxPending \in Nat /\ MaxPending >= 1
BY TaskqueueAssumption DEF Taskq, TqThreads, None

\* The list after a task is appended or the head is taken.
LEMMA AppendFacts ==
    ASSUME NEW S, NEW seq \in Seq(S), NEW e \in S
    PROVE  /\ Append(seq, e) \in Seq(S)
           /\ DOMAIN Append(seq, e) = 1..(Len(seq) + 1)
           /\ Append(seq, e)[Len(seq) + 1] = e
           /\ \A i \in 1..Len(seq) : Append(seq, e)[i] = seq[i]
           /\ DOMAIN seq = 1..Len(seq) /\ Len(seq) \in Nat
OBVIOUS

LEMMA TailFacts ==
    ASSUME NEW S, NEW seq \in Seq(S), seq # <<>>
    PROVE  /\ Tail(seq) \in Seq(S) /\ Head(seq) = seq[1] /\ Head(seq) \in S
           /\ Len(seq) \in Nat /\ Len(seq) >= 1
           /\ DOMAIN seq = 1..Len(seq)
           /\ DOMAIN Tail(seq) = 1..(Len(seq) - 1)
           /\ \A i \in 1..(Len(seq) - 1) : Tail(seq)[i] = seq[i + 1]
OBVIOUS

\* enqueue: only a task that was not queued is linked, and the thread is woken.
LEMMA EnqueueInv ==
    ASSUME TqInv, NEW task \in Tasks, enqueue(task)
    PROVE  TqInv'
<1>1. UNCHANGED <<running, worker, told, draining>>
  BY SMTT(30) DEF enqueue
<1>2. CASE already_queued(task)
  <2>1. pending' = [pending EXCEPT ![task] = counted(pending[task])] /\ list' = list /\ chan' = chan
    BY <1>2 DEF enqueue
  <2>2. pending[task] > 0 /\ pending[task] \in 0..MaxPending
    BY <1>2 DEF already_queued, TqInv, TqTypeOK
  <2>3. counted(pending[task]) \in 0..MaxPending /\ counted(pending[task]) > 0
    BY <2>2, TqAtoms DEF counted
  <2>4. pending' \in [Tasks -> 0..MaxPending] /\ \A u \in Tasks : pending'[u] > 0 <=> pending[u] > 0
    BY <2>1, <2>2, <2>3, SMTT(30) DEF TqInv, TqTypeOK
  <2>5. QED
    BY <1>1, <2>1, <2>4 DEF TqInv, TqTypeOK, ListMatchesPending, WorkerNotLost, Linked
<1>3. CASE ~already_queued(task)
  <2>1. /\ pending' = [pending EXCEPT ![task] = 1]
        /\ list' = Append(list, task) /\ chan' = wakeup("work")
    BY <1>3 DEF enqueue, work_wakeup
  <2>2. list \in Seq(Tasks) /\ pending \in [Tasks -> 0..MaxPending] /\ pending[task] = 0
    BY <1>3 DEF already_queued, TqInv, TqTypeOK
  <2> DEFINE n == Len(list)
  <2>3. /\ list' \in Seq(Tasks) /\ DOMAIN list' = 1..(n + 1) /\ list'[n + 1] = task
        /\ \A i \in 1..n : list'[i] = list[i]
        /\ DOMAIN list = 1..n /\ n \in Nat
    BY <2>1, <2>2, AppendFacts
  <2> HIDE DEF n
  <2>4. /\ pending' \in [Tasks -> 0..MaxPending] /\ pending'[task] = 1
        /\ \A u \in Tasks \ {task} : pending'[u] = pending[u]
    BY <2>1, <2>2, TqAtoms, SMTT(30)
  <2>5. /\ \A i, j \in 1..n : list[i] = list[j] => i = j
        /\ \A u \in Tasks : (\E i \in 1..n : list[i] = u) <=> pending[u] > 0
        /\ worker # None => told > 0
    BY <2>3 DEF TqInv, ListMatchesPending, Linked
  <2>6. \A i \in 1..n : list[i] # task
    BY <2>5, <2>2, SMTT(30)
  <2>7. \A i, j \in DOMAIN list' : list'[i] = list'[j] => i = j
    BY <2>3, <2>5, <2>6, SMTT(30)
  <2>8. \A u \in Tasks : (\E i \in DOMAIN list' : list'[i] = u) <=> pending'[u] > 0
    BY <2>3, <2>4, <2>5, SMTT(30)
  <2>9. ListMatchesPending'
    BY <1>1, <2>5, <2>7, <2>8 DEF ListMatchesPending, Linked
  <2>10. chan' \in [TqThreads -> {None, "work", "done"}] /\ chan'[Taskq] # "work"
    BY <2>1, WakeupFacts, TqAtoms DEF TqInv
  <2>11. QED
    BY <1>1, <2>3, <2>4, <2>9, <2>10, SMTT(30) DEF TqInv, TqTypeOK, WorkerNotLost
<1>4. QED
  BY <1>2, <1>3

\* The queue's thread takes the head, or sleeps when there is none.
LEMMA RunTaskInv ==
    ASSUME TqInv, RunTask
    PROVE  TqInv'
<1>1. worker = None /\ UNCHANGED draining
  BY SMTT(30) DEF RunTask
<1>2. CASE list # <<>>
  <2> DEFINE task == Head(list)
             n == Len(list)
  <2>1. /\ list' = Tail(list) /\ running' = task /\ worker' = task /\ told' = pending[task]
        /\ pending' = [pending EXCEPT ![task] = 0] /\ chan' = chan
    BY <1>2 DEF RunTask, left_pending
  <2>2. list \in Seq(Tasks) /\ pending \in [Tasks -> 0..MaxPending]
    BY DEF TqInv, TqTypeOK
  <2>3. /\ list' \in Seq(Tasks) /\ task \in Tasks /\ task = list[1]
        /\ n \in Nat /\ n >= 1 /\ DOMAIN list = 1..n /\ DOMAIN list' = 1..(n - 1)
        /\ \A i \in 1..(n - 1) : list'[i] = list[i + 1]
    BY <1>2, <2>1, <2>2, TailFacts, SMTT(30)
  <2> HIDE DEF task, n
  <2>4. /\ \A i, j \in 1..n : list[i] = list[j] => i = j
        /\ \A u \in Tasks : (\E i \in 1..n : list[i] = u) <=> pending[u] > 0
    BY <2>3, Zenon DEF TqInv, ListMatchesPending, Linked
  <2>5. pending[task] > 0 /\ pending[task] \in 0..MaxPending
    BY <2>2, <2>3, <2>4
  <2>6. /\ pending' \in [Tasks -> 0..MaxPending] /\ pending'[task] = 0
        /\ \A u \in Tasks \ {task} : pending'[u] = pending[u]
    BY <2>1, <2>2, <2>3, TqAtoms
  <2>7. \A i, j \in DOMAIN list' : list'[i] = list'[j] => i = j
    BY <2>3, <2>4, SMTT(30)
  <2>8. \A u \in Tasks : (\E i \in DOMAIN list' : list'[i] = u) <=> pending'[u] > 0
    <3> SUFFICES ASSUME NEW u \in Tasks
                 PROVE  (\E i \in 1..(n - 1) : list'[i] = u) <=> pending'[u] > 0
      BY <2>3
    <3>1. CASE u = task
      <4>1. \A i \in 1..(n - 1) : list'[i] # u
        BY <3>1, <2>3, <2>4, SMTT(30)
      <4>2. QED
        BY <4>1, <3>1, <2>6, SMTT(30)
    <3>2. CASE u # task
      <4>1. ASSUME NEW i \in 1..n, list[i] = u PROVE \E j \in 1..(n - 1) : list'[j] = u
        <5>1. i # 1 /\ i - 1 \in 1..(n - 1) /\ list'[i - 1] = list[(i - 1) + 1] /\ (i - 1) + 1 = i
          BY <4>1, <3>2, <2>3, SMTT(30)
        <5>2. QED
          BY <5>1, <4>1, SMTT(30)
      <4>2. ASSUME NEW j \in 1..(n - 1), list'[j] = u PROVE \E i \in 1..n : list[i] = u
        BY <4>2, <2>3, SMTT(30)
      <4>3. QED
        BY <4>1, <4>2, <3>2, <2>4, <2>6, SMTT(30)
    <3>3. QED
      BY <3>1, <3>2, SMTT(30)
  <2>9. ListMatchesPending'
    BY <2>1, <2>5, <2>7, <2>8, SMTT(30) DEF ListMatchesPending, Linked
  <2>10. WorkerNotLost'
    BY <1>2, <2>1, TqAtoms, SMTT(30) DEF RunTask, Awake, WorkerNotLost
  <2>11. QED
    BY <1>1, <2>1, <2>3, <2>5, <2>6, <2>9, <2>10, SMTT(30) DEF TqInv, TqTypeOK
<1>3. CASE list = <<>>
  <2>1. chan' = [chan EXCEPT ![Taskq] = "work"] /\ UNCHANGED <<list, pending, running, worker, told>>
    BY <1>3 DEF RunTask, tsleep
  <2>2. chan' \in [TqThreads -> {None, "work", "done"}]
    BY <2>1, TqAtoms, SMTT(30) DEF TqInv, TqTypeOK
  <2>3. QED
    BY <1>1, <1>3, <2>1, <2>2, SMTT(30) DEF TqInv, TqTypeOK, ListMatchesPending, Linked, WorkerNotLost
<1>4. QED
  BY <1>2, <1>3

\* The function has returned.
LEMMA TaskDoneInv ==
    ASSUME TqInv, TaskDone
    PROVE  TqInv'
<1>1. /\ worker' = None /\ running' = None /\ told' = 0 /\ chan' = wakeup("done")
      /\ UNCHANGED <<list, pending, draining>>
  BY SMTT(30) DEF TaskDone
<1>2. chan' \in [TqThreads -> {None, "work", "done"}] /\ (chan'[Taskq] = "work" => chan[Taskq] = "work")
  BY <1>1, WakeupFacts, TqAtoms, SMTT(30) DEF TqInv
<1>3. QED
  BY <1>1, <1>2, TqAtoms DEF TqInv, TqTypeOK, ListMatchesPending, Linked, WorkerNotLost

\* A pass of drain's loop touches its own thread only.
LEMMA DrainInv ==
    ASSUME TqInv, NEW d \in Drainers, NEW task \in Tasks, drain(d, task)
    PROVE  TqInv'
<1>1. UNCHANGED <<list, pending, running, worker, told>>
  BY DEF drain
<1>2. draining' \in [Drainers -> Tasks \cup {None}]
  BY DEF drain, TqInv, TqTypeOK
<1>3. chan' \in [TqThreads -> {None, "work", "done"}] /\ chan'[Taskq] = chan[Taskq]
  BY TqAtoms DEF drain, tsleep, TqInv, TqTypeOK
<1>4. QED
  BY <1>1, <1>2, <1>3 DEF TqInv, TqTypeOK, ListMatchesPending, Linked, WorkerNotLost

\* Every step preserves the invariant.
LEMMA TqStep ==
    ASSUME TqInv, [TqNext]_tqVars
    PROVE  TqInv'
<1>1. ASSUME NEW d \in Drainers, Drain(d) \/ ResumeDrain(d) PROVE TqInv'
  <2>1. \E task \in Tasks : drain(d, task)
    BY <1>1, SMTT(30) DEF Drain, ResumeDrain, TqInv, TqTypeOK
  <2>2. QED
    BY <2>1, DrainInv, Zenon
<1>2. CASE expire_sleeps
  <2>1. chan' = wakeup("done") /\ UNCHANGED <<list, pending, running, worker, told, draining>>
    BY <1>2, SMTT(30) DEF expire_sleeps
  <2>2. chan' \in [TqThreads -> {None, "work", "done"}] /\ (chan'[Taskq] = "work" => chan[Taskq] = "work")
    BY <2>1, WakeupFacts, TqAtoms, SMTT(30) DEF TqInv
  <2>3. QED
    BY <2>1, <2>2 DEF TqInv, TqTypeOK, ListMatchesPending, Linked, WorkerNotLost
<1>3. CASE UNCHANGED tqVars
  BY <1>3, SMTT(30) DEF tqVars, TqInv, TqTypeOK, ListMatchesPending, Linked, WorkerNotLost
<1>4. QED
  BY <1>1, <1>2, <1>3, EnqueueInv, RunTaskInv, TaskDoneInv, Zenon DEF TqNext

\* The invariant holds in every state the queue reaches.
THEOREM TqInvAlways == TqSpec => []TqInv
<1>1. TqInit => TqInv
  BY TqAtoms DEF TqInit, TqInv, TqTypeOK, ListMatchesPending, Linked, WorkerNotLost
<1>2. QED
  BY <1>1, TqStep, PTL DEF TqSpec

\* A task is linked once exactly when it has enqueues pending, whatever calls
\* enqueue while its function runs (subr_taskqueue.rs, enqueue and run).
THEOREM ListMatchesPendingAlways == TqSpec => []ListMatchesPending
BY TqInvAlways, PTL DEF TqInv

\* The queue's thread never sleeps while the list has a task: enqueue's wakeup
\* cannot fall between the look at the list and the sleep.
THEOREM WorkerNotLostAlways == TqSpec => []WorkerNotLost
BY TqInvAlways, PTL DEF TqInv

\* Only drain itself ends a drain, and it looks at pending and running.
LEMMA DrainReturns ==
    ASSUME TqInv, [TqNext]_tqVars, NEW d \in Drainers, draining[d] # None, draining'[d] = None
    PROVE  worker # draining[d] /\ ~Linked(draining[d])
<1>1. draining \in [Drainers -> Tasks \cup {None}]
  BY DEF TqInv, TqTypeOK
<1>2. draining' # draining
  BY SMTT(30)
<1>3. PICK e \in Drainers : Drain(e) \/ ResumeDrain(e)
  BY <1>2, SMTT(30) DEF TqNext, tqVars, enqueue, RunTask, TaskDone, expire_sleeps
<1>4. PICK task \in Tasks : drain(e, task) /\ (ResumeDrain(e) => task = draining[e])
                             /\ (Drain(e) => draining[e] = None)
  BY <1>1, <1>3, SMTT(30) DEF Drain, ResumeDrain
<1>5. e = d
  BY <1>1, <1>4, SMTT(30) DEF drain
<1>6. task = draining[d] /\ ~undrained(task)
  BY <1>1, <1>3, <1>4, <1>5, TqAtoms, SMTT(30) DEF drain
<1>7. pending[task] = 0 /\ worker # task
  BY <1>6 DEF undrained, TqInv
<1>8. QED
  BY <1>6, <1>7 DEF TqInv, ListMatchesPending

\* When drain returns, the task is neither queued nor running.
THEOREM DrainedIsIdleAlways == TqSpec => DrainedIsIdle
<1>1. TqInv /\ [TqNext]_tqVars =>
        [\A d \in Drainers : draining[d] # None /\ draining'[d] = None
           => worker # draining[d] /\ ~Linked(draining[d])]_tqVars
  BY DrainReturns, Zenon
<1>2. QED
  BY <1>1, TqInvAlways, PTL DEF TqSpec, DrainedIsIdle
=============================================================================
