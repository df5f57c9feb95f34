---------------------------- MODULE FutexProofs -----------------------------
(***************************************************************************)
(* Futexes, for any threads, groups and words: nobody sleeps for a value   *)
(* its word no longer has, unless the thread that changed the word is      *)
(* about to wake it.                                                       *)
(***************************************************************************)
EXTENDS Futex, FiniteSetTheorems, TLAPS

\* The constants: pids are numbers, and a word is of one kind.
FutexConstants ==
    /\ IsFiniteSet(Procs) /\ Procs \subseteq Nat
    /\ Words \cap Shared = {} /\ Tid \notin Words \cup Shared

\* What a thread can be inside of.
WaitCalls == [op : {"wait"}, key : FutexKeys, val : {0, 1}, time : {"later", "past", "never"}]
StoredCalls == [op : {"stored"}, word : Words \cup Shared, time : {"never"}]

\* Types; only a wait sleeps, and a thread between its store and its wake runs.
FutexShape ==
    /\ word \in [FutexKeys -> {0, 1}]
    /\ state \in [Procs -> {"run", "asleep", "dead"}]
    /\ call \in [Procs -> {NoCall} \cup WaitCalls \cup StoredCalls]
    /\ \A p \in Procs : state[p] = "asleep" => call[p] \in WaitCalls
    /\ \A p \in Procs : call[p] \in StoredCalls => state[p] = "run"

\* A thread's Tid word has one joiner.
OneJoiner == \A p, q \in Procs :
    /\ state[p] = "asleep" /\ state[q] = "asleep"
    /\ call[p].key = call[q].key /\ call[p].key[2] = Tid
    => p = q

\* The inductive invariant: a Tid word needs its one joiner, since an exit wakes
\* one waiter.
FutexInv == FutexShape /\ OneJoiner /\ NoStaleSleeper

\* The call a thread is in is known by its op.
LEMMA OpFacts ==
    ASSUME FutexShape
    PROVE  \A p \in Procs :
             /\ call[p].op = "wait" <=> call[p] \in WaitCalls
             /\ call[p].op = "stored" <=> call[p] \in StoredCalls
             /\ call[p].op = "none" <=> call[p] = NoCall
             /\ ~(call[p] \in WaitCalls /\ call[p] \in StoredCalls)
             /\ NoCall \notin WaitCalls \cup StoredCalls
             /\ call[p] \in WaitCalls => call[p].key \in FutexKeys /\ call[p].val \in {0, 1}
             /\ call[p] \in StoredCalls => call[p].word \in Words \cup Shared
                                           /\ call[p].time = "never"
             /\ p \in Asleep("wait") <=> state[p] = "asleep"
BY DEF FutexShape, WaitCalls, StoredCalls, NoCall, Asleep

\* The key of a word is a key, and says which word it is of.
LEMMA KeyFacts ==
    ASSUME FutexConstants
    PROVE  /\ \A p \in Procs, w \in AllWords : futex_key(p, w) \in FutexKeys /\ futex_key(p, w)[2] = w
           /\ \A p \in Procs, w \in Words : futex_key(p, w) = <<tgid[p], w>> /\ w # Tid
           /\ \A w \in Words \cup Shared : w \in AllWords /\ w # Tid
           /\ Tid \in AllWords
BY DEF FutexConstants, futex_key, FutexKeys, AllWords

\* What NoStaleSleeper says, of the threads rather than of the set Asleep.
Storer(k) == \E q \in Procs : call[q] \in StoredCalls /\ futex_key(q, call[q].word) = k
NobodyStale == \A p \in Procs :
    state[p] = "asleep" => word[call[p].key] = call[p].val \/ Storer(call[p].key)

\* The two say the same.
LEMMA StaleFacts ==
    ASSUME FutexShape
    PROVE  NoStaleSleeper <=> NobodyStale
<1>1. \A p \in Procs : p \in Asleep("wait") <=> state[p] = "asleep"
  BY OpFacts, Zenon
<1>2. Asleep("wait") \subseteq Procs
  BY Zenon DEF Asleep
<1>3. \A q \in Procs : call[q] \in StoredCalls <=> state[q] = "run" /\ call[q].op = "stored"
  BY OpFacts, Zenon DEF FutexShape
<1>4. QED
  BY <1>1, <1>2, <1>3, Zenon DEF NoStaleSleeper, NobodyStale, Storer

\* And in the next state.
LEMMA StaleNext == FutexShape' => (NoStaleSleeper' <=> NobodyStale')
BY StaleFacts, PTL

\* wake_futex with a count no set of threads exceeds wakes every waiter.
LEMMA WakeAll ==
    ASSUME FutexConstants, NEW k
    PROVE  wake_futex(k, Cardinality(Procs)) = WaitersOn(k)
<1> DEFINE S == WaitersOn(k)
<1>1. S \subseteq Procs
  BY DEF WaitersOn, Asleep
<1>2. ASSUME NEW p \in S PROVE Cardinality({q \in S : q < p}) < Cardinality(Procs)
  <2> DEFINE L == {q \in S : q < p}
  <2>1. p \in Procs
    BY <1>1, <1>2, Zenon
  <2>2. ~(p < p)
    BY <2>1 DEF FutexConstants
  <2>3. L \subseteq Procs /\ p \notin L /\ L # Procs
    BY <1>1, <2>1, <2>2
  <2>4. IsFiniteSet(L) /\ Cardinality(L) <= Cardinality(Procs) /\ Cardinality(L) # Cardinality(Procs)
    BY <2>3, FS_Subset, Zenon DEF FutexConstants
  <2>5. Cardinality(L) \in Nat /\ Cardinality(Procs) \in Nat
    BY <2>4, FS_CardinalityType, Zenon DEF FutexConstants
  <2>6. QED
    BY <2>4, <2>5
<1>3. QED
  BY <1>2 DEF wake_futex, LowestOf

\* Of a single waiter, a wake of one wakes it.
LEMMA WakeOne ==
    ASSUME FutexConstants, FutexShape, NEW k, NEW p \in Procs,
           state[p] = "asleep", call[p].key = k,
           \A q \in Procs : state[q] = "asleep" /\ call[q].key = k => q = p
    PROVE  p \in wake_futex(k, 1)
<1>1. p \in WaitersOn(k) /\ \A q \in WaitersOn(k) : q = p
  BY OpFacts DEF WaitersOn, Asleep
<1>2. ~(p < p)
  BY DEF FutexConstants
<1>3. {q \in WaitersOn(k) : q < p} = {}
  BY <1>1, <1>2
<1>4. Cardinality({q \in WaitersOn(k) : q < p}) = 0
  BY <1>3, FS_EmptySet, Zenon
<1>5. QED
  BY <1>1, <1>4 DEF wake_futex, LowestOf

\* The threads of a set that slept are awake, and nobody else changes.
LEMMA WokenFacts ==
    ASSUME state \in [Procs -> {"run", "asleep", "dead"}], NEW S
    PROVE  /\ Woken(S) \in [Procs -> {"run", "asleep", "dead"}]
           /\ \A p \in Procs : Woken(S)[p] = "asleep" <=> state[p] = "asleep" /\ p \notin S
           /\ \A p \in Procs : state[p] # "asleep" => Woken(S)[p] = state[p]
           /\ \A p \in Procs : Woken(S)[p] # state[p] => Woken(S)[p] = "run"
BY DEF Woken

\* A step that changes no word, wakes some sleepers and leaves the others and
\* those about to wake them as they are.
LEMMA CalmFutex ==
    ASSUME FutexInv, FutexShape', word' = word,
           \A p \in Procs : state'[p] = "asleep" =>
               /\ state[p] = "asleep"
               /\ call'[p].key = call[p].key /\ call'[p].val = call[p].val,
           \A p \in Procs : call[p] \in StoredCalls => call'[p] = call[p]
    PROVE  FutexInv'
<1>1. NobodyStale
  BY StaleFacts, Zenon DEF FutexInv
<1>2. NobodyStale'
  <2>1. \A k : Storer(k) => \E q \in Procs :
          call'[q] \in StoredCalls /\ futex_key(q, call'[q].word) = k
    BY Zenon DEF Storer
  <2>2. \A p \in Procs : state'[p] = "asleep" =>
          \/ word[call'[p].key] = call'[p].val
          \/ \E q \in Procs : call'[q] \in StoredCalls /\ futex_key(q, call'[q].word) = call'[p].key
    <3> SUFFICES ASSUME NEW p \in Procs, state'[p] = "asleep", word[call'[p].key] # call'[p].val
                 PROVE  \E q \in Procs : /\ call'[q] \in StoredCalls
                                         /\ futex_key(q, call'[q].word) = call'[p].key
      BY Zenon
    <3>1. Storer(call[p].key) /\ call'[p].key = call[p].key
      BY <1>1 DEF NobodyStale
    <3>2. QED
      BY <2>1, <3>1
  <2>3. QED
    BY <2>2, Zenon DEF NobodyStale, Storer, futex_key
<1>3. NoStaleSleeper'
  BY <1>2, StaleNext, Zenon
<1>4. OneJoiner'
  BY DEF FutexInv, OneJoiner
<1>5. QED
  BY <1>3, <1>4, Zenon DEF FutexInv

\* FUTEX_WAIT: the word has the value as the thread goes to sleep.
LEMMA WaitFutex ==
    ASSUME FutexConstants, FutexInv, NEW p \in Procs, NEW w \in AllWords, NEW val \in {0, 1},
           do_futex_WAIT(p, w, val)
    PROVE  FutexInv'
<1> DEFINE k == futex_key(p, w)
           c == [op |-> "wait", key |-> k, val |-> val, time |-> IF Timeouts THEN "later" ELSE "never"]
<1>1. /\ state[p] = "run" /\ call[p] = NoCall /\ word[k] = val /\ word' = word
      /\ state' = [state EXCEPT ![p] = "asleep"] /\ call' = [call EXCEPT ![p] = c]
      /\ w = Tid => \A q \in Asleep("wait") : call[q].key # k
  BY Zenon DEF do_futex_WAIT, Idle, SleepsIn
<1>2. k \in FutexKeys /\ k[2] = w
  BY KeyFacts, Zenon
<1>3. c \in WaitCalls /\ c.key = k /\ c.val = val /\ c \notin StoredCalls
  BY <1>2 DEF WaitCalls, StoredCalls
<1> HIDE DEF k, c
<1>4. FutexShape
  BY Zenon DEF FutexInv
<1>5. /\ state' \in [Procs -> {"run", "asleep", "dead"}] /\ state'[p] = "asleep"
      /\ \A q \in Procs \ {p} : state'[q] = state[q] /\ call'[q] = call[q]
      /\ call'[p] = c
      /\ call' \in [Procs -> {NoCall} \cup WaitCalls \cup StoredCalls]
  BY <1>1, <1>3, <1>4 DEF FutexShape
<1>6. FutexShape'
  BY <1>1, <1>3, <1>4, <1>5 DEF FutexShape
<1>7. NobodyStale
  BY <1>4, StaleFacts, Zenon DEF FutexInv
<1>8. call[p] \notin StoredCalls
  BY <1>1, <1>4, OpFacts, Zenon
<1>9. \A x \in Procs : state'[x] = "asleep" =>
        \/ word'[call'[x].key] = call'[x].val
        \/ \E q \in Procs : call'[q] \in StoredCalls /\ futex_key(q, call'[q].word) = call'[x].key
  BY <1>1, <1>3, <1>5, <1>7, <1>8 DEF NobodyStale, Storer
<1>10. NoStaleSleeper'
  BY <1>6, <1>9, StaleNext, Zenon DEF NobodyStale, Storer, futex_key
<1>11. \A q \in Procs : state[q] = "asleep" /\ w = Tid => call[q].key # k
  BY <1>1, <1>4, OpFacts, Zenon
<1>12. OneJoiner'
  BY <1>1, <1>2, <1>3, <1>5, <1>11 DEF FutexInv, OneJoiner
<1>13. QED
  BY <1>6, <1>10, <1>12, Zenon DEF FutexInv

\* The wait ends, or is interrupted, or its deadline passes.
LEMMA ResumeFutex ==
    ASSUME FutexInv, NEW p \in Procs, Resume(p) \/ Signal(p) \/ Expire(p)
    PROVE  FutexInv'
<1>1. FutexShape
  BY Zenon DEF FutexInv
<1>2. word' = word /\ call[p] \in WaitCalls
  <2>1. CASE Resume(p) \/ Signal(p)
    BY <1>1, <2>1, OpFacts, Zenon DEF Resume, Signal, kill
  <2>2. CASE Expire(p)
    <3>1. call[p] # NoCall /\ call[p].time = "later" /\ word' = word
      BY <2>2, Zenon DEF Expire, Tick
    <3>2. call[p] \notin StoredCalls
      BY <3>1, <1>1, OpFacts
    <3>3. QED
      BY <3>1, <3>2, <1>1, Zenon DEF FutexShape
  <2>3. QED
    BY <2>1, <2>2
<1>3. PICK S : state' = Woken(S) /\ (p \in S \/ state[p] # "asleep")
  <2>1. CASE Resume(p)
    <3>1. state' = Woken({}) /\ state[p] # "asleep"
      BY <2>1, <1>1 DEF Resume, Woken, FutexShape
    <3>2. QED
      BY <3>1
  <2>2. CASE Signal(p) \/ Expire(p)
    BY <2>2, Zenon DEF Signal, Expire, kill, Tick
  <2>3. QED
    BY <2>1, <2>2
<1>4. call'[p] \in {NoCall} \cup WaitCalls /\ call' = [call EXCEPT ![p] = call'[p]]
  <2>1. CASE Resume(p)
    BY <2>1, <1>1 DEF Resume, Returns, FutexShape
  <2>2. CASE Signal(p)
    BY <2>2, <1>1, <1>2 DEF Signal, kill, FutexShape
  <2>3. CASE Expire(p)
    <3>1. call' = [call EXCEPT ![p].time = "past"]
      BY <2>3, Zenon DEF Expire, Tick
    <3>2. [call[p] EXCEPT !.time = "past"] \in WaitCalls
      BY <1>2 DEF WaitCalls
    <3>3. QED
      BY <3>1, <3>2, <1>1 DEF FutexShape
  <2>4. QED
    BY <2>1, <2>2, <2>3
<1>5. /\ state' \in [Procs -> {"run", "asleep", "dead"}]
      /\ \A q \in Procs : state'[q] = "asleep" => state[q] = "asleep" /\ q # p
      /\ \A q \in Procs : state[q] # "asleep" => state'[q] = state[q]
  <2>1. state \in [Procs -> {"run", "asleep", "dead"}]
    BY <1>1, Zenon DEF FutexShape
  <2>2. /\ Woken(S) \in [Procs -> {"run", "asleep", "dead"}]
        /\ \A q \in Procs : Woken(S)[q] = "asleep" <=> state[q] = "asleep" /\ q \notin S
        /\ \A q \in Procs : state[q] # "asleep" => Woken(S)[q] = state[q]
    BY <2>1, WokenFacts, Zenon
  <2>3. QED
    BY <1>3, <2>2
<1>6. \A q \in Procs \ {p} : call'[q] = call[q]
  BY <1>1, <1>4 DEF FutexShape
<1>7. call' \in [Procs -> {NoCall} \cup WaitCalls \cup StoredCalls]
  BY <1>1, <1>4 DEF FutexShape
<1>8. /\ call'[p] \notin StoredCalls /\ call[p] \notin StoredCalls
  BY <1>1, <1>2, <1>4 DEF WaitCalls, StoredCalls, NoCall
<1>9. \A q \in Procs : state[q] = "asleep" => call[q] \in WaitCalls /\ call[q] \notin StoredCalls
  BY <1>1, OpFacts, Zenon DEF FutexShape
<1>10. FutexShape'
  <2>1. \A q \in Procs : state'[q] = "asleep" => call'[q] \in WaitCalls
    BY <1>5, <1>6, <1>9, Zenon
  <2>2. \A q \in Procs : call'[q] \in StoredCalls => state'[q] = "run"
    BY <1>1, <1>5, <1>6, <1>8, <1>9, Zenon DEF FutexShape
  <2>3. QED
    BY <1>1, <1>2, <1>5, <1>7, <2>1, <2>2 DEF FutexShape
<1>11. QED
  BY <1>2, <1>5, <1>6, <1>8, <1>10, CalmFutex

\* The store: whoever sleeps for the old value has the one to wake it.
LEMMA StoreFutex ==
    ASSUME FutexConstants, FutexInv, NEW p \in Procs, NEW w \in Words \cup Shared, Store(p, w)
    PROVE  FutexInv'
<1> DEFINE k == futex_key(p, w)
           c == [op |-> "stored", word |-> w, time |-> "never"]
<1>1. /\ state[p] = "run" /\ call[p] = NoCall /\ state' = state
      /\ word' = [word EXCEPT ![k] = 1 - word[k]] /\ call' = [call EXCEPT ![p] = c]
  BY Zenon DEF Store, Idle
<1>2. k \in FutexKeys
  BY KeyFacts, Zenon
<1>3. c \in StoredCalls /\ c \notin WaitCalls /\ futex_key(p, c.word) = k
  BY DEF WaitCalls, StoredCalls
<1> HIDE DEF k, c
<1>4. FutexShape
  BY Zenon DEF FutexInv
<1>5. /\ \A q \in Procs \ {p} : call'[q] = call[q]
      /\ call'[p] = c
      /\ call' \in [Procs -> {NoCall} \cup WaitCalls \cup StoredCalls]
  BY <1>1, <1>3, <1>4 DEF FutexShape
<1>6. /\ word' \in [FutexKeys -> {0, 1}]
      /\ \A j \in FutexKeys \ {k} : word'[j] = word[j]
  BY <1>1, <1>2, <1>4 DEF FutexShape
<1>7. FutexShape'
  BY <1>1, <1>3, <1>4, <1>5, <1>6 DEF FutexShape
<1>8. NobodyStale /\ call[p] \notin StoredCalls
  BY <1>1, <1>4, StaleFacts, OpFacts, Zenon DEF FutexInv
<1>9. \A x \in Procs : state'[x] = "asleep" =>
        \/ word'[call'[x].key] = call'[x].val
        \/ \E q \in Procs : call'[q] \in StoredCalls /\ futex_key(q, call'[q].word) = call'[x].key
  <2> SUFFICES ASSUME NEW x \in Procs, state[x] = "asleep", word'[call[x].key] # call[x].val
               PROVE  \E q \in Procs : call'[q] \in StoredCalls /\ futex_key(q, call'[q].word) = call[x].key
    BY <1>1, <1>5
  <2>1. CASE call[x].key = k
    BY <2>1, <1>3, <1>5
  <2>2. CASE call[x].key # k
    <3>1. call[x].key \in FutexKeys
      BY <1>4, OpFacts DEF FutexShape
    <3>2. Storer(call[x].key)
      BY <2>2, <3>1, <1>6, <1>8 DEF NobodyStale
    <3>3. QED
      BY <3>2, <1>5, <1>8 DEF Storer
  <2>3. QED
    BY <2>1, <2>2
<1>10. NoStaleSleeper'
  BY <1>7, <1>9, StaleNext, Zenon DEF NobodyStale, Storer, futex_key
<1>11. OneJoiner'
  BY <1>1, <1>5 DEF FutexInv, OneJoiner
<1>12. QED
  BY <1>7, <1>10, <1>11, Zenon DEF FutexInv

\* FUTEX_WAKE: nobody sleeps on the word any more.
LEMMA WakeFutex ==
    ASSUME FutexConstants, FutexInv, NEW p \in Procs, do_futex_WAKE(p)
    PROVE  FutexInv'
<1> DEFINE k == futex_key(p, call[p].word)
<1>1. /\ state[p] = "run" /\ call[p].op = "stored" /\ word' = word
      /\ state' = Woken(wake_futex(k, Cardinality(Procs))) /\ call' = [call EXCEPT ![p] = NoCall]
  BY Zenon DEF do_futex_WAKE, Returns
<1>2. wake_futex(k, Cardinality(Procs)) = WaitersOn(k)
  BY WakeAll, Zenon
<1> HIDE DEF k
<1>3. FutexShape
  BY Zenon DEF FutexInv
<1>4. /\ \A q \in Procs \ {p} : call'[q] = call[q]
      /\ call'[p] = NoCall
      /\ call' \in [Procs -> {NoCall} \cup WaitCalls \cup StoredCalls]
  BY <1>1, <1>3 DEF FutexShape
<1>5. /\ state' \in [Procs -> {"run", "asleep", "dead"}]
      /\ \A q \in Procs : state'[q] = "asleep" => state[q] = "asleep" /\ call[q].key # k /\ q # p
      /\ \A q \in Procs : state[q] # "asleep" => state'[q] = state[q]
  <2>1. state \in [Procs -> {"run", "asleep", "dead"}]
    BY <1>3, Zenon DEF FutexShape
  <2>2. /\ Woken(WaitersOn(k)) \in [Procs -> {"run", "asleep", "dead"}]
        /\ \A q \in Procs : Woken(WaitersOn(k))[q] = "asleep" <=> state[q] = "asleep" /\ q \notin WaitersOn(k)
        /\ \A q \in Procs : state[q] # "asleep" => Woken(WaitersOn(k))[q] = state[q]
    BY <2>1, WokenFacts, Zenon
  <2>3. \A q \in Procs : state[q] = "asleep" => (q \in WaitersOn(k) <=> call[q].key = k)
    BY <1>3, OpFacts, Zenon DEF WaitersOn
  <2>4. QED
    BY <1>1, <1>2, <2>2, <2>3
<1>6. NoCall \notin StoredCalls /\ \A q \in Procs : state[q] = "asleep" => call[q] \notin StoredCalls
  BY <1>3, OpFacts, Zenon DEF FutexShape
<1>7. FutexShape'
  BY <1>1, <1>3, <1>4, <1>5, <1>6 DEF FutexShape
<1>8. NobodyStale
  BY <1>3, StaleFacts, Zenon DEF FutexInv
<1>9. \A x \in Procs : state'[x] = "asleep" =>
        \/ word'[call'[x].key] = call'[x].val
        \/ \E q \in Procs : call'[q] \in StoredCalls /\ futex_key(q, call'[q].word) = call'[x].key
  BY <1>1, <1>4, <1>5, <1>8 DEF NobodyStale, Storer, k
<1>10. NoStaleSleeper'
  BY <1>7, <1>9, StaleNext, Zenon DEF NobodyStale, Storer, futex_key
<1>11. OneJoiner'
  BY <1>4, <1>5 DEF FutexInv, OneJoiner
<1>12. QED
  BY <1>7, <1>10, <1>11, Zenon DEF FutexInv

\* FUTEX_CMP_REQUEUE: a moved waiter sleeps for the value its new word has.
LEMMA RequeueFutex ==
    ASSUME FutexConstants, FutexInv, NEW p \in Procs, NEW w \in Words, NEW w2 \in Words,
           NEW nr_wake, NEW nr_requeue, do_futex_requeue(p, w, w2, nr_wake, nr_requeue)
    PROVE  FutexInv'
<1> DEFINE k == <<tgid[p], w>>
           k2 == <<tgid[p], w2>>
           woken == wake_futex(k, nr_wake)
           moved == LowestOf(WaitersOn(k) \ woken, nr_requeue)
<1>1. /\ word' = word /\ state' = Woken(woken)
      /\ call' = [q \in Procs |-> IF q \in moved
                    THEN [call[q] EXCEPT !.key = k2, !.val = word[k2]] ELSE call[q]]
  BY Zenon DEF do_futex_requeue
<1>2. k2 \in FutexKeys /\ k2[2] # Tid
  <2>1. w2 \in AllWords
    BY KeyFacts, Zenon
  <2>2. k2 = futex_key(p, w2) /\ futex_key(p, w2) \in FutexKeys /\ futex_key(p, w2)[2] = w2 /\ w2 # Tid
    BY <2>1, KeyFacts, Zenon
  <2>3. QED
    BY <2>2
<1>3. \A q \in moved : q \in Procs /\ state[q] = "asleep"
  BY DEF LowestOf, WaitersOn, Asleep
<1> HIDE DEF k, k2, woken, moved
<1>4. FutexShape
  BY Zenon DEF FutexInv
<1>5. word[k2] \in {0, 1}
  BY <1>2, <1>4 DEF FutexShape
<1>6. \A q \in moved : call'[q] \in WaitCalls /\ call'[q].key = k2 /\ call'[q].val = word[k2]
  <2> TAKE q \in moved
  <2>1. q \in Procs /\ call[q] \in WaitCalls
    BY <1>3, <1>4, Zenon DEF FutexShape
  <2>2. call'[q] = [call[q] EXCEPT !.key = k2, !.val = word[k2]]
    BY <1>1, <2>1, Zenon
  <2>3. QED
    BY <1>2, <1>5, <2>1, <2>2, ZenonT(40) DEF WaitCalls
<1>7. \A q \in Procs \ moved : call'[q] = call[q]
  BY <1>1, ZenonT(40)
<1>8. call' \in [Procs -> {NoCall} \cup WaitCalls \cup StoredCalls]
  BY <1>1, <1>4, <1>6, <1>7, ZenonT(40) DEF FutexShape
<1>9. /\ state' \in [Procs -> {"run", "asleep", "dead"}]
      /\ \A q \in Procs : state'[q] = "asleep" => state[q] = "asleep"
      /\ \A q \in Procs : state[q] # "asleep" => state'[q] = state[q]
  <2>1. state \in [Procs -> {"run", "asleep", "dead"}]
    BY <1>4, Zenon DEF FutexShape
  <2>2. /\ Woken(woken) \in [Procs -> {"run", "asleep", "dead"}]
        /\ \A q \in Procs : Woken(woken)[q] = "asleep" => state[q] = "asleep"
        /\ \A q \in Procs : state[q] # "asleep" => Woken(woken)[q] = state[q]
    BY <2>1, WokenFacts, Zenon
  <2>3. QED
    BY <1>1, <2>2, Zenon
<1>10. \A q \in Procs : call'[q] \in StoredCalls <=> call[q] \in StoredCalls
  <2>1. \A q \in moved : call'[q] \notin StoredCalls
    BY <1>6 DEF WaitCalls, StoredCalls
  <2>2. \A q \in moved : call[q] \notin StoredCalls
    BY <1>3, <1>4, OpFacts, Zenon DEF FutexShape
  <2>3. QED
    BY <1>7, <2>1, <2>2
<1>11. \A q \in Procs : call[q] \in StoredCalls => call'[q] = call[q]
  BY <1>3, <1>4, <1>7, OpFacts, ZenonT(40) DEF FutexShape
<1>12. FutexShape'
  <2>1. \A q \in Procs : state'[q] = "asleep" => call'[q] \in WaitCalls
    BY <1>4, <1>6, <1>7, <1>9 DEF FutexShape
  <2>2. \A q \in Procs : call'[q] \in StoredCalls => state'[q] = "run"
    BY <1>4, <1>9, <1>10 DEF FutexShape
  <2>3. QED
    BY <1>1, <1>4, <1>8, <1>9, <2>1, <2>2, Zenon DEF FutexShape
<1>13. NobodyStale
  BY <1>4, StaleFacts, Zenon DEF FutexInv
<1>14. \A x \in Procs : state'[x] = "asleep" =>
        \/ word'[call'[x].key] = call'[x].val
        \/ \E q \in Procs : call'[q] \in StoredCalls /\ futex_key(q, call'[q].word) = call'[x].key
  <2> SUFFICES ASSUME NEW x \in Procs, state[x] = "asleep", word[call'[x].key] # call'[x].val
               PROVE  \E q \in Procs : call'[q] \in StoredCalls /\ futex_key(q, call'[q].word) = call'[x].key
    BY <1>1, <1>9, Zenon
  <2>1. x \notin moved /\ call'[x] = call[x]
    BY <1>6, <1>7
  <2>2. Storer(call[x].key)
    BY <2>1, <1>13 DEF NobodyStale
  <2>3. QED
    BY <2>1, <2>2, <1>11, SMTT(30) DEF Storer
<1>15. NoStaleSleeper'
  BY <1>12, <1>14, StaleNext, Zenon DEF NobodyStale, Storer, futex_key
<1>16. OneJoiner'
  BY <1>2, <1>6, <1>7, <1>9 DEF FutexInv, OneJoiner
<1>17. QED
  BY <1>12, <1>15, <1>16, Zenon DEF FutexInv

\* The exit of a thread: its one joiner is woken.
LEMMA ExitFutex ==
    ASSUME FutexConstants, FutexInv, NEW p \in Procs, terminate_process(p)
    PROVE  FutexInv'
<1> DEFINE k == futex_key(p, Tid)
           S == wake_futex(k, 1) \ {p}
<1>1. /\ call[p].op \in {"none", "wait"}
      /\ word' = [word EXCEPT ![k] = 0]
      /\ state' = [Woken(S) EXCEPT ![p] = "dead"] /\ call' = [call EXCEPT ![p] = NoCall]
  BY Zenon DEF terminate_process
<1>2. k \in FutexKeys /\ k[2] = Tid
  BY KeyFacts, Zenon
<1>3. FutexShape /\ OneJoiner
  BY Zenon DEF FutexInv
<1>4. \A x \in Procs \ {p} : state[x] = "asleep" /\ call[x].key = k => x \in S
  <2> SUFFICES ASSUME NEW x \in Procs \ {p}, state[x] = "asleep", call[x].key = k
               PROVE  x \in wake_futex(k, 1)
    BY Zenon
  <2>1. \A q \in Procs : state[q] = "asleep" /\ call[q].key = k => q = x
    BY <1>2, <1>3 DEF OneJoiner
  <2>2. QED
    BY <1>3, <2>1, WakeOne
<1> HIDE DEF k, S
<1>5. /\ \A q \in Procs \ {p} : call'[q] = call[q]
      /\ call'[p] = NoCall
      /\ call' \in [Procs -> {NoCall} \cup WaitCalls \cup StoredCalls]
  BY <1>1, <1>3 DEF FutexShape
<1>6. /\ word' \in [FutexKeys -> {0, 1}]
      /\ \A j \in FutexKeys \ {k} : word'[j] = word[j]
  BY <1>1, <1>2, <1>3 DEF FutexShape
<1>7. /\ state' \in [Procs -> {"run", "asleep", "dead"}]
      /\ \A q \in Procs : state'[q] = "asleep" => q # p /\ state[q] = "asleep" /\ q \notin S
      /\ \A q \in Procs \ {p} : state[q] # "asleep" => state'[q] = state[q]
  <2>1. state \in [Procs -> {"run", "asleep", "dead"}]
    BY <1>3, Zenon DEF FutexShape
  <2>2. /\ Woken(S) \in [Procs -> {"run", "asleep", "dead"}]
        /\ \A q \in Procs : Woken(S)[q] = "asleep" <=> state[q] = "asleep" /\ q \notin S
        /\ \A q \in Procs : state[q] # "asleep" => Woken(S)[q] = state[q]
    BY <2>1, WokenFacts, Zenon
  <2>3. QED
    BY <1>1, <2>2
<1>8. /\ NoCall \notin StoredCalls /\ call[p] \notin StoredCalls
      /\ \A q \in Procs : state[q] = "asleep" => call[q] \notin StoredCalls /\ call[q].key \in FutexKeys
  BY <1>1, <1>3, OpFacts DEF FutexShape
<1>9. FutexShape'
  BY <1>3, <1>5, <1>6, <1>7, <1>8 DEF FutexShape
<1>10. NobodyStale
  BY <1>3, StaleFacts, Zenon DEF FutexInv
<1>11. \A x \in Procs : state'[x] = "asleep" =>
        \/ word'[call'[x].key] = call'[x].val
        \/ \E q \in Procs : call'[q] \in StoredCalls /\ futex_key(q, call'[q].word) = call'[x].key
  <2> SUFFICES ASSUME NEW x \in Procs, state'[x] = "asleep", word'[call'[x].key] # call'[x].val
               PROVE  \E q \in Procs : call'[q] \in StoredCalls /\ futex_key(q, call'[q].word) = call'[x].key
    BY Zenon
  <2>1. x # p /\ state[x] = "asleep" /\ call'[x] = call[x] /\ call[x].key # k
    BY <1>4, <1>5, <1>7
  <2>2. Storer(call[x].key)
    BY <2>1, <1>6, <1>8, <1>10 DEF NobodyStale
  <2>3. QED
    BY <2>1, <2>2, <1>5, <1>8 DEF Storer
<1>12. NoStaleSleeper'
  BY <1>9, <1>11, StaleNext, Zenon DEF NobodyStale, Storer, futex_key
<1>13. OneJoiner'
  BY <1>3, <1>5, <1>7 DEF OneJoiner
<1>14. QED
  BY <1>9, <1>12, <1>13, Zenon DEF FutexInv

\* Every step preserves the invariant.
LEMMA FutexStep ==
    ASSUME FutexConstants, FutexInv, [Next]_vars
    PROVE  FutexInv'
<1>1. ASSUME NEW p \in Procs, NEW w \in Words, NEW w2 \in Words, NEW i \in {0, 1}, NEW j \in {1, 2},
             do_futex_requeue(p, w, w2, i, j)
      PROVE  FutexInv'
  BY <1>1, RequeueFutex, Zenon
<1>2. ASSUME NEW p \in Procs, NEW w \in AllWords, NEW val \in {0, 1}, do_futex_WAIT(p, w, val)
      PROVE  FutexInv'
  BY <1>2, WaitFutex, Zenon
<1>3. ASSUME NEW p \in Procs, Resume(p) \/ Signal(p) \/ Expire(p) PROVE FutexInv'
  BY <1>3, ResumeFutex, Zenon
<1>4. ASSUME NEW p \in Procs, do_futex_WAKE(p) PROVE FutexInv'
  BY <1>4, WakeFutex, Zenon
<1>5. ASSUME NEW p \in Procs, terminate_process(p) PROVE FutexInv'
  BY <1>5, ExitFutex, Zenon
<1>6. ASSUME NEW p \in Procs, NEW w \in Words \cup Shared, Store(p, w) PROVE FutexInv'
  BY <1>6, StoreFutex, Zenon
<1>7. CASE UNCHANGED vars
  BY <1>7 DEF vars, sleepers, FutexInv, FutexShape, OneJoiner, NoStaleSleeper, Asleep
<1>8. CASE Next
  <2>1. PICK p \in Procs :
          \/ \E w \in AllWords, val \in {0, 1} : do_futex_WAIT(p, w, val)
          \/ Resume(p) \/ do_futex_WAKE(p) \/ terminate_process(p)
          \/ \E w \in Words \cup Shared : Store(p, w)
          \/ \E w, w2 \in Words, i \in {0, 1}, j \in {1, 2} : do_futex_requeue(p, w, w2, i, j)
          \/ Signal(p) \/ Expire(p)
    BY <1>8, SMT DEF Next
  <2>2. QED
    BY <1>1, <1>2, <1>3, <1>4, <1>5, <1>6, <2>1, Zenon
<1>9. QED
  BY <1>7, <1>8

\* Nobody sleeps in FUTEX_WAIT for a value its word no longer has, unless the
\* thread that changed the word is about to wake it: for any threads, groups
\* and words, with requeues, signals, deadlines and exits at any time.
THEOREM NoStaleSleeperAlways ==
    ASSUME FutexConstants
    PROVE  Spec => []NoStaleSleeper
<1>1. Init => FutexInv
  <2> SUFFICES ASSUME Init PROVE FutexInv
    OBVIOUS
  <2>1. \A p \in Procs : state[p] = "run" /\ call[p] = NoCall
    BY DEF Init, SleepersInit
  <2>2. word \in [FutexKeys -> {0, 1}] /\ call \in [Procs -> {NoCall}]
        /\ state \in [Procs -> {"run", "asleep", "dead"}]
    BY DEF Init, SleepersInit
  <2>3. FutexShape
    BY <2>1, <2>2 DEF FutexShape
  <2>4. QED
    BY <2>1, <2>3 DEF FutexInv, OneJoiner, NoStaleSleeper, Asleep
<1>2. FutexInv /\ [Next]_vars => FutexInv'
  BY FutexStep, Zenon
<1>3. FutexInv => NoStaleSleeper
  BY Zenon DEF FutexInv
<1>4. QED
  BY <1>1, <1>2, <1>3, PTL DEF Spec
=============================================================================
