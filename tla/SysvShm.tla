------------------------------- MODULE SysvShm ------------------------------
(***************************************************************************)
(* System V shared memory (sys/fs/sysv_shm.rs): segments found by a key,   *)
(* the attachments of each address space, inherited by fork and dropped at *)
(* exit, and removal put off to the last detach.  A segment takes one      *)
(* place of an address space; munmap and mmap of sys/process/mm.rs change  *)
(* what is mapped there and know nothing of the list of attachments.       *)
(***************************************************************************)
EXTENDS Integers, FiniteSets, Sequences, SequencesExt

CONSTANTS
    Spaces, Addrs, Keys,
    MaxId,          \* bound: segments ever made
    MaxAttach,      \* bound: attachments of one space
    FramesRunOut    \* whether map_to may fail for want of a page-table frame

Ids == 1..MaxId
IPC_PRIVATE == "private"
Absent == [key |-> "absent", nattch |-> 0, marked |-> FALSE]

VARIABLES
    keys,       \* KEYS: the segment of each key, 0 for none
    segs,       \* SEGMENTS
    made,       \* NEXT_SHMID - 1
    alive,      \* the spaces of live processes
    map,        \* what each place of each space holds: a segment, 0, or -1 for other memory
    attach      \* VmState.shm_attach: a sequence of [at, id]

vars == <<keys, segs, made, alive, map, attach>>

Live == {i \in Ids : segs[i] # Absent}

-----------------------------------------------------------------------------
do_shmget(key) ==
    /\ made < MaxId
    /\ key \in Keys => keys[key] = 0
    /\ made' = made + 1
    /\ segs' = [segs EXCEPT ![made + 1] = [Absent EXCEPT !.key = key]]
    /\ keys' = IF key \in Keys THEN [keys EXCEPT ![key] = made + 1] ELSE keys
    /\ UNCHANGED <<alive, map, attach>>

\* do_shmat counts the attachment first and gives it back if there is no place
\* for it, but not if the pages cannot be mapped: then the place is taken too.
undo(id) == segs

do_shmat(s, id, a) ==
    /\ s \in alive /\ id \in Live
    /\ \/ map[s][a] # 0 /\ segs' = undo(id) /\ UNCHANGED <<map, attach>>      \* EINVAL, ENOMEM
       \/ /\ map[s][a] = 0 /\ Len(attach[s]) < MaxAttach
          /\ segs' = [segs EXCEPT ![id].nattch = @ + 1]
          /\ map' = [map EXCEPT ![s][a] = id]
          /\ \/ attach' = [attach EXCEPT ![s] = Append(@, [at |-> a, id |-> id])]
             \/ FramesRunOut /\ UNCHANGED attach                              \* ENOMEM
    /\ UNCHANGED <<keys, made, alive>>

\* One attachment fewer for each of ids, in order: the last of a segment that
\* is marked takes the segment with it, and whatever its key now names.
Detached(i, n) ==
    IF segs[i].marked /\ segs[i].nattch <= n THEN Absent
    ELSE [segs[i] EXCEPT !.nattch = IF @ < n THEN 0 ELSE @ - n]

Detach(ids) ==
    LET count(i) == Cardinality({k \in DOMAIN ids : ids[k] = i})
        dropped == {i \in Live : count(i) > 0 /\ Detached(i, count(i)) = Absent}
    IN  /\ segs' = [i \in Ids |-> IF i \in Live /\ count(i) > 0
                                  THEN Detached(i, count(i)) ELSE segs[i]]
        /\ keys' = [k \in Keys |-> IF \E i \in dropped : segs[i].key = k THEN 0 ELSE keys[k]]

\* do_shmdt: the last attachment at the address, and what is mapped there now.
do_shmdt(s, a) ==
    LET at == {k \in DOMAIN attach[s] : attach[s][k].at = a}
        k == CHOOSE i \in at : \A j \in at : j <= i
    IN  /\ s \in alive /\ at # {}
        /\ Detach(<<attach[s][k].id>>)
        /\ attach' = [attach EXCEPT ![s] = RemoveAt(@, k)]
        /\ map' = [map EXCEPT ![s][a] = 0]
        /\ UNCHANGED <<made, alive>>

AttachedIds(s) == [k \in DOMAIN attach[s] |-> attach[s][k].id]

\* The last live user of a space exits or execs: detach_all_for_exit.
detach_all_for_exit(s) == Detach(AttachedIds(s))

Exit(s) ==
    /\ s \in alive
    /\ detach_all_for_exit(s)
    /\ alive' = alive \ {s}
    /\ attach' = [attach EXCEPT ![s] = <<>>]
    /\ map' = [map EXCEPT ![s] = [a \in Addrs |-> 0]]
    /\ UNCHANGED made

\* fork: the child maps the same pages, and inherit_attachments_for_fork counts
\* them.
inherited(s, i) == Cardinality({k \in DOMAIN attach[s] : attach[s][k].id = i})

Fork(s, c) ==
    /\ s \in alive /\ c \notin alive
    /\ alive' = alive \cup {c}
    /\ map' = [map EXCEPT ![c] = map[s]]
    /\ attach' = [attach EXCEPT ![c] = attach[s]]
    /\ segs' = [i \in Ids |-> [segs[i] EXCEPT !.nattch = @ + inherited(s, i)]]
    /\ UNCHANGED <<keys, made>>

shmctl_RMID(id) ==
    /\ id \in Live
    /\ segs' = [segs EXCEPT ![id] = IF @.nattch = 0 THEN Absent ELSE [@ EXCEPT !.marked = TRUE]]
    /\ keys' = [k \in Keys |-> IF k = segs[id].key THEN 0 ELSE keys[k]]
    /\ UNCHANGED <<made, alive, map, attach>>

\* do_munmap and do_mmap at the place a segment is or was.
do_munmap(s, a) ==
    /\ s \in alive /\ map[s][a] # 0
    /\ map' = [map EXCEPT ![s][a] = 0]
    /\ UNCHANGED <<keys, segs, made, alive, attach>>

do_mmap(s, a) ==
    /\ s \in alive /\ map[s][a] = 0
    /\ map' = [map EXCEPT ![s][a] = -1]
    /\ UNCHANGED <<keys, segs, made, alive, attach>>

Init ==
    /\ keys = [k \in Keys |-> 0]
    /\ segs = [i \in Ids |-> Absent]
    /\ made = 0
    /\ \E s \in Spaces : alive = {s}
    /\ map = [s \in Spaces |-> [a \in Addrs |-> 0]]
    /\ attach = [s \in Spaces |-> <<>>]

Next ==
    \/ \E key \in Keys \cup {IPC_PRIVATE} : do_shmget(key)
    \/ \E id \in Ids : shmctl_RMID(id)
    \/ \E s \in Spaces :
         \/ \E a \in Addrs :
              \/ \E id \in Ids : do_shmat(s, id, a)
              \/ do_shmdt(s, a) \/ do_munmap(s, a) \/ do_mmap(s, a)
         \/ \E c \in Spaces : Fork(s, c)
         \/ Exit(s)

Spec == Init /\ [][Next]_vars

-----------------------------------------------------------------------------
\* Type correctness.
TypeOK ==
    /\ keys \in [Keys -> 0..MaxId] /\ made \in 0..MaxId
    /\ segs \in [Ids -> [key : Keys \cup {IPC_PRIVATE, "absent"},
                         nattch : 0..Cardinality(Spaces) * MaxAttach, marked : BOOLEAN]]
    /\ map \in [Spaces -> [Addrs -> {-1, 0} \cup Ids]]
    /\ \A s \in Spaces : \A k \in DOMAIN attach[s] :
         attach[s][k].at \in Addrs /\ attach[s][k].id \in Ids

\* nattch counts the attachments of all spaces, through fork, exec and exit; so
\* an attached segment exists (the expect in do_shmdt), and one that is marked
\* is still attached somewhere.
NattchExact ==
    /\ \A i \in Ids : segs[i].nattch =
         MapThenSumSet(LAMBDA s : Cardinality({k \in DOMAIN attach[s] : attach[s][k].id = i}), Spaces)
    /\ \A s \in Spaces : \A k \in DOMAIN attach[s] : attach[s][k].id \in Live
    /\ \A i \in Live : segs[i].marked => segs[i].nattch > 0

\* A space maps only segments it is attached to: the frames behind a mapping
\* belong to a segment that exists.
MappedIsAttached == \A s \in alive, a \in Addrs : map[s][a] > 0 =>
    \E k \in DOMAIN attach[s] : attach[s][k] = [at |-> a, id |-> map[s][a]]

\* What KEYS names exists (the expect in do_shmget), has that key and is not
\* marked, through every removal, detach and exit of it and of older segments of
\* the same key.  The converse fails: a key can be used again while an old
\* segment of it winds down, and the last detach of the old one then takes the
\* entry of the new one out of KEYS.
KeysLive == \A k \in Keys :
    keys[k] # 0 => keys[k] \in Live /\ segs[keys[k]].key = k /\ ~segs[keys[k]].marked
=============================================================================
