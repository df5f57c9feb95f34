------------------------------ MODULE PageCache -----------------------------
(***************************************************************************)
(* The read-only page cache (sys/memory/pagecache.rs) with those who use   *)
(* it: processes that map a file and fault its pages in, fork and exit,    *)
(* and those that change the file (sys/kern/vnode_if.rs).  A mapping asks  *)
(* the file system for the size and the blocks, and a fill takes a frame;  *)
(* both wait for the file system's lock and, with it, for the disk, and    *)
(* look at the cache again after.  What a file's blocks hold is the number *)
(* of times it was changed.                                                *)
(***************************************************************************)
EXTENDS Naturals, Sequences, FiniteSets, FiniteSetsExt, SequencesExt, TLC

CONSTANTS
    Procs, Files, Pages,
    MaxId,          \* entry ids: MAX_ENTRY_ID
    Frames,         \* frames in the machine that are not in use otherwise
    Limit,          \* frames that unused entries may hold
    MaxChanges,     \* bound on the changes of each file
    Writers,        \* "truncate": under the giant lock throughout; "write": not
    Sized,          \* whether a change changes the file's size
    Forced          \* whether mounts are forcibly unmounted

VARIABLES
    cache,      \* [entry, lru, ids, free, pending]: struct Cache, and the free frames
    disk,       \* disk[f]: what the blocks of f hold
    lock,       \* holder of the file system's lock, 0 if none
    uses,       \* uses[p]: AddressSpace::cached
    map,        \* map[p]: the mapping of p and its leaves
    pc          \* where p sleeps

vars == <<cache, disk, lock, uses, map, pc>>

Ids == 1..MaxId
Unfilled == MaxChanges + 1
Versions == 0..MaxChanges
NoEntry == [file |-> "none"]
NoMap == [file |-> "none"]
Idle == [at |-> "idle"]

by_content(c, f) == {i \in Ids : c.entry[i].file = f /\ c.entry[i].cached}
Held(e) == Cardinality({g \in Pages : e.page[g] # Unfilled})
size(v) == IF Sized THEN v ELSE 0       \* of a file changed v times
Made(c) == {i \in Ids : c.entry[i] # NoEntry}
Unused(c) == {i \in Made(c) : c.entry[i].uses = 0}

-----------------------------------------------------------------------------
\* remove: the entry goes and its id is the next to be reused.  Where its frames
\* go is the caller's.
remove(c, i) == [c EXCEPT !.entry[i] = NoEntry, !.lru = SelectSeq(@, LAMBDA j : j # i),
                          !.ids = Append(@, i)]

\* retire: no longer found; gone, if no address space uses it.
retire(c, i) ==
    IF c.entry[i] = NoEntry THEN c
    ELSE IF c.entry[i].uses = 0
         THEN [remove(c, i) EXCEPT !.pending = @ + Held(c.entry[i])]
         ELSE [c EXCEPT !.entry[i].cached = FALSE]

\* collect: while unused entries hold more than the limit, the least recently
\* used goes; then the queued frames are given back.
oldest(c) == c.lru[Min({k \in DOMAIN c.lru : c.lru[k] \in Unused(c)})]
HeldUnused(c) == MapThenSumSet(LAMBDA i : Held(c.entry[i]), Unused(c))
Evict1(c) == IF HeldUnused(c) <= Limit THEN c ELSE retire(c, oldest(c))
collect(c) ==
    LET d == FoldLeft(LAMBDA x, i : Evict1(x), c, c.lru)
    IN  [d EXCEPT !.free = @ + d.pending, !.pending = 0]

\* allocate_frame, when none is free: reclaim gives the queued frames, else those
\* of the least recently used entry nobody uses, an entry at a time.
Reclaim1(c) ==
    IF c.free > 0 THEN c
    ELSE IF c.pending > 0 THEN [c EXCEPT !.free = c.pending, !.pending = 0]
    ELSE IF Unused(c) = {} THEN c
    ELSE [remove(c, oldest(c)) EXCEPT !.free = Held(c.entry[oldest(c)])]
reclaim(c) == FoldLeft(LAMBDA x, i : Reclaim1(x), Reclaim1(c), c.lru)

\* entry_for, once it knows the file's size: current is the entry to be found, if
\* it is one for that size; else one for another is retired, and a new one made.
touch(c, i) == [c EXCEPT !.lru = Append(SelectSeq(@, LAMBDA j : j # i), i)]
current(c, f) == {i \in by_content(c, f) : size(c.entry[i].made) = size(disk[f])}

\* quiet (only the properties look at it): nobody was changing the file.
Changers(f) == {p \in Procs : pc[p] # Idle /\ pc[p].file = f /\ pc[p].why \in Writers}
entry_for(c, f) ==
    LET i == Last(c.ids)
    IN  [c EXCEPT !.ids = Front(@), !.lru = Append(@, i),
                  !.entry[i] = [file |-> f, made |-> disk[f], page |-> [g \in Pages |-> Unfilled],
                                stale |-> FALSE, uses |-> 0, cached |-> TRUE, quiet |-> Changers(f) = {}]]

use_entry(c, i) == IF c.entry[i] = NoEntry THEN c ELSE [c EXCEPT !.entry[i].uses = @ + 1]

\* release_all: unuse_entry for each, and retire those that left the cache.
unuse_entry_MUT(c, i) ==
    IF c.entry[i] = NoEntry \/ c.entry[i].uses = 0 THEN c ELSE [c EXCEPT !.entry[i].uses = @ - 1]
unuse_entry(c, i) ==
    IF c.entry[i] = NoEntry THEN c
    ELSE LET d == IF c.entry[i].uses = 0 THEN c ELSE [c EXCEPT !.entry[i].uses = @ - 1]
         IN  IF d.entry[i].uses = 0 /\ ~d.entry[i].cached THEN retire(d, i) ELSE d

-----------------------------------------------------------------------------
\* mmap or exec of a file with a block map: its pages are filled when touched.
\* entry_for enters the file system for the size (content_size) and, if there is
\* no entry for it, several times for the blocks (content_block_map).  Each time it
\* may sleep for the disk with the lock; it never sleeps without it once it has had
\* it, so nobody else gets it in between.
Map(p, f) ==
    /\ pc[p] = Idle /\ map[p] = NoMap
    /\ pc' = [pc EXCEPT ![p] = [at |-> IF lock = 0 THEN "size" ELSE "lookup", file |-> f, why |-> "map"]]
    /\ lock' = IF lock = 0 THEN p ELSE lock
    /\ UNCHANGED <<cache, disk, uses, map>>

\* The entry i of c is used by p, and mapped.
UseMapped(p, c, i) ==
    /\ cache' = IF i \in uses[p] THEN c ELSE use_entry(c, i)
    /\ uses' = [uses EXCEPT ![p] = @ \cup {i}]
    /\ map' = [map EXCEPT ![p] = [file |-> pc[p].file, id |-> i, page |-> [g \in Pages |-> Unfilled]]]

Sizes(p) ==
    LET f == pc[p].file IN
    /\ pc[p].at = "size"
    /\ \/ \E i \in current(cache, f) :
            UseMapped(p, touch(cache, i), i) /\ lock' = 0 /\ pc' = [pc EXCEPT ![p] = Idle]
       \/ /\ current(cache, f) = {}
          /\ pc' = [pc EXCEPT ![p].at = "blocks"]
          /\ UNCHANGED <<cache, lock, uses, map>>
    /\ UNCHANGED disk

\* Without an id to be had the pages are copied, and no entry is used.
Blocks(p) ==
    LET f == pc[p].file
        c == FoldSet(LAMBDA j, x : retire(x, j), cache, by_content(cache, f))
    IN  /\ pc[p].at = "blocks"
        /\ \/ \E i \in current(cache, f) : UseMapped(p, touch(cache, i), i)
           \/ current(cache, f) = {} /\ c.ids # <<>> /\ UseMapped(p, entry_for(c, f), Last(c.ids))
           \/ current(cache, f) = {} /\ c.ids = <<>> /\ cache' = c /\ UNCHANGED <<uses, map>>
        /\ lock' = 0 /\ pc' = [pc EXCEPT ![p] = Idle]
        /\ UNCHANGED disk

do_munmap(p) ==
    /\ pc[p] = Idle /\ map[p] # NoMap
    /\ map' = [map EXCEPT ![p] = NoMap]
    /\ UNCHANGED <<cache, disk, lock, uses, pc>>

\* fork_uses, and leaves that are the same.
Fork(p, q) ==
    /\ pc[p] = Idle /\ pc[q] = Idle /\ uses[p] # {} /\ uses[q] = {} /\ map[q] = NoMap
    /\ cache' = FoldSet(LAMBDA i, c : use_entry(c, i), cache, uses[p])
    /\ uses' = [uses EXCEPT ![q] = uses[p]]
    /\ map' = [map EXCEPT ![q] = map[p]]
    /\ UNCHANGED <<disk, lock, pc>>

\* teardown: release_all.
Exit(p) ==
    /\ pc[p] = Idle /\ uses[p] # {}
    /\ cache' = collect(FoldSet(LAMBDA i, c : unuse_entry(c, i), cache, uses[p]))
    /\ uses' = [uses EXCEPT ![p] = {}]
    /\ map' = [map EXCEPT ![p] = NoMap]
    /\ UNCHANGED <<disk, lock, pc>>

-----------------------------------------------------------------------------
\* fill, up to the first place it sleeps: the frame is taken, and the lock is
\* waited for, or, if it is free or its own, the disk.
FillAt(p, i, g, why, rest) ==
    /\ pc' = [pc EXCEPT ![p] = [at |-> IF lock \in {0, p} THEN "read" ELSE "wait", id |-> i, page |-> g,
                                file |-> cache.entry[i].file, why |-> why, rest |-> rest]]
    /\ lock' = IF lock \in {0, p} THEN p ELSE lock
Fillable(c, i, g) == c.entry[i] # NoEntry /\ c.entry[i].page[g] = Unfilled /\ ~c.entry[i].stale

\* fill, once the page is read: published, unless another was faster or the entry
\* is gone.
Publish(c, i, g, v) ==
    IF c.entry[i] # NoEntry /\ c.entry[i].page[g] = Unfilled THEN [c EXCEPT !.entry[i].page[g] = v]
    ELSE [c EXCEPT !.pending = @ + 1]

\* try_fill_file_page of a page that is in memory: it is mapped.
FaultHit(p, g) ==
    /\ pc[p] = Idle /\ map[p] # NoMap /\ map[p].page[g] = Unfilled
    /\ cache.entry[map[p].id] # NoEntry /\ cache.entry[map[p].id].page[g] # Unfilled
    /\ map' = [map EXCEPT ![p].page[g] = cache.entry[map[p].id].page[g]]
    /\ UNCHANGED <<cache, disk, lock, uses, pc>>

\* One that is not is read; with no frame to be had the fault fails.
FaultMiss(p, g) ==
    LET i == map[p].id
        c == reclaim(cache)
    IN  /\ pc[p] = Idle /\ map[p] # NoMap /\ map[p].page[g] = Unfilled
        /\ Fillable(cache, i, g)
        /\ \/ /\ c.free > 0
              /\ cache' = [c EXCEPT !.free = @ - 1]
              /\ FillAt(p, i, g, "fault", Idle)
           \/ /\ c.free = 0 /\ cache' = c /\ cache' # cache /\ UNCHANGED <<pc, lock>>
        /\ UNCHANGED <<disk, uses, map>>

\* A fault in a copy routine waits for nobody.
KernelFault(p, g) ==
    LET i == map[p].id
        c == reclaim(cache)
    IN  /\ pc[p] = Idle /\ map[p] # NoMap /\ map[p].page[g] = Unfilled
        /\ Fillable(cache, i, g) /\ lock = 0 /\ c.free > 0
        /\ cache' = Publish([c EXCEPT !.free = @ - 1], i, g, disk[map[p].file])
        /\ map' = [map EXCEPT ![p].page[g] = disk[map[p].file]]
        /\ UNCHANGED <<disk, lock, uses, pc>>

Acquire(p) ==
    /\ pc[p].at \in {"wait", "lookup"} /\ lock = 0
    /\ lock' = p
    /\ pc' = [pc EXCEPT ![p].at = IF @ = "wait" THEN "read" ELSE "size"]
    /\ UNCHANGED <<cache, disk, uses, map>>

\* The disk has answered.
FillDone(p) ==
    LET c == Publish(cache, pc[p].id, pc[p].page, disk[pc[p].file]) IN
    /\ pc[p].at = "read" /\ pc[p].why = "fault"
    /\ cache' = c /\ lock' = 0
    /\ map' = [map EXCEPT ![p].page[pc[p].page] = c.entry[pc[p].id].page[pc[p].page]]
    /\ pc' = [pc EXCEPT ![p] = Idle]
    /\ UNCHANGED <<disk, uses>>

-----------------------------------------------------------------------------
\* vop_write and vop_setattr: changed, then the file system's own work.  Whether
\* the giant lock is held from the start is the caller's.  Those still using the
\* entry get its missing pages first.
Changing(f, i, todo, complete, why) ==
    [at |-> "changed", file |-> f, id |-> i, todo |-> todo, complete |-> complete, why |-> why]

change(p, f, why) ==
    /\ pc[p] = Idle /\ disk[f] + Cardinality(Changers(f)) < MaxChanges
    /\ IF why = "truncate" THEN lock = 0 /\ lock' = p ELSE UNCHANGED lock
    /\ LET found == by_content(cache, f)
           i == CHOOSE j \in found : TRUE
           unfilled == IF found = {} \/ cache.entry[i].uses = 0 THEN {}
                       ELSE {g \in Pages : cache.entry[i].page[g] = Unfilled}
       IN  pc' = [pc EXCEPT ![p] = Changing(f, IF found = {} THEN 0 ELSE i, unfilled, TRUE, why)]
    /\ UNCHANGED <<cache, disk, uses, map>>

\* The loop of changed takes its next page.
changedFill(p) ==
    LET s == pc[p]
        g == Min(s.todo)
        c == reclaim(cache)
        rest == [s EXCEPT !.todo = @ \ {g}]
    IN  /\ s.at = "changed" /\ s.todo # {}
        /\ \/ /\ Fillable(cache, s.id, g) /\ c.free > 0
              /\ cache' = [c EXCEPT !.free = @ - 1]
              /\ FillAt(p, s.id, g, s.why, rest)
           \/ /\ Fillable(cache, s.id, g) /\ c.free = 0
              /\ cache' = c
              /\ pc' = [pc EXCEPT ![p] = [rest EXCEPT !.complete = FALSE]] /\ UNCHANGED lock
           \/ /\ ~Fillable(cache, s.id, g)
              /\ pc' = [pc EXCEPT ![p] = [rest EXCEPT !.complete = @ /\ cache.entry[s.id] # NoEntry
                                                                     /\ ~cache.entry[s.id].stale]]
              /\ UNCHANGED <<cache, lock>>
        /\ UNCHANGED <<disk, uses, map>>

changedDone(p) ==
    /\ pc[p].at = "read" /\ pc[p].why # "fault"
    /\ cache' = Publish(cache, pc[p].id, pc[p].page, disk[pc[p].file])
    /\ lock' = IF pc[p].why = "truncate" THEN p ELSE 0
    /\ pc' = [pc EXCEPT ![p] = [pc[p].rest EXCEPT !.complete = @ /\ cache.entry[pc[p].id] # NoEntry]]
    /\ UNCHANGED <<disk, uses, map>>

\* changed ends: the entry leaves the cache.
Retired_MUT(c, s) == c
Retired(c, s) ==
    IF s.id = 0 \/ c.entry[s.id] = NoEntry THEN c
    ELSE retire(IF s.complete THEN c ELSE [c EXCEPT !.entry[s.id].stale = TRUE], s.id)

\* ... and the operation follows, at once if it has the lock.
changedEnd(p) ==
    /\ pc[p].at = "changed" /\ pc[p].todo = {}
    /\ cache' = Retired(cache, pc[p])
    /\ \/ /\ lock \in {0, p}
          /\ disk' = [disk EXCEPT ![pc[p].file] = @ + 1]
          /\ lock' = 0 /\ pc' = [pc EXCEPT ![p] = Idle]
       \/ /\ lock \notin {0, p}
          /\ pc' = [pc EXCEPT ![p] = [at |-> "giant", file |-> pc[p].file, why |-> pc[p].why]]
          /\ UNCHANGED <<disk, lock>>
    /\ UNCHANGED <<uses, map>>

writeBlocks(p) ==
    /\ pc[p].at = "giant" /\ lock = 0
    /\ disk' = [disk EXCEPT ![pc[p].file] = @ + 1]
    /\ pc' = [pc EXCEPT ![p] = Idle]
    /\ UNCHANGED <<cache, lock, uses, map>>

\* vnode_gone: the vnode is recycled, when nobody uses it, or its mount forcibly
\* unmounted: then whoever waits to map the file finds it dead.
Mapping(f) == {q \in Procs : pc[q].at = "lookup" /\ pc[q].file = f}

vnode_gone(f) ==
    /\ lock = 0 /\ \A q \in Procs : pc[q].at # "changed"
    /\ \E i \in by_content(cache, f) :
         /\ (cache.entry[i].uses = 0 /\ Mapping(f) = {}) \/ Forced
         /\ cache' = retire([cache EXCEPT !.entry[i].stale = cache.entry[i].uses > 0], i)
    /\ pc' = [q \in Procs |-> IF q \in Mapping(f) THEN Idle ELSE pc[q]]
    /\ UNCHANGED <<disk, lock, uses, map>>

Init ==
    /\ cache = [entry |-> [i \in Ids |-> NoEntry], lru |-> <<>>, ids |-> [k \in Ids |-> MaxId + 1 - k],
                free |-> Frames, pending |-> 0]
    /\ disk = [f \in Files |-> 0] /\ lock = 0
    /\ uses = [p \in Procs |-> {}] /\ map = [p \in Procs |-> NoMap]
    /\ pc = [p \in Procs |-> Idle]

\* A process in the loop of changed has not slept: nobody else runs.
Running(p) == \A q \in Procs : pc[q].at = "changed" => q = p

Next ==
    \/ \E p \in {q \in Procs : Running(q)} :
         \/ \E f \in Files : Map(p, f) \/ \E why \in Writers : change(p, f, why)
         \/ Sizes(p) \/ Blocks(p) \/ do_munmap(p) \/ Exit(p) \/ \E q \in Procs : Fork(p, q)
         \/ \E g \in Pages : FaultHit(p, g) \/ FaultMiss(p, g) \/ KernelFault(p, g)
         \/ Acquire(p) \/ FillDone(p)
         \/ changedFill(p) \/ changedDone(p) \/ changedEnd(p) \/ writeBlocks(p)
    \/ \E f \in Files : vnode_gone(f)

Spec == Init /\ [][Next]_vars

-----------------------------------------------------------------------------
EntryRec == [file : Files, made : Versions, page : [Pages -> Versions \cup {Unfilled}],
             stale : BOOLEAN, uses : 0..Cardinality(Procs), cached : BOOLEAN, quiet : BOOLEAN]

\* Type correctness.
TypeOK ==
    /\ cache.entry \in [Ids -> EntryRec \cup {NoEntry}] /\ cache.free \in 0..Frames
    /\ cache.pending \in 0..Frames /\ lock \in Procs \cup {0} /\ disk \in [Files -> Versions]
    /\ uses \in [Procs -> SUBSET Ids]

\* An entry counts the address spaces that list it, none of which lists an entry
\* that is gone, and one that left the cache goes with the last of them; a file
\* has one entry to be found by; ids are reused only when free.
UsesExact ==
    /\ \A i \in Made(cache) : cache.entry[i].uses = Cardinality({p \in Procs : i \in uses[p]})
    /\ \A i \in Made(cache) : cache.entry[i].cached \/ cache.entry[i].uses > 0
    /\ \A p \in Procs : uses[p] \subseteq Made(cache)
    /\ \A f \in Files : Cardinality(by_content(cache, f)) <= 1
    /\ ToSet(cache.ids) \cap Made(cache) = {}

\* A page a process maps is a page of the entry it lists, still in the cache's
\* hands: reclaim and eviction never free a mapped frame.
MappedLive == \A p \in Procs : map[p] # NoMap =>
    /\ map[p].id \in uses[p] /\ cache.entry[map[p].id].file = map[p].file
    /\ \A g \in Pages : map[p].page[g] # Unfilled => cache.entry[map[p].id].page[g] = map[p].page[g]

\* Every frame is free, queued, in an entry, or being filled: none is lost by a
\* fill that comes second or whose entry is gone.
FramesExact ==
    cache.free + cache.pending + MapThenSumSet(LAMBDA i : Held(cache.entry[i]), Made(cache))
        + Cardinality({p \in Procs : pc[p].at \in {"wait", "read"}}) = Frames

\* All pages of an entry are of one state of its file, the one it was made for,
\* whatever order the fills, the changes and the waits for the lock come in.  Not
\* so once it is stale, as a fill that began before may still publish its page;
\* nor if the entry was made while a write was under way, which calls changed
\* before it waits for the lock.
Snapshot == \A i \in Made(cache) : cache.entry[i].quiet /\ ~cache.entry[i].stale =>
    \A g \in Pages : cache.entry[i].page[g] \in {Unfilled, cache.entry[i].made}

\* Whoever maps a file now gets what it holds now, with the same exception.
FreshCached == \A f \in Files : \A i \in by_content(cache, f) : cache.entry[i].quiet =>
    \A g \in Pages : cache.entry[i].page[g] \in {Unfilled, disk[f]}
=============================================================================
