-------------------------------- MODULE Bio --------------------------------
(***************************************************************************)
(* The buffer cache of sys/kern/vfs_bio.rs over one device, together with  *)
(* the pre-write hook of oxfs (sys/modules/oxfs/src/buf.rs), as operators  *)
(* on a cache state s.  The cache runs under the file system lock and      *)
(* nothing else interleaves with it, so an operation of a file system is   *)
(* one composition of these operators.  What a crash can still cut apart   *)
(* is the sequence of disk commands an operation issues: they are recorded *)
(* in s.cmds in the order the driver gets them, each a function from the   *)
(* blocks of the command to their new contents.                            *)
(*                                                                         *)
(*   s.val      contents of the cached blocks (its domain)                 *)
(*   s.dirty    the dirty list, most recently dirtied first                *)
(*   s.tag      file system tag of every dirty buffer                      *)
(*   s.busy     the buffers held                                           *)
(*   s.disk     the disk as it is once s.cmds are done                     *)
(*   s.doomed   the buffers that the next miss evicts.  They stand for the *)
(*              tail of the LRU list at that time, which the other users   *)
(*              of the cache shape; a buffer used meanwhile leaves the set *)
(*   s.fails    the disk refuses writes                                    *)
(***************************************************************************)
EXTENDS Integers, Sequences, FiniteSets, SequencesExt

CONSTANTS
    Inodes,      \* inode numbers of regular files, all of one inode-file block
    LastBlk,     \* last block of the device
    MaxRun,      \* most buffers in one disk command
    DirtyLimit   \* half of the cache's budget, in buffers

Meta == [kind |-> "meta", owner |-> 0]
InodeTag == [kind |-> "inodes", owner |-> 0]
DataTag(n) == [kind |-> "data", owner |-> n]
IndexTag(n) == [kind |-> "index", owner |-> n]
DataTags == {DataTag(n) : n \in Inodes}
IndexTags == {IndexTag(n) : n \in Inodes}
Tags == DataTags \cup IndexTags \cup {Meta, InodeTag}

Cached(s) == DOMAIN s.val
IsDirty(s, b) == Contains(s.dirty, b)

mark_dirty(s, b, t) ==
    [s EXCEPT !.tag = (b :> t) @@ @,
              !.dirty = IF IsDirty(s, b) THEN @ ELSE <<b>> \o @]

\* Every buffer of B is clean.
mark_clean(s, B) ==
    [s EXCEPT !.tag = Restrict(@, DOMAIN @ \ B),
              !.dirty = SelectSeq(@, LAMBDA b : b \notin B)]

touch(s, b) == [s EXCEPT !.doomed = @ \ {b}]

(***************************************************************************)
(* One disk command for the buffers r.run of the cache r.s: they are clean *)
(* and given back whether or not the disk took them.                       *)
(***************************************************************************)
command(r) ==
    LET data == [b \in r.run |-> r.s.val[b]]
        sent == IF r.s.fails THEN r.s
                ELSE [r.s EXCEPT !.disk = data @@ @, !.cmds = Append(@, data)]
    IN  mark_clean([sent EXCEPT !.busy = @ \ r.run], r.run)

\* Whether the hook lets a buffer share a command with its neighbours.
HOOK_CLUSTER(t) == t.kind \in {"meta", "data"}

RECURSIVE flushFrom(_, _, _), write_buffer(_, _), extend(_, _), evict_all(_, _)

(***************************************************************************)
(* bflush: walks the dirty list and writes what matches.  A write may take *)
(* other buffers off the list; if it took the next one, the walk starts    *)
(* again at the head.                                                      *)
(***************************************************************************)
flush(s, tags) == IF s.dirty = <<>> THEN s ELSE flushFrom(s, 1, tags)

\* Where the walk of list goes on after its k-th buffer was written, leaving w.
WalkFrom(w, list, k) ==
    IF k < Len(list) /\ IsDirty(w, list[k + 1])
    THEN CHOOSE i \in DOMAIN w.dirty : w.dirty[i] = list[k + 1]
    ELSE 1

FlushRest(w, list, k, tags) == flushFrom(w, WalkFrom(w, list, k), tags)

flushFrom(s, k, tags) ==
    IF k > Len(s.dirty) THEN s
    ELSE LET b == s.dirty[k] IN
         IF s.tag[b] \notin tags \/ b \in s.busy THEN flushFrom(s, k + 1, tags)
         ELSE FlushRest(write_buffer(s, b), s.dirty, k, tags)

(***************************************************************************)
(* oxfs's hook: before an index block its file's dirty data blocks go to   *)
(* the disk, before an inode-file block the dirty data blocks of its       *)
(* inodes and then their dirty index blocks.                               *)
(***************************************************************************)
DataBefore(t) == IF t.kind = "inodes" THEN DataTags ELSE {DataTag(t.owner)}
IndexBefore(t) == IF t.kind = "inodes" THEN IndexTags ELSE {}
Hooked(t) == t.kind \in {"index", "inodes"}

pre_write_MUT(s, t) == IF Hooked(t) THEN flush(s, DataBefore(t)) ELSE s
pre_write(s, t) ==
    IF Hooked(t) THEN flush(flush(s, DataBefore(t)), IndexBefore(t)) ELSE s

\* The buffer is held while the hook runs.
prepare(s, b) ==
    [pre_write([s EXCEPT !.busy = @ \cup {b}], s.tag[b]) EXCEPT !.busy = s.busy]

(***************************************************************************)
(* Grows a run by the dirty buffers next to it, on the sides -1 and 1 in   *)
(* turn.  Asking whether a neighbour may join runs its hook.               *)
(***************************************************************************)
Joined(h, run, j) == [s |-> [h EXCEPT !.busy = @ \cup {j}], run |-> run \cup {j}]

\* What to go on with after the neighbour j, of tag t, was asked, leaving h.
Asked(h, run, j, t, sides) ==
    IF HOOK_CLUSTER(t) /\ IsDirty(h, j)
    THEN [r |-> Joined(h, run, j), sides |-> sides]
    ELSE [r |-> [s |-> h, run |-> run], sides |-> Tail(sides)]
ExtendOn(next) == extend(next.r, next.sides)

extend(r, sides) ==
    IF sides = <<>> THEN r
    ELSE LET j == IF Head(sides) = -1 THEN Min(r.run) - 1 ELSE Max(r.run) + 1 IN
         IF Cardinality(r.run) < MaxRun /\ IsDirty(r.s, j) /\ j \notin r.s.busy
         THEN ExtendOn(Asked(prepare(r.s, j), r.run, j, r.s.tag[j], sides))
         ELSE extend(r, Tail(sides))

\* The write proper, once the hook has run and left h.
WritePrepared(h, b, t) ==
    IF ~IsDirty(h, b) THEN h
    ELSE command(extend(Joined(h, {}, b), IF HOOK_CLUSTER(t) THEN <<-1, 1>> ELSE <<>>))

write_buffer(s, b) == WritePrepared(prepare(s, b), b, s.tag[b])

evict(s, b) ==
    [IF IsDirty(s, b) THEN write_buffer(s, b) ELSE s EXCEPT
        !.val = Restrict(@, DOMAIN @ \ {b}), !.doomed = @ \ {b}]

evict_all(s, blocks) ==
    IF blocks = {} THEN s
    ELSE evict_all(evict(s, Min(blocks)), blocks \ {Min(blocks)})

\* A miss: the least recently used buffers that nobody holds make room.
take_empty(s) == evict_all(s, s.doomed \ s.busy)

(***************************************************************************)
(* bread.  The blocks read ahead are left out: they come in clean, and a   *)
(* clean buffer that holds what the disk holds is not told apart from a    *)
(* block that is not cached (see Settled).                                 *)
(***************************************************************************)
ReadIn(s, b) == [s EXCEPT !.val = (b :> s.disk[b]) @@ @]
bread(s, b) == IF b \in Cached(s) THEN touch(s, b) ELSE ReadIn(take_empty(s), b)

\* getblk and the caller's copy: the old contents are not read.
put(s, b, v) ==
    LET t == IF b \in Cached(s) THEN touch(s, b) ELSE take_empty(s) IN
    [t EXCEPT !.val = (b :> v) @@ @]

store(s, b, v, t) == mark_dirty(put(s, b, v), b, t)
write(s, b, v, t) == write_buffer(mark_dirty(put(s, b, v), b, t), b)

\* binval: the buffer keeps its contents but is no longer dirty.
discard(s, b) == mark_clean(s, {b})

discard_owned(s, n) ==
    mark_clean(s, {b \in DOMAIN s.tag : s.tag[b] \in {DataTag(n), IndexTag(n)}})

flush_file_MUT(s, n) == flush(flush(s, {DataTag(n)}), {IndexTag(n)})
flush_file(s, n) ==
    flush(flush(flush(s, {DataTag(n)}), {IndexTag(n)}), {InodeTag})

flush_all(s) ==
    flush(flush(flush(flush(s, DataTags), IndexTags), {InodeTag}), Tags)

mostly_dirty(s) == Len(s.dirty) > DirtyLimit

\* The superblock is written past the cache.
write_direct(s, b, v) ==
    IF s.fails THEN s
    ELSE [s EXCEPT !.disk = (b :> v) @@ @, !.cmds = Append(@, b :> v)]

\* Forgets the buffers whose eviction would change nothing.
Settled(s) ==
    [s EXCEPT !.val = RestrictDomain(@, LAMBDA b : IsDirty(s, b) \/ s.val[b] # s.disk[b])]

=============================================================================
