-------------------------------- MODULE Oxfs -------------------------------
(***************************************************************************)
(* oxfs (sys/modules/oxfs/src/lib.rs and vfs.rs): its storage on the       *)
(* buffer cache of module Bio, with crashes between any two disk writes.   *)
(*                                                                         *)
(* Every operation runs to its end under the file system lock, so it is    *)
(* one step that leaves the disk commands it issued in st.cmds; DiskWrite  *)
(* then carries them out, block by block, before the next operation        *)
(* starts, and Crash may come in between.  platter is the disk itself.     *)
(*                                                                         *)
(* The device: block 0 the superblock, 1 the block bitmap, 2 the inode     *)
(* file (one block), 3 the root directory, from 4 on the blocks of regular *)
(* files.  Sizes are in blocks.  A block of file contents is known by the  *)
(* file that wrote it.                                                     *)
(***************************************************************************)
EXTENDS Bio

CONSTANTS
    DIRECT_BLOCKS,      \* direct pointers of an inode
    PTRS_PER_INDIRECT,  \* pointers of an index block
    MaxSize,            \* bound on a file's size, in blocks
    Noise,              \* what a block that is no index block reads as: pointers
    Evictions,          \* whether a miss may evict
    Failures            \* whether the disk may refuse an operation's writes

VARIABLES
    st,       \* cache and mount state, as of the end of the last operation
    platter,  \* the blocks on the disk
    held,     \* inodes whose vnode is in use
    writers,  \* those of them open for writing
    excused   \* whether the system has ever gone down without unmounting, or been
              \* made read-only with a file in use that had no name

vars == <<st, platter, held, writers, excused>>

NO_BLOCK == 0
Super == 0
Bitmap == 1
InodeFile == 2
Root == 3
Blks == 0..LastBlk
FileBlks == 4..LastBlk
Slots == 0..(PTRS_PER_INDIRECT - 1)

Data(n) == [kind |-> "data", owner |-> n]
Index(n, ptr) == [kind |-> "index", owner |-> n, ptr |-> ptr]
NoPtrs == [i \in Slots |-> NO_BLOCK]

FREE == [kind |-> "free", nlink |-> 0, size |-> 0,
         direct |-> [i \in 0..(DIRECT_BLOCKS - 1) |-> NO_BLOCK],
         indirect |-> NO_BLOCK, double_indirect |-> NO_BLOCK]
FreshInode == [FREE EXCEPT !.kind = "file", !.nlink = 1]

\* The pointers a block decodes to.
Ptrs(v) == IF v.kind = "index" THEN v.ptr ELSE Noise

(***************************************************************************)
(* Blocks and inode records.  A regular file's writes are delayed: data,   *)
(* index blocks and the record are stored; everything else is written.     *)
(***************************************************************************)
PutRecord(s, n, inode, delayed) ==
    LET v == [s.val[InodeFile] EXCEPT ![n] = inode] IN
    IF delayed THEN store(s, InodeFile, v, InodeTag) ELSE write(s, InodeFile, v, InodeTag)
write_inode(s, n, inode, delayed) == PutRecord(bread(s, InodeFile), n, inode, delayed)

PutBit(s, b, used) ==
    LET set == s.val[Bitmap] IN
    IF used = (b \in set) THEN s
    ELSE write(s, Bitmap, IF used THEN set \cup {b} ELSE set \ {b}, Meta)
set_block_used(s, b, used) == PutBit(bread(s, Bitmap), b, used)

(***************************************************************************)
(* alloc_block for file n: the first free block from the cursor on, marked *)
(* used on the disk, zeroed in the cache.  The result pairs the state with *)
(* the block, NO_BLOCK when the disk is full.                              *)
(***************************************************************************)
TakeBlock(s, n, b) ==
    [s |-> [store(set_block_used(s, b, TRUE), b, Data(n), DataTag(n)) EXCEPT !.next = b + 1],
     b |-> b]
TakeFree(s, n) ==
    LET found == {b \in FileBlks : b >= s.next /\ b \notin s.val[Bitmap]} IN
    IF found = {} THEN [s |-> s, b |-> NO_BLOCK] ELSE TakeBlock(s, n, Min(found))
alloc_block(s, n) == TakeFree(bread(s, Bitmap), n)

write_index_block(s, n, b, ptr) == store(s, b, Index(n, ptr), IndexTag(n))

\* The pair a, its block written as an index block with the pointers ptr.
AsIndex(a, n, b, ptr) ==
    IF a.b = NO_BLOCK THEN a ELSE [a EXCEPT !.s = write_index_block(@, n, b, ptr)]
EmptyIndex(a, n) == AsIndex(a, n, a.b, NoPtrs)
alloc_indirect_block(s, n) == EmptyIndex(alloc_block(s, n), n)

\* The block that slot of index block ib points at, where s has read ib: a new data
\* block or index block if there is none.
PointAt(a, n, ib, ptr, slot) == AsIndex(a, n, ib, [ptr EXCEPT ![slot] = a.b])
SlotOf(s, n, ib, slot, kind) ==
    LET ptr == Ptrs(s.val[ib]) IN
    IF ptr[slot] # NO_BLOCK THEN [s |-> s, b |-> ptr[slot]]
    ELSE PointAt(IF kind = "data" THEN alloc_block(s, n) ELSE alloc_indirect_block(s, n),
                 n, ib, ptr, slot)
ensure_index_slot(s, n, ib, slot) == SlotOf(bread(s, ib), n, ib, slot, "data")

(***************************************************************************)
(* ensure_block: the block at index i of the file, allocated with its      *)
(* index blocks where missing.  The record is changed as far as it got.    *)
(***************************************************************************)
Found(a, inode) == [s |-> a.s, b |-> a.b, inode |-> inode]

PutDirect(a, inode, i) == Found(a, [inode EXCEPT !.direct[i] = a.b])
EnsureDirect(s, n, inode, i) ==
    IF inode.direct[i] # NO_BLOCK THEN Found([s |-> s, b |-> inode.direct[i]], inode)
    ELSE PutDirect(alloc_block(s, n), inode, i)

\* The index block at old, allocated if there is none.
OwnIndex(s, n, old) ==
    IF old # NO_BLOCK THEN [s |-> s, b |-> old] ELSE alloc_indirect_block(s, n)

ThroughIndirect(a, n, inode, i) ==
    IF a.b = NO_BLOCK THEN Found(a, inode)
    ELSE Found(ensure_index_slot(a.s, n, a.b, i), [inode EXCEPT !.indirect = a.b])
EnsureIndirect(s, n, inode, i) == ThroughIndirect(OwnIndex(s, n, inode.indirect), n, inode, i)

ThroughInner(a, n, i) ==
    IF a.b = NO_BLOCK THEN a ELSE ensure_index_slot(a.s, n, a.b, i % PTRS_PER_INDIRECT)
ThroughOuter(s, n, ib, i) ==
    ThroughInner(SlotOf(bread(s, ib), n, ib, i \div PTRS_PER_INDIRECT, "index"), n, i)
ThroughDouble(a, n, inode, i) ==
    IF a.b = NO_BLOCK THEN Found(a, inode)
    ELSE Found(ThroughOuter(a.s, n, a.b, i), [inode EXCEPT !.double_indirect = a.b])
EnsureDouble(s, n, inode, i) == ThroughDouble(OwnIndex(s, n, inode.double_indirect), n, inode, i)

ensure_block(s, n, inode, i) ==
    LET j == i - DIRECT_BLOCKS
        k == j - PTRS_PER_INDIRECT
    IN  CASE j < 0 -> EnsureDirect(s, n, inode, i)
          [] j >= 0 /\ k < 0 -> EnsureIndirect(s, n, inode, j)
          [] k >= 0 /\ k < PTRS_PER_INDIRECT * PTRS_PER_INDIRECT ->
                EnsureDouble(s, n, inode, k)
          [] OTHER -> [s |-> s, b |-> NO_BLOCK, inode |-> inode]

SaveFound(e, n) == [s |-> write_inode(e.s, n, e.inode, TRUE), b |-> e.b]
EnsureAt(s, n, i) == SaveFound(ensure_block(s, n, s.val[InodeFile][n], i), n)
inode_ensure_block_at(s, n, i) == EnsureAt(bread(s, InodeFile), n, i)

\* The record of n with another size, delayed; s has read it.
Resized(s, n, size) == write_inode(s, n, [s.val[InodeFile][n] EXCEPT !.size = size], TRUE)
WithSize(s, n, size) == Resized(bread(s, InodeFile), n, size)

(***************************************************************************)
(* Contents of regular files.                                              *)
(***************************************************************************)
\* The whole block at index i: written (write_inode_with) or zeroed (resize).
PutData(e, n) ==
    IF e.b = NO_BLOCK THEN e
    ELSE [e EXCEPT !.s = store(bread(e.s, e.b), e.b, Data(n), DataTag(n))]
FillBlock(s, n, i) == PutData(inode_ensure_block_at(s, n, i), n)

RECURSIVE Grow(_, _, _, _)
GrowRest(e, n, i, size) == IF e.b = NO_BLOCK THEN e.s ELSE Grow(e.s, n, i + 1, size)
Grow(s, n, i, size) ==
    IF i = size THEN WithSize(s, n, size) ELSE GrowRest(FillBlock(s, n, i), n, i, size)

\* resize_inode_data: shrinking only changes the size.
resize_inode_data(s, n, size) ==
    LET old == bread(s, InodeFile).val[InodeFile][n].size IN
    IF size <= old THEN WithSize(s, n, size) ELSE Grow(s, n, old, size)

\* write_inode_with, one block at index i (at most the size).
Relieved(s) == IF mostly_dirty(s) THEN flush_all(s) ELSE s
Written(e, n, i, old) ==
    Relieved(WithSize(e.s, n, IF e.b # NO_BLOCK /\ i >= old THEN i + 1 ELSE old))
write_inode_with(s, n, i) ==
    Written(FillBlock(s, n, i), n, i, bread(s, InodeFile).val[InodeFile][n].size)

(***************************************************************************)
(* Reclamation.                                                            *)
(***************************************************************************)
free_block(s, b) == [set_block_used(discard(s, b), b, FALSE) EXCEPT !.next = Min({@, b})]

RECURSIVE FreeSlots(_, _, _), FreeDirect(_, _, _), FreeOuter(_, _, _)

\* The blocks the slots of index block ib point at, from slot on.
FreeSlot(s, ib, slot) ==
    LET b == Ptrs(s.val[ib])[slot] IN IF b = NO_BLOCK THEN s ELSE free_block(s, b)
FreeSlots(s, ib, slot) ==
    IF slot = PTRS_PER_INDIRECT THEN s
    ELSE FreeSlots(FreeSlot(bread(s, ib), ib, slot), ib, slot + 1)
free_index_block(s, ib) == free_block(FreeSlots(s, ib, 0), ib)

FreeDirect(s, inode, i) ==
    IF i = DIRECT_BLOCKS THEN s
    ELSE FreeDirect(IF inode.direct[i] = NO_BLOCK THEN s ELSE free_block(s, inode.direct[i]),
                    inode, i + 1)

FreeInner(s, ib, slot) ==
    LET b == Ptrs(s.val[ib])[slot] IN IF b = NO_BLOCK THEN s ELSE free_index_block(s, b)
FreeOuter(s, ib, slot) ==
    IF slot = PTRS_PER_INDIRECT THEN s
    ELSE FreeOuter(FreeInner(bread(s, ib), ib, slot), ib, slot + 1)

FreeIndirect(s, ib) == IF ib = NO_BLOCK THEN s ELSE free_index_block(s, ib)
FreeDouble(s, ib) == IF ib = NO_BLOCK THEN s ELSE free_block(FreeOuter(s, ib, 0), ib)
free_inode_blocks(s, inode) ==
    FreeDouble(FreeIndirect(FreeDirect(s, inode, 0), inode.indirect), inode.double_indirect)

\* The record goes first; the unwritten blocks of n are never written.
release_inode(s, n, inode) ==
    free_inode_blocks(write_inode(discard_owned(s, n), n, FREE, FALSE), inode)

ReleaseUnnamed(s, n, busy) ==
    LET inode == s.val[InodeFile][n] IN
    IF inode.kind = "free" \/ inode.nlink > 0 \/ busy THEN s ELSE release_inode(s, n, inode)
maybe_release(s, n, busy) == ReleaseUnnamed(bread(s, InodeFile), n, busy)

(***************************************************************************)
(* Directories.  touch_dir writes the directory's own record unless the    *)
(* clock still shows the second of the last change.                        *)
(***************************************************************************)
TouchRecord(s) == write(s, InodeFile, s.val[InodeFile], InodeTag)
touch_dir(s, ticked) == IF ticked THEN TouchRecord(bread(s, InodeFile)) ELSE s

AddName(s, n) == write(s, Root, s.val[Root] \cup {n}, Meta)
DropName(s, n) == write(s, Root, s.val[Root] \ {n}, Meta)
dir_insert(s, n, ticked) == touch_dir(AddName(bread(s, Root), n), ticked)
dir_remove(s, n, ticked) == touch_dir(DropName(bread(s, Root), n), ticked)

new_node(s, n, ticked) == dir_insert(write_inode(s, n, FreshInode, FALSE), n, ticked)

Unlinked(s, n) ==
    LET inode == s.val[InodeFile][n] IN
    write_inode(s, n, [inode EXCEPT !.nlink = IF @ = 0 THEN 0 ELSE @ - 1], FALSE)
oxfs_vop_remove(s, n, ticked, busy) ==
    maybe_release(Unlinked(bread(dir_remove(s, n, ticked), InodeFile), n), n, busy)

(***************************************************************************)
(* Mounting.                                                               *)
(***************************************************************************)
write_superblock(s, clean) == write_direct(s, Super, [clean |-> clean])

\* An empty cache over disk d; what mount_from_disk counts is not kept.
mount_from_disk(d) ==
    [val |-> <<>>, dirty |-> <<>>, tag |-> <<>>, busy |-> {}, doomed |-> {}, fails |-> FALSE,
     disk |-> d, cmds |-> <<>>, next |-> Min(FileBlks), rdonly |-> TRUE]

sweep_unnamed_inodes(s) ==
    FoldSet(LAMBDA n, t : LET inode == t.val[InodeFile][n] IN
                          IF inode.kind # "free" /\ inode.nlink = 0
                          THEN bread(release_inode(t, n, inode), InodeFile) ELSE t,
            bread(s, InodeFile), Inodes)

remount_rw(s) ==
    sweep_unnamed_inodes(write_superblock([mount_from_disk(s.disk) EXCEPT !.rdonly = FALSE], FALSE))

remount_ro(s) == [write_superblock(flush_all(s), TRUE) EXCEPT !.rdonly = TRUE]

-----------------------------------------------------------------------------
View(s, b) == IF b \in Cached(s) THEN s.val[b] ELSE s.disk[b]

EmptyDisk ==
    [b \in Blks |->
        CASE b = Super     -> [clean |-> TRUE]
          [] b = Bitmap    -> {}
          [] b = InodeFile -> [n \in Inodes |-> FREE]
          [] b = Root      -> {}
          [] OTHER         -> Data(0)]

Init ==
    /\ platter = EmptyDisk
    /\ st = mount_from_disk(EmptyDisk)
    /\ held = {} /\ writers = {}
    /\ excused = FALSE

\* The state an operation starts from.
Begins ==
    {[st EXCEPT !.doomed = d, !.fails = f] :
        d \in {{}} \cup IF Evictions THEN {{b} : b \in Cached(st)} ELSE {},
        f \in {FALSE} \cup IF Failures THEN {TRUE} ELSE {}}

Operation(s) ==
    /\ st' = Settled([s EXCEPT !.doomed = {}, !.fails = FALSE])
    /\ UNCHANGED platter

Idle == st.cmds = <<>>
Ready == Idle /\ ~st.rdonly
Record(n) == View(st, InodeFile)[n]

create(n) ==
    /\ Ready /\ Record(n).kind = "free"
    /\ \E s \in Begins, ticked \in BOOLEAN : Operation(new_node(s, n, ticked))
    /\ held' = held \cup {n} /\ writers' = writers \cup {n}
    /\ UNCHANGED excused

\* A read-only file system has its files opened for reading only.
open(n) ==
    /\ Idle /\ n \in View(st, Root)
    /\ held' = held \cup {n}
    /\ \E W \in {{}, {n}} : (W # {} => ~st.rdonly) /\ writers' = writers \cup W
    /\ UNCHANGED <<st, platter, excused>>

oxfs_vop_write(n) ==
    /\ Ready /\ n \in writers
    /\ \E s \in Begins, i \in 0..(MaxSize - 1) :
          i <= Record(n).size /\ Operation(write_inode_with(s, n, i))
    /\ UNCHANGED <<held, writers, excused>>

\* ftruncate of a file open for writing, truncate of any.
truncate(n) ==
    /\ Ready /\ n \in held
    /\ \E s \in Begins, size \in 0..MaxSize : Operation(resize_inode_data(s, n, size))
    /\ UNCHANGED <<held, writers, excused>>

\* oxfs_vop_setattr of the mode, and touch_atime.
setattr(n) ==
    /\ Ready /\ n \in held
    /\ \E s \in Begins, delayed \in BOOLEAN :
          Operation(write_inode(s, n, bread(s, InodeFile).val[InodeFile][n], delayed))
    /\ UNCHANGED <<held, writers, excused>>

remove(n) ==
    /\ Ready /\ n \in View(st, Root)
    /\ \E s \in Begins, ticked \in BOOLEAN :
          Operation(oxfs_vop_remove(s, n, ticked, n \in held))
    /\ UNCHANGED <<held, writers, excused>>

\* The last descriptor that writes is closed and others stay.
closeWriter(n) ==
    /\ n \in writers
    /\ writers' = writers \ {n}
    /\ UNCHANGED <<st, platter, held, excused>>

\* The last use of the vnode ends: oxfs_vop_inactive, on a read-only mount too.
inactive(n) ==
    /\ Idle /\ n \in held
    /\ \E s \in Begins : Operation(maybe_release(s, n, FALSE))
    /\ held' = held \ {n} /\ writers' = writers \ {n}
    /\ UNCHANGED excused

fsync(n) ==
    /\ Ready /\ n \in held
    /\ Operation(flush_file(st, n))
    /\ UNCHANGED <<held, writers, excused>>

sync ==
    /\ Ready
    /\ Operation(flush_all(st))
    /\ UNCHANGED <<held, writers, excused>>

\* A read of some other block misses.
otherMiss ==
    /\ Idle /\ Evictions
    /\ \E b \in Cached(st) : Operation(evict(st, b))
    /\ UNCHANGED <<held, writers, excused>>

(***************************************************************************)
(* mount -u.  A mount with a file open for writing stays read-write.  The  *)
(* sweep on the way back to read-write asks no vnode: a file without a     *)
(* name that is still in use is freed, and its vnode with it.              *)
(***************************************************************************)
Unnamed == {n \in held : Record(n).nlink = 0}

remount ==
    /\ Idle
    /\ \/ /\ st.rdonly
          /\ Operation(remount_rw(st))
          /\ held' = held \ Unnamed
          /\ UNCHANGED <<writers, excused>>
       \/ /\ ~st.rdonly /\ writers = {}
          /\ Operation(remount_ro(st))
          /\ excused' = (excused \/ Unnamed # {})
          /\ UNCHANGED <<held, writers>>

\* One block of the disk command in progress reaches the disk.
DiskWrite ==
    /\ st.cmds # <<>>
    /\ \E b \in DOMAIN Head(st.cmds) :
          LET left == DOMAIN Head(st.cmds) \ {b} IN
          /\ platter' = [platter EXCEPT ![b] = Head(st.cmds)[b]]
          /\ st' = [st EXCEPT !.cmds = IF left = {} THEN Tail(@)
                                       ELSE [@ EXCEPT ![1] = Restrict(@, left)]]
    /\ UNCHANGED <<held, writers, excused>>

\* The machine goes down and comes up with the file system read-only.
Crash ==
    /\ st' = mount_from_disk(platter)
    /\ held' = {} /\ writers' = {}
    /\ excused' = (excused \/ ~Idle \/ ~st.rdonly)
    /\ UNCHANGED platter

Next ==
    \/ \E n \in Inodes : create(n) \/ open(n) \/ oxfs_vop_write(n) \/ truncate(n)
                         \/ setattr(n) \/ remove(n) \/ closeWriter(n) \/ inactive(n)
                         \/ fsync(n)
    \/ sync \/ otherMiss \/ remount \/ DiskWrite \/ Crash

Spec == Init /\ [][Next]_vars

-----------------------------------------------------------------------------
\* The blocks inode n points at on disk d, directly or through index blocks.
IndexBlocks(d, n) ==
    LET r == d[InodeFile][n]
        outer == {r.double_indirect} \ {NO_BLOCK}
    IN  ({r.indirect} \ {NO_BLOCK}) \cup outer
        \cup UNION {{Ptrs(d[b])[i] : i \in Slots} \ {NO_BLOCK} : b \in outer}

DataBlocks(d, n) ==
    LET r == d[InodeFile][n]
        inner == IndexBlocks(d, n) \ {r.double_indirect}
    IN  ({r.direct[i] : i \in DOMAIN r.direct}
         \cup UNION {{Ptrs(d[b])[i] : i \in Slots} : b \in inner}) \ {NO_BLOCK}

Reached(d, n) == IndexBlocks(d, n) \cup DataBlocks(d, n)
Current == [b \in Blks |-> View(st, b)]

\* Type correctness of the cache: the dirty list, the tags and the buffers agree.
TypeOK ==
    /\ st.busy = {} /\ st.doomed = {}
    /\ ToSet(st.dirty) = DOMAIN st.tag /\ DOMAIN st.tag \subseteq Cached(st)
    /\ Len(st.dirty) = Cardinality(DOMAIN st.tag)
    /\ writers \subseteq held /\ held \subseteq Inodes /\ DOMAIN platter = Blks

(***************************************************************************)
(* Whenever the machine stops, an inode on the disk points only at blocks  *)
(* that hold its own data or its own index: what the pre-write hook and    *)
(* the order of release_inode are for (buf.rs, "a pointer never reaches    *)
(* the disk before what it points at").                                    *)
(***************************************************************************)
PointersFollow ==
    \A n \in Inodes :
        /\ \A b \in IndexBlocks(platter, n) : platter[b].kind = "index" /\ platter[b].owner = n
        /\ \A b \in DataBlocks(platter, n) : platter[b] = Data(n)

(***************************************************************************)
(* No block is handed out twice, on the disk at any moment or as the code  *)
(* sees it: a block some inode points at is marked used, and two inodes    *)
(* share none (set_block_used before the pointer, the record freed before  *)
(* the bits).                                                              *)
(***************************************************************************)
BlocksOwned ==
    \A d \in {platter, Current} :
        /\ \A n \in Inodes : Reached(d, n) \subseteq d[Bitmap]
        /\ \A m, n \in Inodes : m # n => Reached(d, m) \cap Reached(d, n) = {}

(***************************************************************************)
(* A name on the disk is the name of an inode in use: new_node writes the  *)
(* record first, oxfs_vop_remove takes the name away first.                *)
(***************************************************************************)
NamesLive ==
    \A d \in {platter, Current} : \A n \in d[Root] : d[InodeFile][n].kind = "file"

(***************************************************************************)
(* A buffer that is not dirty and belongs to something holds what the disk *)
(* holds, so evicting it loses nothing.                                    *)
(***************************************************************************)
CleanMatchesDisk ==
    \A b \in Cached(st) \ DOMAIN st.tag :
        st.val[b] = st.disk[b] \/ (b \in FileBlks /\ b \notin Current[Bitmap])

\* The allocation cursor is never past a free block (alloc_block does not wrap).
CursorSound == \A b \in FileBlks : b < st.next => b \in Current[Bitmap]

(***************************************************************************)
(* A disk marked clean needs no check: no unnamed inode, no leaked block   *)
(* and no block written behind the mark, unless a crash left one before or *)
(* a file without a name was in use when it was marked, whose release then *)
(* writes the disk.                                                        *)
(***************************************************************************)
CleanIsClean ==
    platter[Super].clean /\ ~excused =>
        /\ st.dirty = <<>> \/ ~st.rdonly
        /\ platter[Bitmap] = UNION {Reached(platter, n) : n \in Inodes}
        /\ \A n \in Inodes : platter[InodeFile][n].kind = "file" <=> n \in platter[Root]

\* After fsync the file is on the disk as the process sees it (flush_file).
Fsynced ==
    \A n \in Inodes : fsync(n) =>
        /\ st'.disk[InodeFile] = Current[InodeFile]
        /\ \A b \in Reached(Current, n) : st'.disk[b] = Current[b]
=============================================================================
