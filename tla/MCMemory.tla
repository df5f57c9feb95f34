------------------------------- MODULE MCMemory -----------------------------
(***************************************************************************)
(* Memory and files: the map of an address space, copy-on-write, the page  *)
(* cache, oxfs over the buffer cache, and vnodes with the name cache.      *)
(* They share nothing here, and in a behaviour the one that load names     *)
(* moves.  VmMap and Cow have variables of their own; the others hold      *)
(* their state in v1 to v6, and one that is not used is None.              *)
(***************************************************************************)
EXTENDS VmMap, Cow, TLC

VARIABLES load, v1, v2, v3, v4, v5, v6

all == <<v1, v2, v3, v4, v5, v6>>
memVars == <<load, vars, cowVars, all>>

-----------------------------------------------------------------------------
\* The stack and the kernel's pages, which cannot be unmapped and do not count;
\* the .cfg file has the heap and a file.
Fixed == INSTANCE VmMap WITH Kinds <- {"stack", "kernel"}, Lengths <- {1, 2}

\* Copy-on-write: every protection in two spaces, and three spaces.
CowThree == INSTANCE Cow WITH Accesses <- {"rw"}

Two == 1..2     \* the spaces where every protection is used

\* The page cache: files truncated and written, forced unmounts, and three
\* processes that fill and map one file.
Written == INSTANCE PageCache WITH
    Procs <- 1..2, Files <- {"a"}, Pages <- 1..2, MaxId <- 2, Frames <- 2, Limit <- 1,
    MaxChanges <- 1, Writers <- {"truncate", "write"}, Sized <- TRUE, Forced <- FALSE,
    cache <- v1, disk <- v2, lock <- v3, uses <- v4, map <- v5, pc <- v6

Unmounted == INSTANCE PageCache WITH
    Procs <- 1..2, Files <- {"a"}, Pages <- 1..2, MaxId <- 2, Frames <- 1, Limit <- 1,
    MaxChanges <- 1, Writers <- {"truncate"}, Sized <- TRUE, Forced <- TRUE,
    cache <- v1, disk <- v2, lock <- v3, uses <- v4, map <- v5, pc <- v6

Truncated == INSTANCE PageCache WITH
    Procs <- 1..3, Files <- {"a"}, Pages <- 1..2, MaxId <- 1, Frames <- 1, Limit <- 1,
    MaxChanges <- 1, Writers <- {"truncate"}, Sized <- FALSE, Forced <- FALSE,
    cache <- v1, disk <- v2, lock <- v3, uses <- v4, map <- v5, pc <- v6

\* oxfs: a file with an indirect block, and two files with a direct one each.
NoNoise == [i \in {0} |-> 0]

OneFile == INSTANCE Oxfs WITH
    Inodes <- {1}, LastBlk <- 5, MaxRun <- 2, DirtyLimit <- 3, DIRECT_BLOCKS <- 0,
    PTRS_PER_INDIRECT <- 1, MaxSize <- 1, Noise <- NoNoise, Evictions <- TRUE,
    Failures <- FALSE,
    st <- v1, platter <- v2, held <- v3, writers <- v4, excused <- v5

TwoFiles == INSTANCE Oxfs WITH
    Inodes <- {1, 2}, LastBlk <- 4, MaxRun <- 2, DirtyLimit <- 3, DIRECT_BLOCKS <- 1,
    PTRS_PER_INDIRECT <- 1, MaxSize <- 1, Noise <- NoNoise, Evictions <- FALSE,
    Failures <- FALSE,
    st <- v1, platter <- v2, held <- v3, writers <- v4, excused <- v5

\* Vnodes: two names and two files, a program that answers to "b" too if it was made
\* as "a", and two processes with the pages of one file.
NoAlias == [n \in {"a", "b"} |-> {}]
Folds == [n \in {"a", "b"} |-> {"b"} \ {n}]

TwoNames == INSTANCE Vnodes WITH
    Procs <- {1}, Inodes <- {1, 2}, Names <- {"a", "b"}, Aliases <- NoAlias, Casefold <- FALSE,
    MaxVn <- 4, maxvnodes <- 2, Entries <- {}, Ops <- {"stat", "create", "unlink", "rename"},
    Races <- FALSE, s <- v1, lock <- v2, pc <- v3, fd <- v4, map <- v5, text <- v6

Folded == INSTANCE Vnodes WITH
    Procs <- {1}, Inodes <- {1}, Names <- {"a", "b"}, Aliases <- Folds, Casefold <- TRUE,
    MaxVn <- 4, maxvnodes <- 2, Entries <- {}, Ops <- {"stat", "create", "unlink", "rename", "exec"},
    Races <- FALSE, s <- v1, lock <- v2, pc <- v3, fd <- v4, map <- v5, text <- v6

TwoUsers == INSTANCE Vnodes WITH
    Procs <- {1, 2}, Inodes <- {1}, Names <- {"a"}, Aliases <- NoAlias, Casefold <- FALSE,
    MaxVn <- 6, maxvnodes <- 1, Entries <- {1}, Ops <- {"stat", "open", "create", "unlink", "rename"},
    Races <- FALSE, s <- v1, lock <- v2, pc <- v3, fd <- v4, map <- v5, text <- v6

-----------------------------------------------------------------------------
None == "none"

MemInit ==
    /\ Init
    /\ CowInit
    /\ \/ /\ load \in {"map", "fixed", "cow prot", "cow three"}
          /\ v1 = None /\ v2 = None /\ v3 = None /\ v4 = None /\ v5 = None /\ v6 = None
       \/ load = "written" /\ Written!Init
       \/ load = "unmounted" /\ Unmounted!Init
       \/ load = "truncated" /\ Truncated!Init
       \/ load = "one file" /\ OneFile!Init /\ v6 = None
       \/ load = "two files" /\ TwoFiles!Init /\ v6 = None
       \/ load = "two names" /\ TwoNames!Init
       \/ load = "folded" /\ Folded!Init
       \/ load = "two users" /\ TwoUsers!Init

Moves ==
    \/ load = "written" /\ Written!Next
    \/ load = "unmounted" /\ Unmounted!Next
    \/ load = "truncated" /\ Truncated!Next
    \/ load = "one file" /\ OneFile!Next /\ UNCHANGED v6
    \/ load = "two files" /\ TwoFiles!Next /\ UNCHANGED v6
    \/ load = "two names" /\ TwoNames!Next
    \/ load = "folded" /\ Folded!Next
    \/ load = "two users" /\ TwoUsers!Next

MemNext ==
    /\ UNCHANGED load
    /\ \/ load = "map" /\ Next /\ UNCHANGED <<cowVars, all>>
       \/ load = "fixed" /\ Fixed!Next /\ UNCHANGED <<cowVars, all>>
       \/ load = "cow prot" /\ CowNext /\ alive' \subseteq Two /\ UNCHANGED <<vars, all>>
       \/ load = "cow three" /\ CowThree!CowNext /\ UNCHANGED <<vars, all>>
       \/ Moves /\ UNCHANGED <<vars, cowVars>>

MemSpec == MemInit /\ [][MemNext]_memVars

-----------------------------------------------------------------------------
(* Properties, next to those of VmMap and Cow; the modules say what they   *)
(* mean.                                                                   *)

\* Type correctness.
MemTypeOK ==
    /\ IF load = "fixed" THEN Fixed!TypeOK ELSE TypeOK
    /\ CowTypeOK
    /\ load = "written" => Written!TypeOK
    /\ load = "unmounted" => Unmounted!TypeOK
    /\ load = "truncated" => Truncated!TypeOK
    /\ load = "one file" => OneFile!TypeOK
    /\ load = "two files" => TwoFiles!TypeOK
    /\ load = "two names" => TwoNames!TypeOK
    /\ load = "folded" => Folded!TypeOK
    /\ load = "two users" => TwoUsers!TypeOK

\* The page cache counts the uses of its pages exactly: no frame is lost, and
\* none is freed while it is mapped.
FramesCounted ==
    /\ load = "written" => Written!UsesExact /\ Written!MappedLive /\ Written!FramesExact
    /\ load = "unmounted" => Unmounted!UsesExact /\ Unmounted!MappedLive /\ Unmounted!FramesExact
    /\ load = "truncated" => Truncated!UsesExact /\ Truncated!MappedLive /\ Truncated!FramesExact

\* The pages of a mapped file are of one state of it, and a new mapping of it
\* shows what is there now, unless it was made while the file was written.
OneStateOfFile ==
    /\ load = "written" => Written!Snapshot /\ Written!FreshCached
    /\ load = "unmounted" => Unmounted!Snapshot
    /\ load = "truncated" => Truncated!Snapshot /\ Truncated!FreshCached

\* Whenever the machine stops, what the disk holds is consistent; and what is
\* cached agrees with it, so that nothing evicted is lost and a disk marked clean
\* is.
DiskConsistent ==
    /\ load = "one file" =>
         /\ OneFile!PointersFollow
         /\ OneFile!BlocksOwned
         /\ OneFile!NamesLive
         /\ OneFile!CleanMatchesDisk
         /\ OneFile!CursorSound
         /\ OneFile!CleanIsClean
    /\ load = "two files" =>
         /\ TwoFiles!PointersFollow
         /\ TwoFiles!BlocksOwned
         /\ TwoFiles!NamesLive
         /\ TwoFiles!CleanMatchesDisk
         /\ TwoFiles!CursorSound
         /\ TwoFiles!CleanIsClean

\* After fsync the file is on the disk.
FsyncComplete ==
    [][/\ load = "one file" => OneFile!Fsynced
       /\ load = "two files" => TwoFiles!Fsynced]_memVars

\* Vnodes are counted exactly, freed once and never while something names them;
\* a file has one of them at most, keeps its storage while it is in use, and
\* loses it after.
VnodesSound ==
    /\ load = "two names" =>
         /\ TwoNames!CountsExact
         /\ TwoNames!NoDangling
         /\ TwoNames!FreeListExact
         /\ TwoNames!OneVnodePerFile
         /\ TwoNames!StorageWhileUsed
    /\ load = "folded" =>
         /\ Folded!CountsExact
         /\ Folded!NoDangling
         /\ Folded!FreeListExact
         /\ Folded!OneVnodePerFile
         /\ Folded!StorageWhileUsed
    /\ load = "two users" =>
         /\ TwoUsers!CountsExact
         /\ TwoUsers!NoDangling
         /\ TwoUsers!FreeListExact
         /\ TwoUsers!OneVnodePerFile
         /\ TwoUsers!StorageWhileUsed

\* The name cache says what the directory holds.
NamesTrue ==
    /\ load = "two names" => TwoNames!NamesTrue
    /\ load = "folded" => Folded!NamesTrue
    /\ load = "two users" => TwoUsers!NamesTrue
=============================================================================
