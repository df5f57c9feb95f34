---------------------------- MODULE MCDeviations ----------------------------
(***************************************************************************)
(* Three places where the code does not do what its comments say, each     *)
(* with the instance that shows it.  load picks one of them; it holds its  *)
(* state in v1 to v6.                                                      *)
(***************************************************************************)
EXTENDS Integers, TLC

CONSTANT Load

VARIABLES v1, v2, v3, v4, v5, v6

all == <<v1, v2, v3, v4, v5, v6>>

\* close(2) gives its vnode up without the giant lock.
Close == INSTANCE Vnodes WITH
    Procs <- {1, 2}, Inodes <- {1}, Names <- {"a"}, Aliases <- [n \in {"a"} |-> {}], Casefold <- FALSE,
    MaxVn <- 6, maxvnodes <- 1, Entries <- {1}, Ops <- {"stat", "open", "create", "unlink", "rename"},
    Races <- TRUE, s <- v1, lock <- v2, pc <- v3, fd <- v4, map <- v5, text <- v6

\* A file whose blocks all hang off index blocks of index blocks.
Order == INSTANCE Oxfs WITH
    Inodes <- {1}, LastBlk <- 12, MaxRun <- 2, DirtyLimit <- 20, DIRECT_BLOCKS <- 0,
    PTRS_PER_INDIRECT <- 2, MaxSize <- 5, Noise <- [i \in 0..2 |-> 0], Evictions <- FALSE,
    Failures <- FALSE,
    st <- v1, platter <- v2, held <- v3, writers <- v4, excused <- v5

\* Handlers that block no other signal.
Chain == INSTANCE Signals WITH
    Sigs <- {1, 3}, SIGRTMIN <- 3, Default <- [n \in {1, 3} |-> "term"], RT_QUEUE_CAP <- 2,
    SaMask <- [n \in {1, 3} |-> {}], NoDefer <- {}, HandlerCalls <- 1,
    MaxNested <- 2, WrapAt <- 65536, proc <- v1

Init ==
    \/ Load = "close" /\ Close!Init
    \/ Load = "order" /\ Order!Init /\ v6 = 0
    \/ Load = "chain" /\ Chain!Init /\ v2 = 0 /\ v3 = 0 /\ v4 = 0 /\ v5 = 0 /\ v6 = 0

Next ==
    \/ Load = "close" /\ Close!Next
    \/ Load = "order" /\ Order!Next /\ UNCHANGED v6
    \/ Load = "chain" /\ Chain!Next /\ UNCHANGED <<v2, v3, v4, v5, v6>>

Spec == Init /\ [][Next]_all

-----------------------------------------------------------------------------
\* vrele: "the caller's reference keeps it live".  No vnode is freed while a
\* descriptor, a call under way or a table names it.
NoDangling == Load = "close" => Close!NoDangling

\* oxfs buf.rs: "a pointer never reaches the disk before what it points at".
\* Whenever the machine stops, an inode leads only to its own blocks.
PointersFollow == Load = "order" => Order!PointersFollow

\* take_deliverable_signal: a chained call "may only consume an instance the
\* cascade's *outermost* snapshot already accounted for".
ChainWithinSnapshot == Load = "chain" => Chain!ChainWithinSnapshot
=============================================================================
