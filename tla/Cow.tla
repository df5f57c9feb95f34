--------------------------------- MODULE Cow --------------------------------
(***************************************************************************)
(* Copy-on-write fork (sys/memory/refs.rs, sys/memory/address_space.rs and *)
(* the faults of sys/process/mm.rs): the leaves of the page tables of each *)
(* address space, the count of extra sharers of each frame, the frames     *)
(* that are free, and what each frame holds.  Only private anonymous pages *)
(* are here; those of files are in PageCache.  Scratch is the one page the *)
(* fork copies at once, because the fault path itself writes it; the map   *)
(* has it as the kernel's, and refuses to unmap or protect it.             *)
(***************************************************************************)
EXTENDS Integers, FiniteSets, FiniteSetsExt

CONSTANTS
    Spaces,         \* address spaces
    Pages,          \* the pages of each, in the order fork visits them
    Scratch,        \* the one fork copies
    Frames,         \* frame numbers; 0 is no frame
    Values, Zero,   \* what is written, and what a new page holds
    MaxRefs,        \* what the count of sharers stays below
    Accesses        \* what mprotect asks for: "rw", "r" or "none"

NoLeaf == [frame |-> 0, write |-> FALSE, cow |-> FALSE, none |-> FALSE]
Absent == "absent"

ASSUME SpaceAssumption == IsFiniteSet(Spaces) /\ IsFiniteSet(Pages) /\ Pages \subseteq Nat /\ Scratch \in Pages
ASSUME FrameAssumption == Frames \subseteq Nat \ {0} /\ MaxRefs \in Nat
ASSUME ValueAssumption == Absent \notin Values \cup {Zero} /\ "rw" \in Accesses

VARIABLES
    alive,      \* the address spaces that exist
    leaf,       \* leaf[s][p]: frame, WRITABLE, COW_LEAF, PROT_NONE_LEAF
    prot,       \* prot[s][p]: "rw", "r" or "none": what the map allows
    refs,       \* extra sharers of each frame
    free,       \* the frame allocator's frames
    data        \* what each frame holds

cowVars == <<alive, leaf, prot, refs, free, data>>

mem == [s \in Spaces |-> [p \in Pages |->
            IF leaf[s][p] = NoLeaf THEN Absent ELSE data[leaf[s][p].frame]]]

Flags(f, w, c) == [frame |-> f, write |-> w, cow |-> c, none |-> FALSE]

\* share fails when the count is full; release says whether it was the last.
CanShare(f) == refs[f] + 1 < MaxRefs
sole_owner_MUT(f) == refs[f] <= 1
sole_owner(f) == refs[f] = 0

\* free_table_level and munmap drop the leaves of a set of pages, each its own
\* frame.
release_MUT(S) ==
    /\ refs' = [f \in Frames |-> IF f \in S /\ refs[f] > 0 THEN refs[f] - 1 ELSE refs[f]]
    /\ free' = free \cup {f \in S : refs[f] <= 1}
release(S) ==
    /\ refs' = [f \in Frames |-> IF f \in S /\ refs[f] > 0 THEN refs[f] - 1 ELSE refs[f]]
    /\ free' = free \cup {f \in S : refs[f] = 0}

FramesOf(s) == {leaf[s][p].frame : p \in {q \in Pages : leaf[s][q] # NoLeaf}}

-----------------------------------------------------------------------------
\* try_fill_anon: the first touch of a page gets a zeroed frame.
try_fill_anon(s, p) ==
    /\ s \in alive /\ p # Scratch /\ leaf[s][p] = NoLeaf /\ prot[s][p] # "none" /\ free # {}
    /\ LET f == Min(free) IN
       /\ leaf' = [leaf EXCEPT ![s][p] = Flags(f, prot[s][p] = "rw", FALSE)]
       /\ data' = [data EXCEPT ![f] = Zero]
       /\ free' = free \ {f}
    /\ UNCHANGED <<alive, prot, refs>>

Store(s, p, v) ==
    /\ s \in alive /\ leaf[s][p].write /\ ~leaf[s][p].none
    /\ data' = [data EXCEPT ![leaf[s][p].frame] = v]
    /\ UNCHANGED <<alive, leaf, prot, refs, free>>

\* try_resolve_cow: the first write to a shared page.  With no frame left the
\* fault fails and nothing changes.
try_resolve_cow(s, p) ==
    LET old == leaf[s][p].frame IN
    /\ s \in alive /\ leaf[s][p].cow /\ ~leaf[s][p].none
    /\ UNCHANGED <<alive, prot>>
    /\ \/ /\ sole_owner(old)
          /\ leaf' = [leaf EXCEPT ![s][p] = Flags(old, TRUE, FALSE)]
          /\ UNCHANGED <<refs, free, data>>
       \/ /\ ~sole_owner(old) /\ free # {}
          /\ LET new == Min(free) IN
             /\ leaf' = [leaf EXCEPT ![s][p] = Flags(new, TRUE, FALSE)]
             /\ data' = [data EXCEPT ![new] = data[old]]
             /\ refs' = [refs EXCEPT ![old] = IF @ > 0 THEN @ - 1 ELSE @]
             /\ free' = (free \ {new}) \cup (IF refs[old] = 0 THEN {old} ELSE {})

-----------------------------------------------------------------------------
\* cow_flags: what may be written no longer is, until the fault.
cow_flags(l) == IF l.write THEN [l EXCEPT !.write = FALSE, !.cow = TRUE] ELSE l

\* copy_table_level visits the pages in order and stops at the first frame whose
\* count is full: S is the set of pages it has shared.
Present(s) == {p \in Pages : leaf[s][p] # NoLeaf}
Shared(s) == {p \in Present(s) : \A q \in Present(s) : q <= p => CanShare(leaf[s][q].frame)}
Cowed(s, S) == [p \in Pages |-> IF p \in S THEN cow_flags(leaf[s][p]) ELSE leaf[s][p]]
FramesAt(s, S) == {leaf[s][p].frame : p \in S}

Copies_MUT(s) == FALSE
Copies(s) == LET l == leaf[s][Scratch] IN cow_flags(l).cow /\ ~l.none

\* fork: every leaf is shared, then unshare gives the child its own scratch page.
fork(s, t) ==
    LET old == leaf[s][Scratch].frame
        new == Min(free)
        copy == Copies(s)
        own(f) == [Cowed(s, Present(s))[Scratch] EXCEPT !.frame = f, !.cow = FALSE, !.write = TRUE]
    IN  /\ s \in alive /\ t \notin alive /\ Shared(s) = Present(s)
        /\ copy => free # {}
        /\ alive' = alive \cup {t}
        /\ prot' = [prot EXCEPT ![t] = prot[s]]
        /\ leaf' = [leaf EXCEPT ![s] = IF copy THEN [Cowed(s, Present(s)) EXCEPT ![Scratch] = own(old)]
                                       ELSE Cowed(s, Present(s)),
                                ![t] = IF copy THEN [Cowed(s, Present(s)) EXCEPT ![Scratch] = own(new)]
                                       ELSE Cowed(s, Present(s))]
        /\ refs' = [f \in Frames |-> IF f \in FramesOf(s) \ (IF copy THEN {old} ELSE {})
                                     THEN refs[f] + 1 ELSE refs[f]]
        /\ free' = IF copy THEN free \ {new} ELSE free
        /\ data' = IF copy THEN [data EXCEPT ![new] = data[old]] ELSE data

\* A count is full, no frame is left for the scratch page, or none for a page table
\* on the way to page q: what was shared is given back by free_table_level, and the
\* parent's leaves stay marked.
forkFails(s) ==
    LET full == Shared(s) # Present(s)
    IN  /\ s \in alive /\ alive # Spaces
        /\ \/ /\ full \/ (Copies(s) /\ free = {})
              /\ leaf' = [leaf EXCEPT ![s] = Cowed(s, Shared(s))]
           \/ \E q \in Pages : leaf' = [leaf EXCEPT ![s] = Cowed(s, {p \in Shared(s) : p < q})]
        /\ UNCHANGED <<alive, prot, refs, free, data>>

-----------------------------------------------------------------------------
\* munmap of one page, and the end of an address space (teardown).
munmap(s, p) ==
    /\ s \in alive /\ p # Scratch /\ leaf[s][p] # NoLeaf
    /\ leaf' = [leaf EXCEPT ![s][p] = NoLeaf]
    /\ release({leaf[s][p].frame})
    /\ UNCHANGED <<alive, prot, data>>

teardown(s) ==
    /\ s \in alive
    /\ alive' = alive \ {s}
    /\ leaf' = [leaf EXCEPT ![s] = [p \in Pages |-> NoLeaf]]
    /\ release(FramesOf(s))
    /\ prot' = [prot EXCEPT ![s] = [p \in Pages |-> "rw"]]
    /\ UNCHANGED data

\* mprotect of one page: PROT_NONE keeps the frame and the flags; made
\* accessible again the page is writable only if nobody else maps its frame.
Reprotected(l, p) ==
    IF p = "none" THEN [l EXCEPT !.none = TRUE]
    ELSE [l EXCEPT !.none = FALSE,
                   !.write = (p = "rw" /\ sole_owner(l.frame)),
                   !.cow = (p = "rw" /\ ~sole_owner(l.frame))]

do_mprotect(s, p, new) ==
    /\ s \in alive /\ p # Scratch /\ new # prot[s][p]
    /\ prot' = [prot EXCEPT ![s][p] = new]
    /\ leaf' = IF leaf[s][p] = NoLeaf THEN leaf ELSE [leaf EXCEPT ![s][p] = Reprotected(@, new)]
    /\ UNCHANGED <<alive, refs, free, data>>

\* exec makes an address space with its scratch page and nothing else.
exec(s) ==
    /\ s \notin alive /\ free # {}
    /\ alive' = alive \cup {s}
    /\ \E f \in {Min(free)} :
         /\ leaf' = [leaf EXCEPT ![s][Scratch] = Flags(f, TRUE, FALSE)]
         /\ data' = [data EXCEPT ![f] = Zero]
         /\ free' = free \ {f}
    /\ UNCHANGED <<prot, refs>>

CowInit ==
    /\ alive = {}
    /\ leaf = [s \in Spaces |-> [p \in Pages |-> NoLeaf]]
    /\ prot = [s \in Spaces |-> [p \in Pages |-> "rw"]]
    /\ refs = [f \in Frames |-> 0]
    /\ free = Frames
    /\ data = [f \in Frames |-> Zero]

CowNext == \E s \in Spaces :
    \/ \E p \in Pages :
         \/ try_fill_anon(s, p) \/ try_resolve_cow(s, p) \/ munmap(s, p)
         \/ \E v \in Values : Store(s, p, v)
         \/ \E new \in Accesses : do_mprotect(s, p, new)
    \/ \E t \in Spaces : fork(s, t)
    \/ forkFails(s) \/ teardown(s) \/ exec(s)

CowSpec == CowInit /\ [][CowNext]_cowVars

-----------------------------------------------------------------------------
Leaf == [frame : Frames \cup {0}, write : BOOLEAN, cow : BOOLEAN, none : BOOLEAN]

\* Type correctness.
CowTypeOK ==
    /\ alive \subseteq Spaces /\ free \subseteq Frames
    /\ leaf \in [Spaces -> [Pages -> Leaf]]
    /\ prot \in [Spaces -> [Pages -> Accesses]]
    /\ refs \in [Frames -> 0..MaxRefs]
    /\ data \in [Frames -> Values \cup {Zero}]

Mappers(f) == {x \in Spaces \X Pages : leaf[x[1]][x[2]].frame = f}

\* A frame is free when no leaf maps it, and the count is one less than the
\* leaves that do: nothing is leaked and nothing is freed while mapped, through
\* forks that fail half way, exits, and pages that are PROT_NONE.
RefsExact == \A f \in Frames :
    /\ f \in free <=> Mappers(f) = {}
    /\ refs[f] = IF Mappers(f) = {} THEN 0 ELSE Cardinality(Mappers(f)) - 1

\* A page the program may write is written or faulted on, never read-only for
\* good, and one it may not write is neither.
WriteAllowed == \A s \in alive, p \in Pages :
    leaf[s][p] # NoLeaf /\ prot[s][p] # "none" =>
        (leaf[s][p].write \/ leaf[s][p].cow <=> prot[s][p] = "rw") /\ ~leaf[s][p].none

\* The scratch page is written on the way to every fault signal, the OOM
\* killer's among them: the write never needs a frame, after any fork, failed
\* or not.
ScratchNeedsNoFrame == \A s \in alive :
    LET l == leaf[s][Scratch] IN l.write \/ (l.cow /\ sole_owner(l.frame))

\* A write the map allows goes through or faults to a copy, and that of the
\* scratch page needs no frame.
WritesGoThrough == WriteAllowed /\ ScratchNeedsNoFrame

\* Every address space has memory of its own: a step of one changes nothing
\* another sees, and a fork copies all of it.
Private == INSTANCE PrivateMemory
PrivateSpec == Private!Spec
=============================================================================
