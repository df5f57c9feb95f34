-------------------------------- MODULE VmMap -------------------------------
(***************************************************************************)
(* The map of a user address space (sys/process/vm_map.rs): entries keyed  *)
(* by their first page, split where an operation on a range begins and     *)
(* ends; their total size, which RLIMIT_AS measures; and the cursor that   *)
(* spares find_space the search of what is known to be full.  Addresses    *)
(* are page numbers.  Whether an entry is shared is left out: no operation *)
(* looks at it.                                                            *)
(***************************************************************************)
EXTENDS Integers, FiniteSets, FiniteSetsExt

CONSTANTS
    lo, hi,         \* the pages mappings are placed in: lo .. hi - 1
    mmap_base,      \* where find_space begins
    Prots,          \* the rights a protection is a set of
    Kinds,          \* what an entry maps: "anon", "file", "heap", "stack", "kernel"
    Lengths,        \* lengths, in pages, that are asked for
    Hints,          \* addresses mmap is asked to look from; 0 is none
    FilePages       \* the first page of the file a new mapping may show

ASSUME RangeAssumption == lo \in Nat /\ hi \in Nat /\ mmap_base \in Nat /\ lo <= mmap_base
ASSUME FileAssumption == FilePages \subseteq Nat
ASSUME AskedAssumption == Lengths \subseteq Nat \ {0} /\ Hints \subseteq Nat

VARIABLES
    entries,    \* records: pages start .. end - 1
    size,
    cursor      \* base and at: where searches from base may begin

vars == <<entries, size, cursor>>

Entry == [start : lo..hi, end : lo..hi, prot : SUBSET Prots, max : SUBSET Prots, kind : Kinds, page : Nat]

Covers(e, a) == e.start <= a /\ a < e.end

\* lookup: the last entry that begins at or before a, if it reaches a.
lookup(a) == {e \in entries : Covers(e, a) /\ \A f \in entries : f.start <= a => f.start <= e.start}

\* overlaps: the last entry that begins before the range reaches into it, or
\* one begins inside it.
overlaps(start, end) ==
    \/ \E e \in entries : e.start < start /\ e.end > start
    \/ \E e \in entries : start <= e.start /\ e.start < end

covered(start, end) == \A a \in start..(end - 1) : lookup(a) # {}

touches_kernel(start, end) ==
    \E e \in entries : e.kind = "kernel" /\ (Covers(e, start) \/ (start <= e.start /\ e.start < end))

counted(e) == IF e.kind \in {"kernel", "stack"} THEN 0 ELSE e.end - e.start
SizeOf(E) == MapThenSumSet(counted, E)

freed_MUT(at) == cursor
freed(at) == IF at < cursor.at THEN [cursor EXCEPT !.at = Max({at, cursor.base})] ELSE cursor

-----------------------------------------------------------------------------
\* split_at: the entry that contains at, not at its start, becomes two.
tail_MUT(e, at) == [e EXCEPT !.start = at]
tail(e, at) == [e EXCEPT !.start = at, !.page = IF e.kind = "file" THEN @ + (at - e.start) ELSE @]

Cut(E, at) == {e \in E : e.start < at /\ at < e.end}
split_at(E, at) ==
    (E \ Cut(E, at)) \cup {[e EXCEPT !.end = at] : e \in Cut(E, at)}
                     \cup {tail(e, at) : e \in Cut(E, at)}

Split(start, end) == split_at(split_at(entries, start), end)
Within(E, start, end) == {e \in E : start <= e.start /\ e.start < end}

\* insert: the cursor moves on past entries that follow one another.
Chain(E, at) == LET stops == {at} \cup {e.end : e \in E}
                IN  CHOOSE a \in stops : /\ at <= a /\ \A e \in E : e.start # a
                                         /\ \A b \in stops : at <= b /\ b < a => \E e \in E : e.start = b

Insert(e) ==
    /\ e.start < e.end /\ ~overlaps(e.start, e.end)
    /\ entries' = entries \cup {e}
    /\ size' = size + counted(e)
    /\ cursor' = [cursor EXCEPT !.at = Chain(entries \cup {e}, @)]

insert(start, len, prot, max, kind, page) ==
    Insert([start |-> start, end |-> start + len, prot |-> prot, max |-> max, kind |-> kind, page |-> page])

remove(start, end) ==
    LET E == Split(start, end)
        gone == Within(E, start, end)
    IN  /\ start < end /\ ~touches_kernel(start, end)
        /\ entries' = E \ gone
        /\ size' = size - SizeOf(gone)
        /\ cursor' = freed(start)

protect(start, end, prot) ==
    LET E == Split(start, end)
        changed == Within(E, start, end)
    IN  /\ start < end /\ covered(start, end) /\ ~touches_kernel(start, end)
        /\ \A a \in start..(end - 1) : \A e \in lookup(a) : prot \subseteq e.max
        /\ entries' = (E \ changed) \cup {[e EXCEPT !.prot = prot] : e \in changed}
        /\ UNCHANGED <<size, cursor>>

\* set_end: the heap grows or shrinks.
set_end(e, new_end) ==
    LET moved == [e EXCEPT !.end = new_end] IN
    /\ e \in entries /\ e.kind = "heap" /\ new_end >= e.start
    /\ new_end > e.end => ~overlaps(e.end, new_end)
    /\ cursor' = freed(new_end)
    /\ entries' = (entries \ {e}) \cup (IF new_end = e.start THEN {} ELSE {moved})
    /\ size' = (size - counted(e)) + (IF new_end = e.start THEN 0 ELSE counted(moved))

\* set_start: the stack grows.
set_start(e, new_start) ==
    LET moved == [e EXCEPT !.start = new_start] IN
    /\ e \in entries /\ e.kind = "stack" /\ new_start < e.end
    /\ new_start < e.start => ~overlaps(new_start, e.start)
    /\ entries' = (entries \ {e}) \cup {moved}
    /\ cursor' = freed(e.start)
    /\ size' = (size - counted(e)) + counted(moved)

-----------------------------------------------------------------------------
\* set_base: exec has chosen where searches begin.
set_base ==
    LET at == IF lookup(mmap_base) = {} THEN mmap_base ELSE (CHOOSE e \in lookup(mmap_base) : TRUE).end
    IN  cursor' = [base |-> mmap_base, at |-> Chain(entries, at)] /\ UNCHANGED <<entries, size>>

room_at_MUT(at, len) == at < hi
room_at(at, len) == at + len <= hi

\* find_space: the first gap at or above the hint, else from mmap_base on, where
\* the search begins at the cursor, else from lo.  None is hi, where nothing fits.
first_fit(from, len) ==
    LET begin == Max({from, lo})
        at0 == IF lookup(begin) = {} THEN begin ELSE (CHOOSE e \in lookup(begin) : TRUE).end
        later == {e \in entries : at0 <= e.start}
        \* at, when the loop has come to the entry at s
        at(s) == Max({at0} \cup {e.end : e \in {f \in later : f.start < s}})
        gaps == {s \in {e.start : e \in later} : s - at(s) >= len}
        last == at(Min(gaps \cup {hi}))
    IN  IF room_at(last, len) THEN last ELSE hi

find_space(len, hint) ==
    LET from == IF cursor.base = mmap_base THEN Max({cursor.at, mmap_base}) ELSE mmap_base
    IN  IF hint # 0 /\ first_fit(hint, len) # hi THEN first_fit(hint, len)
        ELSE IF first_fit(from, len) # hi THEN first_fit(from, len)
        ELSE first_fit(lo, len)

\* reserve: mmap where the map finds room.
reserve(len, hint, prot, max, kind, page) ==
    LET at == find_space(len, hint) IN at # hi /\ insert(at, len, prot, max, kind, page)

Init == entries = {} /\ size = 0 /\ cursor = [base |-> 0, at |-> 0]

Next ==
    \/ \E len \in Lengths, prot, max \in SUBSET Prots, kind \in Kinds, page \in FilePages :
         /\ prot \subseteq max
         /\ \/ \E start \in lo..(hi - len) : insert(start, len, prot, max, kind, page)
            \/ \E hint \in Hints : reserve(len, hint, prot, max, kind, page)
    \/ \E start, end \in lo..hi :
         \/ remove(start, end)
         \/ \E prot \in SUBSET Prots : protect(start, end, prot)
    \/ \E e \in entries, a \in lo..hi : set_end(e, a) \/ set_start(e, a)
    \/ set_base

Spec == Init /\ [][Next]_vars

-----------------------------------------------------------------------------
\* Type correctness.
TypeOK == entries \in SUBSET Entry /\ size \in Nat /\ cursor \in [base : Nat, at : Nat]

\* Entries are disjoint and none is empty, whatever ranges the operations have
\* split them at.
Disjoint ==
    /\ \A e \in entries : e.start < e.end
    /\ \A e, f \in entries : e # f => e.end <= f.start \/ f.end <= e.start

\* size is the sum of the lengths, the stack's and the kernel's left out, after
\* every split and removal.
SizeExact == size = SizeOf(entries)

\* No page between the base of the cursor and the cursor is free.
CursorSound == \A a \in cursor.base..(cursor.at - 1) : \E e \in entries : Covers(e, a)

\* find_space finds the first gap there is, from where it is told to look.
Fits(a, len) == a + len <= hi /\ \A b \in a..(a + len - 1) : \A e \in entries : ~Covers(e, b)
FirstFrom(from, len) == LET fits == {a \in from..hi : lo <= a /\ Fits(a, len)} IN IF fits = {} THEN hi ELSE Min(fits)
FindsFirstFit == \A len \in Lengths, hint \in Hints :
    find_space(len, hint) =
        IF hint # 0 /\ FirstFrom(hint, len) # hi THEN FirstFrom(hint, len)
        ELSE IF FirstFrom(mmap_base, len) # hi THEN FirstFrom(mmap_base, len)
        ELSE FirstFrom(lo, len)

\* The map's books agree with its entries: disjoint, their sizes summed up, no
\* free page below the cursor, and find_space returns the first gap there is.
MapSound == Disjoint /\ SizeExact /\ CursorSound /\ FindsFirstFit

\* The map is a map of pages: each operation does to the pages of its range
\* what it says and nothing to any other, and a file's pages keep their places
\* when an entry is split.
Attr(e, a) == [prot |-> e.prot, max |-> e.max, kind |-> e.kind,
               page |-> IF e.kind = "file" THEN e.page + (a - e.start) ELSE e.page]
PagesOf(E) == UNION {{<<a, Attr(e, a)>> : a \in e.start..(e.end - 1)} : e \in E}

Abstract == INSTANCE VmPages WITH contents <- PagesOf(entries), Ranges <- {s..(t - 1) : s, t \in lo..hi}
PagesSpec == Abstract!Spec
=============================================================================
