---------------------------- MODULE VmMapProofs -----------------------------
(***************************************************************************)
(* The map of an address space, for any range of pages and any sequence of *)
(* operations: its entries stay disjoint, size is their total, nothing     *)
(* below the cursor is free, find_space finds the first gap there is, and  *)
(* the map of entries implements the map of pages of VmPages.              *)
(***************************************************************************)
EXTENDS VmMap, FiniteSetTheorems, TLAPS

-----------------------------------------------------------------------------
(* Least and greatest elements.                                            *)

\* A set of naturals that is not empty has a least element.
LEMMA LeastNat ==
    ASSUME NEW T \in SUBSET Nat, T # {}
    PROVE  \E x \in T : \A y \in T : x <= y
<1> DEFINE R == {ss \in Nat \X Nat : ss[1] < ss[2]}
<1>1. IsWellFoundedOn(R, Nat)
  BY NatLessThanWellFounded DEF OpToRel
<1> HIDE DEF R
<1>2. PICK x \in T : \A y \in T : ~(<<y, x>> \in R)
  BY <1>1, WFMin, Zenon
<1>3. \A y \in T : ~(y < x)
  BY <1>2, Zenon DEF R
<1> QED BY <1>3

\* One that is bounded has a greatest.
LEMMA GreatestNat ==
    ASSUME NEW T \in SUBSET Nat, T # {}, NEW b \in Nat, \A y \in T : y <= b
    PROVE  \E x \in T : \A y \in T : y <= x
<1> DEFINE U == {n \in Nat : \A y \in T : y <= n}
<1>1. PICK m \in U : \A n \in U : m <= n
  <2>1. U # {}
    OBVIOUS
  <2> QED BY <2>1, LeastNat, Zenon
<1>2. m \in T
  <2> SUFFICES ASSUME m \notin T PROVE FALSE
    OBVIOUS
  <2>1. PICK y \in T : TRUE
    BY Zenon
  <2>2. m \in Nat /\ \A z \in T : z < m
    OBVIOUS
  <2>3. m - 1 \in U
    BY <2>1, <2>2
  <2> QED BY <2>2, <2>3, <1>1
<1> QED BY <1>1, <1>2

\* What Min returns.
LEMMA MinNat ==
    ASSUME NEW T \in SUBSET Nat, T # {}
    PROVE  Min(T) \in T /\ Min(T) \in Nat /\ \A y \in T : Min(T) <= y
<1>1. \E x \in T : \A y \in T : x <= y
  BY LeastNat
<1> QED BY <1>1, Zenon DEF Min

\* What Max returns, of a set that is bounded.
LEMMA MaxNat ==
    ASSUME NEW T \in SUBSET Nat, T # {}, NEW b \in Nat, \A y \in T : y <= b
    PROVE  Max(T) \in T /\ Max(T) \in Nat /\ \A y \in T : y <= Max(T)
<1>1. \E x \in T : \A y \in T : x >= y
  <2>1. \E x \in T : \A y \in T : y <= x
    BY GreatestNat, Zenon
  <2> QED BY <2>1
<1> QED BY <1>1, Zenon DEF Max

\* Max of two numbers, as find_space and freed use it.
LEMMA MaxPair ==
    ASSUME NEW a \in Nat, NEW b \in Nat
    PROVE  Max({a, b}) = IF a >= b THEN a ELSE b
<1>1. \E x \in {a, b} : \A y \in {a, b} : x >= y
  OBVIOUS
<1>2. Max({a, b}) \in {a, b} /\ \A y \in {a, b} : Max({a, b}) >= y
  BY <1>1, Zenon DEF Max
<1> QED BY <1>2

-----------------------------------------------------------------------------
(* Sets of entries as sets of pages.                                       *)

\* Entries that can be those of a map.
Sound(E) ==
    /\ E \in SUBSET Entry
    /\ \A e \in E : e.start < e.end
    /\ \A e, f \in E : e # f => e.end <= f.start \/ f.end <= e.start

\* The pages that count for the size.
CountedPages(E) == {a \in Nat : \E e \in E : e.kind \notin {"kernel", "stack"} /\ Covers(e, a)}

\* Page a has the attributes v; two sets of entries agree on every page.
Shows(E, a, v) == \E e \in E : Covers(e, a) /\ Attr(e, a) = v
SamePages(E, F) == \A a \in Nat : \A v : Shows(E, a, v) <=> Shows(F, a, v)

\* The fields of an entry.
LEMMA EntryFields ==
    ASSUME NEW e \in Entry
    PROVE  /\ e.start \in Nat /\ e.end \in Nat /\ e.page \in Nat
           /\ lo <= e.start /\ e.start <= hi /\ lo <= e.end /\ e.end <= hi
           /\ e.prot \in SUBSET Prots /\ e.max \in SUBSET Prots /\ e.kind \in Kinds
BY RangeAssumption DEF Entry

\* The pairs of a set of entries are what its pages show.
LEMMA PagesShown ==
    ASSUME NEW E \in SUBSET Entry, NEW a, NEW v
    PROVE  <<a, v>> \in PagesOf(E) <=> a \in Nat /\ Shows(E, a, v)
<1>1. ASSUME <<a, v>> \in PagesOf(E) PROVE a \in Nat /\ Shows(E, a, v)
  <2>1. PICK e \in E : <<a, v>> \in {<<b, Attr(e, b)>> : b \in e.start..(e.end - 1)}
    BY <1>1, Zenon DEF PagesOf
  <2>2. PICK b \in e.start..(e.end - 1) : <<a, v>> = <<b, Attr(e, b)>>
    BY <2>1, Zenon
  <2>3. a = b /\ v = Attr(e, a)
    BY <2>2
  <2>4. a \in Nat /\ Covers(e, a)
    BY <2>3, EntryFields DEF Covers
  <2> QED BY <2>3, <2>4, Zenon DEF Shows
<1>2. ASSUME a \in Nat, Shows(E, a, v) PROVE <<a, v>> \in PagesOf(E)
  <2>1. PICK e \in E : Covers(e, a) /\ Attr(e, a) = v
    BY <1>2, Zenon DEF Shows
  <2>2. a \in e.start..(e.end - 1)
    BY <1>2, <2>1, EntryFields DEF Covers
  <2>3. <<a, v>> \in {<<b, Attr(e, b)>> : b \in e.start..(e.end - 1)}
    BY <2>1, <2>2, Zenon
  <2> QED BY <2>3, Zenon DEF PagesOf
<1> QED BY <1>1, <1>2

\* They are pairs.
LEMMA PagesArePairs ==
    ASSUME NEW E, NEW c \in PagesOf(E)
    PROVE  \E a, v : c = <<a, v>>
BY Zenon DEF PagesOf

\* Sets that agree on every page are the same as pairs and count alike.
LEMMA SameFacts ==
    ASSUME NEW E \in SUBSET Entry, NEW F \in SUBSET Entry, SamePages(E, F)
    PROVE  /\ PagesOf(E) = PagesOf(F)
           /\ CountedPages(E) = CountedPages(F)
           /\ \A a \in Nat : (\E e \in E : Covers(e, a)) <=> (\E f \in F : Covers(f, a))
<1>1. \A a, v : <<a, v>> \in PagesOf(E) <=> <<a, v>> \in PagesOf(F)
  BY PagesShown, Zenon DEF SamePages
<1>2. \A c \in PagesOf(E) \cup PagesOf(F) : \E a, v : c = <<a, v>>
  BY PagesArePairs, Zenon
<1>3. PagesOf(E) = PagesOf(F)
  <2>1. ASSUME NEW c \in PagesOf(E) PROVE c \in PagesOf(F)
    <3>1. PICK a, v : c = <<a, v>>
      BY <1>2, Zenon
    <3> QED BY <3>1, <1>1
  <2>2. ASSUME NEW c \in PagesOf(F) PROVE c \in PagesOf(E)
    <3>1. PICK a, v : c = <<a, v>>
      BY <1>2, Zenon
    <3> QED BY <3>1, <1>1
  <2> QED BY <2>1, <2>2, Zenon
<1>4. ASSUME NEW a \in Nat, NEW A \in SUBSET Entry, NEW B \in SUBSET Entry, SamePages(A, B),
             NEW e \in A, Covers(e, a)
      PROVE  \E f \in B : Covers(f, a) /\ f.kind = e.kind
  <2>1. PICK f \in B : Covers(f, a) /\ Attr(f, a) = Attr(e, a)
    BY <1>4, Zenon DEF SamePages, Shows
  <2>2. f.kind = e.kind
    BY <2>1 DEF Attr
  <2> QED BY <2>1, <2>2
<1>5. SamePages(F, E)
  BY Zenon DEF SamePages
<1>6. CountedPages(E) = CountedPages(F)
  <2>1. \A a \in CountedPages(E) : a \in CountedPages(F)
    BY <1>4 DEF CountedPages
  <2>2. \A a \in CountedPages(F) : a \in CountedPages(E)
    BY <1>4, <1>5 DEF CountedPages
  <2> QED BY <2>1, <2>2, Zenon DEF CountedPages
<1> QED BY <1>3, <1>4, <1>5, <1>6, Zenon

\* There are finitely many entries: no two begin at the same page.
LEMMA SoundFinite ==
    ASSUME NEW E, Sound(E)
    PROVE  IsFiniteSet(E)
<1> DEFINE f == [e \in E |-> e.start]
<1>1. f \in [E -> lo..hi]
  BY EntryFields, RangeAssumption DEF Sound
<1>2. ASSUME NEW d \in E, NEW e \in E, f[d] = f[e]
      PROVE  d = e
  <2>1. d.start = e.start /\ d \in Entry /\ e \in Entry
    BY <1>2 DEF Sound
  <2> QED BY <2>1, EntryFields DEF Sound
<1>3. f \in Injection(E, lo..hi)
  BY <1>1, <1>2, Zenon DEF Injection, IsInjective
<1>4. IsFiniteSet(lo..hi)
  BY RangeAssumption, FS_Interval
<1> QED BY <1>3, <1>4, FS_Injection, Zenon

\* The two pieces of an entry that is cut show what it showed.
LEMMA CutPieces ==
    ASSUME NEW e \in Entry, NEW at \in Nat, e.start < at, at < e.end
    PROVE  LET h == [e EXCEPT !.end = at]
               t == tail(e, at)
           IN  /\ h \in Entry /\ h.start = e.start /\ h.end = at /\ h.kind = e.kind
               /\ t \in Entry /\ t.start = at /\ t.end = e.end /\ t.kind = e.kind
               /\ h.max = e.max /\ t.max = e.max
               /\ \A a \in Nat : Attr(h, a) = Attr(e, a) /\ Attr(t, a) = Attr(e, a)
<1> DEFINE h == [e EXCEPT !.end = at]
           t == tail(e, at)
           p == IF e.kind = "file" THEN e.page + (at - e.start) ELSE e.page
<1>1. /\ e.start \in Nat /\ e.end \in Nat /\ e.page \in Nat
      /\ lo <= e.start /\ e.start <= hi /\ lo <= e.end /\ e.end <= hi
  BY EntryFields
<1>2. at \in lo..hi /\ p \in Nat
  BY <1>1, RangeAssumption
<1>3. /\ h \in Entry /\ h.start = e.start /\ h.end = at /\ h.kind = e.kind
      /\ h.max = e.max /\ h.prot = e.prot /\ h.page = e.page
  BY <1>2 DEF Entry
<1>4. t = [e EXCEPT !.start = at, !.page = p]
  BY DEF tail
<1>5. /\ t \in Entry /\ t.start = at /\ t.end = e.end /\ t.kind = e.kind
      /\ t.max = e.max /\ t.prot = e.prot /\ t.page = p
  BY <1>2, <1>4, Zenon DEF Entry
<1>6. ASSUME NEW a \in Nat
      PROVE  Attr(h, a) = Attr(e, a) /\ Attr(t, a) = Attr(e, a)
  <2>1. Attr(h, a) = Attr(e, a)
    BY <1>3 DEF Attr
  <2>2. (IF t.kind = "file" THEN t.page + (a - t.start) ELSE t.page)
        = IF e.kind = "file" THEN e.page + (a - e.start) ELSE e.page
    BY <1>1, <1>5
  <2> QED BY <2>1, <2>2, <1>5, Zenon DEF Attr
<1> HIDE DEF h, t
<1>7. /\ h \in Entry /\ h.start = e.start /\ h.end = at /\ h.kind = e.kind
      /\ t \in Entry /\ t.start = at /\ t.end = e.end /\ t.kind = e.kind
      /\ h.max = e.max /\ t.max = e.max
      /\ \A a \in Nat : Attr(h, a) = Attr(e, a) /\ Attr(t, a) = Attr(e, a)
  BY <1>3, <1>5, <1>6, Zenon
<1> QED BY <1>7, Zenon DEF h, t

\* Splitting at a page changes nothing that is shown, and leaves no entry
\* across it.
LEMMA SplitAt ==
    ASSUME NEW E, Sound(E), NEW at \in Nat
    PROVE  /\ Sound(split_at(E, at)) /\ SamePages(E, split_at(E, at))
           /\ \A f \in split_at(E, at) : at <= f.start \/ f.end <= at
           /\ \A f \in split_at(E, at) : \E e \in E : e.start <= f.start /\ f.end <= e.end
<1> DEFINE F == split_at(E, at)
           C == Cut(E, at)
           h(e) == [e EXCEPT !.end = at]
           t(e) == tail(e, at)
           from(f, e) == \/ e \notin C /\ f = e
                         \/ e \in C /\ (f = h(e) \/ f = t(e))
<1>1. \A e \in E : e \in Entry /\ e.start \in Nat /\ e.end \in Nat /\ e.start < e.end
  BY EntryFields DEF Sound
<1>2. \A e \in C : e \in E /\ e.start < at /\ at < e.end
  BY Zenon DEF Cut
<1>3. \A e \in C : /\ h(e) \in Entry /\ h(e).start = e.start /\ h(e).end = at
                   /\ t(e) \in Entry /\ t(e).start = at /\ t(e).end = e.end
                   /\ \A a \in Nat : Attr(h(e), a) = Attr(e, a) /\ Attr(t(e), a) = Attr(e, a)
  BY <1>1, <1>2, CutPieces, ZenonT(40)
<1>4. \A e \in E : e \notin C => at <= e.start \/ e.end <= at
  BY <1>1 DEF Cut
<1>5. F = (E \ C) \cup {h(e) : e \in C} \cup {t(e) : e \in C}
  BY Zenon DEF split_at
<1> HIDE DEF C, F, h, t
<1>6. \A f \in F : \E e \in E : from(f, e)
  BY <1>2, <1>5, Zenon
<1>7. \A e \in E : \A f : from(f, e) => f \in F
  BY <1>5, Zenon
<1>8. ASSUME NEW e \in E, NEW f, from(f, e)
      PROVE  /\ f \in Entry /\ f.start \in Nat /\ f.end \in Nat
             /\ e.start <= f.start /\ f.end <= e.end /\ f.start < f.end
             /\ at <= f.start \/ f.end <= at
             /\ \A a \in Nat : Attr(f, a) = Attr(e, a)
  <2>1. CASE e \notin C /\ f = e
    BY <2>1, <1>1, <1>4
  <2>2. CASE e \in C /\ f = h(e)
    BY <2>2, <1>1, <1>2, <1>3
  <2>3. CASE e \in C /\ f = t(e)
    BY <2>3, <1>1, <1>2, <1>3
  <2> QED BY <1>8, <2>1, <2>2, <2>3, Zenon
<1>9. ASSUME NEW f \in F, NEW g \in F, f # g
      PROVE  f.end <= g.start \/ g.end <= f.start
  <2>1. PICK d \in E : from(f, d)
    BY <1>6, Zenon
  <2>2. PICK e \in E : from(g, e)
    BY <1>6, Zenon
  <2>3. CASE d = e
    <3>1. e \in C /\ ((f = h(e) /\ g = t(e)) \/ (f = t(e) /\ g = h(e)))
      BY <1>9, <2>1, <2>2, <2>3, Zenon
    <3> QED BY <3>1, <1>3
  <2>4. CASE d # e
    <3>1. d.end <= e.start \/ e.end <= d.start
      BY <2>4, Zenon DEF Sound
    <3>2. /\ f.start \in Nat /\ f.end \in Nat /\ d.start <= f.start /\ f.end <= d.end
          /\ g.start \in Nat /\ g.end \in Nat /\ e.start <= g.start /\ g.end <= e.end
      BY <2>1, <2>2, <1>8, Zenon
    <3> QED BY <3>1, <3>2, <1>1
  <2> QED BY <2>3, <2>4
<1>10. Sound(F)
  <2>1. \A f \in F : f \in Entry /\ f.start < f.end
    BY <1>6, <1>8, Zenon
  <2> QED BY <2>1, <1>9, Zenon DEF Sound
<1>11. SamePages(E, F)
  <2>1. ASSUME NEW a \in Nat, NEW v, Shows(E, a, v) PROVE Shows(F, a, v)
    <3>1. PICK e \in E : Covers(e, a) /\ Attr(e, a) = v
      BY <2>1, Zenon DEF Shows
    <3>2. \E f : from(f, e) /\ Covers(f, a)
      <4>1. CASE e \notin C
        BY <3>1, <4>1, Zenon
      <4>2. CASE e \in C /\ a < at
        <5>1. Covers(h(e), a)
          BY <3>1, <4>2, <1>3 DEF Covers
        <5> QED BY <4>2, <5>1, Zenon
      <4>3. CASE e \in C /\ ~(a < at)
        <5>1. Covers(t(e), a)
          BY <3>1, <4>3, <1>3 DEF Covers
        <5> QED BY <4>3, <5>1, Zenon
      <4> QED BY <4>1, <4>2, <4>3, Zenon
    <3>3. PICK f : from(f, e) /\ Covers(f, a)
      BY <3>2, Zenon
    <3>4. f \in F /\ Attr(f, a) = v
      BY <3>1, <3>3, <1>7, <1>8, ZenonT(40)
    <3> QED BY <3>3, <3>4, Zenon DEF Shows
  <2>2. ASSUME NEW a \in Nat, NEW v, Shows(F, a, v) PROVE Shows(E, a, v)
    <3>1. PICK f \in F : Covers(f, a) /\ Attr(f, a) = v
      BY <2>2, Zenon DEF Shows
    <3>2. PICK e \in E : from(f, e)
      BY <1>6, Zenon
    <3>3. /\ f.start \in Nat /\ f.end \in Nat /\ e.start <= f.start /\ f.end <= e.end
          /\ Attr(f, a) = Attr(e, a)
      BY <3>2, <1>8, ZenonT(40)
    <3>4. Covers(e, a)
      BY <3>1, <3>3, <1>1 DEF Covers
    <3> QED BY <3>1, <3>3, <3>4, Zenon DEF Shows
  <2> QED BY <2>1, <2>2, Zenon DEF SamePages
<1>12. /\ \A f \in F : at <= f.start \/ f.end <= at
       /\ \A f \in F : \E e \in E : e.start <= f.start /\ f.end <= e.end
  BY <1>6, <1>8, Zenon
<1> QED BY <1>10, <1>11, <1>12, Zenon DEF F

\* The ranges of remove and protect: entries lie in the range or outside it.
LEMMA SplitRange ==
    ASSUME Sound(entries), NEW start \in Nat, NEW end \in Nat, start < end
    PROVE  /\ Sound(Split(start, end)) /\ SamePages(entries, Split(start, end))
           /\ \A f \in Split(start, end) :
                IF f \in Within(Split(start, end), start, end)
                THEN start <= f.start /\ f.end <= end
                ELSE f.end <= start \/ end <= f.start
<1> DEFINE E == split_at(entries, start)
           F == split_at(E, end)
<1>1. /\ Sound(E) /\ SamePages(entries, E)
      /\ \A e \in E : start <= e.start \/ e.end <= start
  BY SplitAt, Zenon
<1> HIDE DEF E
<1>2. /\ Sound(F) /\ SamePages(E, F)
      /\ \A f \in F : end <= f.start \/ f.end <= end
      /\ \A f \in F : \E e \in E : e.start <= f.start /\ f.end <= e.end
  BY <1>1, SplitAt, Zenon
<1>3. SamePages(entries, F)
  BY <1>1, <1>2, Zenon DEF SamePages
<1> HIDE DEF F
<1>4. ASSUME NEW f \in F
      PROVE  IF f \in Within(F, start, end)
             THEN start <= f.start /\ f.end <= end
             ELSE f.end <= start \/ end <= f.start
  <2>1. PICK e \in E : e.start <= f.start /\ f.end <= e.end
    BY <1>2, Zenon
  <2>2. /\ f.start \in Nat /\ f.end \in Nat /\ f.start < f.end
        /\ e.start \in Nat /\ e.end \in Nat
    BY <1>1, <1>2, EntryFields DEF Sound
  <2>3. start <= f.start \/ f.end <= start
    BY <1>1, <2>1, <2>2
  <2>4. f \in Within(F, start, end) <=> start <= f.start /\ f.start < end
    BY Zenon DEF Within
  <2> QED BY <1>2, <2>2, <2>3, <2>4
<1>5. Split(start, end) = F
  BY Zenon DEF Split, E, F
<1> QED BY <1>2, <1>3, <1>4, <1>5, Zenon

-----------------------------------------------------------------------------
(* The size of a set of entries is the number of its pages that count: the *)
(* recursion by which it is summed up has this solution and no other.      *)

\* The pages that count are finite, and those of one entry are its length.
LEMMA CountOne ==
    ASSUME NEW e \in Entry, e.start < e.end
    PROVE  Cardinality(CountedPages({e})) = counted(e) /\ counted(e) \in Nat
<1>1. e.start \in Nat /\ e.end \in Nat
  BY EntryFields
<1>2. CASE e.kind \in {"kernel", "stack"}
  <2>1. CountedPages({e}) = {}
    BY <1>2, Zenon DEF CountedPages
  <2> QED BY <2>1, <1>2, FS_EmptySet DEF counted
<1>3. CASE e.kind \notin {"kernel", "stack"}
  <2>1. CountedPages({e}) = e.start..(e.end - 1)
    <3>1. \A a \in CountedPages({e}) : a \in e.start..(e.end - 1)
      BY <1>1 DEF CountedPages, Covers
    <3>2. \A a \in e.start..(e.end - 1) : a \in CountedPages({e})
      BY <1>1, <1>3 DEF CountedPages, Covers
    <3> QED BY <3>1, <3>2, Zenon
  <2>2. Cardinality(e.start..(e.end - 1)) = e.end - e.start
    <3>1. e.start \in Int /\ e.end - 1 \in Int /\ ~(e.start > e.end - 1)
      BY <1>1
    <3>2. Cardinality(e.start..(e.end - 1)) = (e.end - 1) - e.start + 1
      BY <3>1, FS_Interval, Zenon
    <3> QED BY <1>1, <3>2
  <2>3. counted(e) = e.end - e.start
    BY <1>3, Zenon DEF counted
  <2> QED BY <1>1, <2>1, <2>2, <2>3
<1> QED BY <1>2, <1>3

\* Entries in two parts have two disjoint sets of pages.
LEMMA CountParts ==
    ASSUME NEW E, Sound(E), NEW D \in SUBSET E
    PROVE  /\ IsFiniteSet(CountedPages(E)) /\ Cardinality(CountedPages(E)) \in Nat
           /\ Cardinality(CountedPages(D)) \in Nat /\ Cardinality(CountedPages(E \ D)) \in Nat
           /\ Cardinality(CountedPages(E))
                = Cardinality(CountedPages(D)) + Cardinality(CountedPages(E \ D))
<1>1. \A e \in E : e.start \in Nat /\ e.end \in Nat /\ e.end <= hi
  BY EntryFields DEF Sound
<1>2. ASSUME NEW F \in SUBSET E
      PROVE  IsFiniteSet(CountedPages(F)) /\ Cardinality(CountedPages(F)) \in Nat
  <2>1. CountedPages(F) \in SUBSET Nat /\ \A a \in CountedPages(F) : a <= hi
    BY <1>1, RangeAssumption DEF CountedPages, Covers
  <2>2. IsFiniteSet(CountedPages(F))
    BY <2>1, RangeAssumption, FS_BoundedSetOfNaturals
  <2> QED BY <2>2, FS_CardinalityType, Zenon
<1>3. CountedPages(D) \cap CountedPages(E \ D) = {}
  <2> SUFFICES ASSUME NEW a \in Nat, NEW d \in D, NEW e \in E \ D, Covers(d, a), Covers(e, a)
               PROVE  FALSE
    BY Zenon DEF CountedPages
  <2>1. d \in E /\ e \in E /\ (d.end <= e.start \/ e.end <= d.start)
    BY Zenon DEF Sound
  <2> QED BY <2>1, <1>1 DEF Covers
<1>4. CountedPages(E) = CountedPages(D) \cup CountedPages(E \ D)
  BY Zenon DEF CountedPages
<1>5. Cardinality(CountedPages(D) \cap CountedPages(E \ D)) = 0
  BY <1>3, FS_EmptySet
<1>6. Cardinality(CountedPages(E)) = Cardinality(CountedPages(D)) + Cardinality(CountedPages(E \ D)) - 0
  <2>1. IsFiniteSet(CountedPages(D)) /\ IsFiniteSet(CountedPages(E \ D))
    BY <1>2, Zenon
  <2> QED BY <2>1, <1>4, <1>5, FS_Union, SMTT(30)
<1>7. /\ IsFiniteSet(CountedPages(E)) /\ Cardinality(CountedPages(E)) \in Nat
      /\ Cardinality(CountedPages(D)) \in Nat /\ Cardinality(CountedPages(E \ D)) \in Nat
  BY <1>2, Zenon
<1> QED BY <1>6, <1>7

\* SizeOf, by induction on the number of entries still to be summed up.
LEMMA SumIsCount ==
    ASSUME NEW E, Sound(E)
    PROVE  SizeOf(E) = Cardinality(CountedPages(E))
<1> DEFINE pick(s) == CHOOSE x \in s : TRUE
           Eq(f) == f = [s \in SUBSET E |-> IF s = {} THEN 0 ELSE counted(pick(s)) + f[s \ {pick(s)}]]
           count == [s \in SUBSET E |-> Cardinality(CountedPages(s))]
<1>1. SizeOf(E) = (CHOOSE f : Eq(f))[E]
  BY Zenon DEF SizeOf, MapThenSumSet, MapThenFoldSet
<1>2. ASSUME NEW s \in SUBSET E, s # {}
      PROVE  /\ pick(s) \in s
             /\ Cardinality(CountedPages(s))
                  = counted(pick(s)) + Cardinality(CountedPages(s \ {pick(s)}))
  <2>1. pick(s) \in s
    BY <1>2, Zenon
  <2>2. Sound(s) /\ pick(s) \in Entry /\ pick(s).start < pick(s).end /\ {pick(s)} \in SUBSET s
    BY <2>1, Zenon DEF Sound
  <2> HIDE DEF pick
  <2>3. Cardinality(CountedPages({pick(s)})) = counted(pick(s))
    BY <2>2, CountOne, Zenon
  <2>4. Cardinality(CountedPages(s))
          = Cardinality(CountedPages({pick(s)})) + Cardinality(CountedPages(s \ {pick(s)}))
    BY <2>2, CountParts, Zenon
  <2> QED BY <2>1, <2>3, <2>4, Zenon
<1>3. Cardinality(CountedPages({})) = 0
  <2>1. CountedPages({}) = {}
    BY Zenon DEF CountedPages
  <2> QED BY <2>1, FS_EmptySet, Zenon
<1> HIDE DEF pick
<1>4. Eq(count)
  <2>1. ASSUME NEW s \in SUBSET E
        PROVE  count[s] = IF s = {} THEN 0 ELSE counted(pick(s)) + count[s \ {pick(s)}]
    <3>1. count[s] = Cardinality(CountedPages(s)) /\ s \ {pick(s)} \in SUBSET E
      BY Zenon
    <3>2. count[s \ {pick(s)}] = Cardinality(CountedPages(s \ {pick(s)}))
      BY <3>1, Zenon
    <3> QED BY <1>2, <1>3, <3>1, <3>2, Zenon
  <2>2. count = [s \in SUBSET E |-> count[s]]
    BY Zenon
  <2> HIDE DEF count
  <2> QED BY <2>1, <2>2, Zenon
<1>5. ASSUME NEW f, Eq(f) PROVE f[E] = count[E]
  <2> DEFINE Bad == {s \in SUBSET E : f[s] # count[s]}
             T == {Cardinality(s) : s \in Bad}
  <2> SUFFICES ASSUME Bad # {} PROVE FALSE
    BY Zenon
  <2>1. \A s \in SUBSET E : IsFiniteSet(s) /\ Cardinality(s) \in Nat
    BY SoundFinite, FS_Subset, FS_CardinalityType, Zenon
  <2>2. T \in SUBSET Nat /\ T # {}
    BY <2>1, Zenon
  <2>3. PICK n \in T : \A m \in T : n <= m
    <3> HIDE DEF T
    <3> QED BY <2>2, LeastNat, Zenon
  <2>4. PICK s \in Bad : n = Cardinality(s)
    BY Zenon
  <2>5. /\ f[s] = IF s = {} THEN 0 ELSE counted(pick(s)) + f[s \ {pick(s)}]
        /\ count[s] = IF s = {} THEN 0 ELSE counted(pick(s)) + count[s \ {pick(s)}]
    <3> HIDE DEF count
    <3> QED BY <1>4, <1>5, <2>4, Zenon
  <2>6. f[s] # count[s] /\ s \in SUBSET E
    <3> HIDE DEF count
    <3> QED BY <2>4, Zenon
  <2>7. s # {} /\ pick(s) \in s
    <3> HIDE DEF count
    <3> QED BY <2>5, <2>6, <1>2, Zenon
  <2>8. Cardinality(s \ {pick(s)}) = n - 1 /\ n \in Nat
    BY <2>1, <2>4, <2>6, <2>7, FS_RemoveElement, Zenon
  <2>9. s \ {pick(s)} \notin Bad
    <3> HIDE DEF Bad
    <3>1. s \ {pick(s)} \in Bad => n - 1 \in T
      BY <2>8, Zenon
    <3>2. ~(n <= n - 1)
      BY <2>8
    <3> QED BY <3>1, <3>2, <2>3, Zenon
  <2>10. f[s \ {pick(s)}] = count[s \ {pick(s)}]
    <3> HIDE DEF count
    <3> QED BY <2>6, <2>9, Zenon
  <2> HIDE DEF count
  <2> QED BY <2>5, <2>6, <2>7, <2>10, Zenon
<1>6. Eq(CHOOSE f : Eq(f))
  <2> HIDE DEF Eq, count
  <2> QED BY <1>4, Zenon
<1>7. (CHOOSE f : Eq(f))[E] = count[E]
  <2> HIDE DEF Eq, count
  <2> QED BY <1>5, <1>6, Zenon
<1>8. count[E] = Cardinality(CountedPages(E))
  BY Zenon
<1> QED BY <1>1, <1>7, <1>8, Zenon

-----------------------------------------------------------------------------
(* The cursor.                                                             *)

\* Chain has a value, and passes over no free page.
LEMMA ChainCovers ==
    ASSUME NEW E, Sound(E), NEW at \in Nat
    PROVE  /\ Chain(E, at) \in Nat /\ at <= Chain(E, at)
           /\ \A a \in Nat : at <= a /\ a < Chain(E, at) => \E e \in E : Covers(e, a)
<1> DEFINE stops == {at} \cup {e.end : e \in E}
           free == {a \in stops : at <= a /\ \A e \in E : e.start # a}
           ok(a) == /\ at <= a /\ \A e \in E : e.start # a
                    /\ \A b \in stops : at <= b /\ b < a => \E e \in E : e.start = b
<1>1. \A e \in E : e.start \in Nat /\ e.end \in Nat /\ e.end <= hi /\ e.start < e.end
  BY EntryFields DEF Sound
<1>2. stops \in SUBSET Nat /\ \A a \in stops : a <= at + hi
  BY <1>1, RangeAssumption
<1>3. \A e \in E : e.end \in stops
  BY Zenon
<1>4. at \in stops
  BY Zenon
<1> HIDE DEF stops
<1>5. free # {}
  <2>1. PICK m \in stops : \A a \in stops : a <= m
    <3>1. at + hi \in Nat
      BY RangeAssumption
    <3> QED BY <1>2, <1>4, <3>1, GreatestNat, Zenon
  <2>2. \A e \in E : e.start # m
    BY <1>1, <1>2, <1>3, <2>1
  <2> QED BY <1>4, <2>1, <2>2, Zenon
<1>6. PICK c \in free : \A a \in free : c <= a
  <2>1. free \in SUBSET Nat
    BY <1>2, Zenon
  <2> QED BY <1>5, <2>1, LeastNat, Zenon
<1>7. ok(c)
  <2>1. ASSUME NEW b \in stops, at <= b, b < c PROVE \E e \in E : e.start = b
    <3>1. b \in Nat /\ c \in Nat
      BY <1>2, <1>6, Zenon
    <3>2. b \notin free
      BY <1>6, <2>1, <3>1
    <3> QED BY <2>1, <3>2, Zenon
  <2> QED BY <1>6, <2>1, Zenon
<1>8. Chain(E, at) = CHOOSE a \in stops : ok(a)
  BY Zenon DEF Chain, stops
<1>9. Chain(E, at) \in stops /\ ok(Chain(E, at))
  <2> HIDE DEF ok
  <2>1. c \in stops
    BY <1>6, Zenon
  <2> QED BY <1>7, <1>8, <2>1, Zenon
<1>10. ASSUME NEW a \in Nat, at <= a, a < Chain(E, at)
       PROVE  \E e \in E : Covers(e, a)
  <2> DEFINE below == {b \in stops : at <= b /\ b <= a}
  <2>1. below \in SUBSET Nat /\ below # {} /\ \A b \in below : b <= a
    <3>1. at \in below
      BY <1>4, <1>10
    <3> QED BY <1>2, <3>1, Zenon
  <2>2. PICK b \in below : \A d \in below : d <= b
    <3> HIDE DEF below
    <3> QED BY <2>1, GreatestNat, Zenon
  <2>3. b \in stops /\ b \in Nat /\ at <= b /\ b <= a /\ Chain(E, at) \in Nat
    BY <1>2, <1>9, <2>2, Zenon
  <2>4. b < Chain(E, at)
    BY <1>10, <2>3
  <2>5. PICK e \in E : e.start = b
    BY <1>9, <2>3, <2>4, Zenon
  <2>6. a < e.end
    <3>1. e.end \notin below
      BY <1>1, <2>2, <2>3, <2>5
    <3> QED BY <1>1, <1>3, <2>3, <2>5, <3>1
  <2> QED BY <2>3, <2>5, <2>6, Zenon DEF Covers
<1> QED BY <1>2, <1>9, <1>10, Zenon

\* Moving the cursor back to the first page that was freed, or to its base.
LEMMA FreedKeeps ==
    ASSUME cursor \in [base : Nat, at : Nat], CursorSound, NEW x \in Nat, cursor' = freed(x),
           \A a \in Nat : a < x /\ (\E e \in entries : Covers(e, a))
                          => \E e \in entries' : Covers(e, a)
    PROVE  cursor' \in [base : Nat, at : Nat] /\ CursorSound'
<1>1. cursor.base \in Nat /\ cursor.at \in Nat
  OBVIOUS
<1>2. CASE x < cursor.at
  <2>1. cursor' = [cursor EXCEPT !.at = IF x >= cursor.base THEN x ELSE cursor.base]
    BY <1>1, <1>2, MaxPair DEF freed
  <2>2. /\ cursor' \in [base : Nat, at : Nat] /\ cursor'.base = cursor.base
        /\ cursor'.at = IF x >= cursor.base THEN x ELSE cursor.base
    BY <1>1, <2>1
  <2>3. \A a \in cursor'.base..(cursor'.at - 1) : a \in Nat /\ a < x /\ a \in cursor.base..(cursor.at - 1)
    BY <1>1, <1>2, <2>2
  <2> QED BY <2>2, <2>3, Zenon DEF CursorSound
<1>3. CASE ~(x < cursor.at)
  <2>1. cursor' = cursor
    BY <1>3, Zenon DEF freed
  <2>2. \A a \in cursor.base..(cursor.at - 1) : a \in Nat /\ a < x
    BY <1>1, <1>3
  <2> QED BY <2>1, <2>2, Zenon DEF CursorSound
<1> QED BY <1>2, <1>3

\* Entries that are added only move it on.
LEMMA ChainKeeps ==
    ASSUME cursor \in [base : Nat, at : Nat], CursorSound, Sound(entries'),
           \A e \in entries : e \in entries',
           cursor' = [cursor EXCEPT !.at = Chain(entries', @)]
    PROVE  cursor' \in [base : Nat, at : Nat] /\ CursorSound'
<1>1. cursor.base \in Nat /\ cursor.at \in Nat
  OBVIOUS
<1>2. /\ Chain(entries', cursor.at) \in Nat
      /\ \A a \in Nat : cursor.at <= a /\ a < Chain(entries', cursor.at) => \E e \in entries' : Covers(e, a)
  BY <1>1, ChainCovers, Zenon
<1>3. /\ cursor' \in [base : Nat, at : Nat] /\ cursor'.base = cursor.base
      /\ cursor'.at = Chain(entries', cursor.at)
  BY <1>2
<1>4. ASSUME NEW a \in cursor'.base..(cursor'.at - 1)
      PROVE  \E e \in entries' : Covers(e, a)
  <2>1. a \in Nat /\ cursor.base <= a /\ a < Chain(entries', cursor.at)
    BY <1>1, <1>2, <1>3, <1>4
  <2>2. CASE a < cursor.at
    <3>1. a \in cursor.base..(cursor.at - 1)
      BY <1>1, <2>1, <2>2
    <3> QED BY <3>1, Zenon DEF CursorSound
  <2>3. CASE ~(a < cursor.at)
    <3>1. cursor.at <= a
      BY <1>1, <2>1, <2>3
    <3> QED BY <1>2, <2>1, <3>1, Zenon
  <2> QED BY <2>2, <2>3
<1> QED BY <1>3, <1>4, Zenon DEF CursorSound

-----------------------------------------------------------------------------
(* The operations, seen by VmPages.                                        *)

\* The entries of a sound set show one thing at a page.
LEMMA ShowsOne ==
    ASSUME NEW E, Sound(E), NEW a \in Nat
    PROVE  /\ \A d, e \in E : Covers(d, a) /\ Covers(e, a) => d = e
           /\ \A v, w : Shows(E, a, v) /\ Shows(E, a, w) => v = w
<1>1. ASSUME NEW d \in E, NEW e \in E, Covers(d, a), Covers(e, a)
      PROVE  d = e
  <2>1. d.start \in Nat /\ d.end \in Nat /\ e.start \in Nat /\ e.end \in Nat
    BY EntryFields DEF Sound
  <2> QED BY <1>1, <2>1 DEF Sound, Covers
<1> QED BY <1>1, Zenon DEF Shows

\* Pages that were free now show something: Map.
LEMMA MapsPages ==
    ASSUME Sound(entries), Sound(entries'), NEW S \in SUBSET Nat,
           \A a \in S : ~\E e \in entries : Covers(e, a),
           \A a \in Nat : \A v : Shows(entries, a, v) => Shows(entries', a, v),
           \A a \in Nat : \A v : Shows(entries', a, v) => Shows(entries, a, v) \/ a \in S,
           \A a \in S : \E e \in entries' : Covers(e, a)
    PROVE  Abstract!Map(S)
<1> DEFINE C == PagesOf(entries)
           D == PagesOf(entries')
<1>0. entries \in SUBSET Entry /\ entries' \in SUBSET Entry
  BY Zenon DEF Sound
<1>1. \A a, v : <<a, v>> \in C <=> a \in Nat /\ Shows(entries, a, v)
  BY <1>0, PagesShown, Zenon
<1>2. \A a, v : <<a, v>> \in D <=> a \in Nat /\ Shows(entries', a, v)
  BY <1>0, PagesShown, Zenon
<1>3. \A c \in C \cup D : \E a, v : c = <<a, v>>
  BY PagesArePairs, Zenon
<1> HIDE DEF C, D
<1>4. {c \in C : c[1] \in S} = {}
  <2> SUFFICES ASSUME NEW c \in C, c[1] \in S PROVE FALSE
    BY Zenon
  <2>1. PICK a, v : c = <<a, v>>
    BY <1>3, Zenon
  <2>2. a \in S /\ Shows(entries, a, v)
    BY <2>1, <1>1
  <2> QED BY <2>2, Zenon DEF Shows
<1>5. ASSUME NEW c \in C PROVE c \in D
  <2>1. PICK a, v : c = <<a, v>>
    BY <1>3, Zenon
  <2> QED BY <2>1, <1>1, <1>2
<1>6. {c[1] : c \in D \ C} = S
  <2>1. ASSUME NEW c \in D \ C PROVE c[1] \in S
    <3>1. PICK a, v : c = <<a, v>>
      BY <1>3, Zenon
    <3>2. c[1] = a /\ a \in Nat /\ Shows(entries', a, v) /\ ~Shows(entries, a, v)
      BY <3>1, <2>1, <1>1, <1>2
    <3> QED BY <3>2, Zenon
  <2>2. ASSUME NEW a \in S PROVE \E c \in D \ C : c[1] = a
    <3>1. PICK v : Shows(entries', a, v)
      BY Zenon DEF Shows
    <3>2. ~Shows(entries, a, v)
      BY Zenon DEF Shows
    <3>3. <<a, v>> \in D /\ <<a, v>> \notin C
      BY <3>1, <3>2, <1>1, <1>2, Zenon
    <3> QED BY <3>3
  <2> QED BY <2>1, <2>2, Zenon
<1>7. ASSUME NEW c \in D \ C, NEW d \in D \ C, c[1] = d[1] PROVE c = d
  <2>1. PICK a, v : c = <<a, v>>
    BY <1>3, Zenon
  <2>2. PICK b, w : d = <<b, w>>
    BY <1>3, Zenon
  <2>3. a = b /\ a \in Nat /\ Shows(entries', a, v) /\ Shows(entries', b, w)
    BY <1>7, <2>1, <2>2, <1>2
  <2>4. v = w
    BY <2>3, ShowsOne, Zenon
  <2> QED BY <2>1, <2>2, <2>3, <2>4, Zenon
<1> QED BY <1>4, <1>5, <1>6, <1>7, Zenon DEF Abstract!Map, Abstract!Held, Abstract!PagesIn, C, D

\* Pages that show nothing any more, and no other change: Unmap.
LEMMA UnmapsPages ==
    ASSUME Sound(entries), Sound(entries'), NEW S \in SUBSET Nat,
           \A a \in Nat : \A v : Shows(entries', a, v) <=> Shows(entries, a, v) /\ a \notin S
    PROVE  Abstract!Unmap(S)
<1> DEFINE C == PagesOf(entries)
           D == PagesOf(entries')
<1>0. entries \in SUBSET Entry /\ entries' \in SUBSET Entry
  BY Zenon DEF Sound
<1>1. \A a, v : <<a, v>> \in C <=> a \in Nat /\ Shows(entries, a, v)
  BY <1>0, PagesShown, Zenon
<1>2. \A a, v : <<a, v>> \in D <=> a \in Nat /\ Shows(entries', a, v)
  BY <1>0, PagesShown, Zenon
<1>3. \A c \in C \cup D : \E a, v : c = <<a, v>>
  BY PagesArePairs, Zenon
<1> HIDE DEF C, D
<1>4. ASSUME NEW c \in D PROVE c \in C /\ c[1] \notin S
  <2>1. PICK a, v : c = <<a, v>>
    BY <1>3, Zenon
  <2> QED BY <2>1, <1>1, <1>2
<1>5. ASSUME NEW c \in C, c[1] \notin S PROVE c \in D
  <2>1. PICK a, v : c = <<a, v>>
    BY <1>3, Zenon
  <2> QED BY <1>5, <2>1, <1>1, <1>2
<1>6. D = C \ {c \in C : c[1] \in S}
  BY <1>4, <1>5, Zenon
<1> QED BY <1>6, Zenon DEF Abstract!Unmap, Abstract!Held, C, D

\* Pages that show the same with another protection: Protect.
LEMMA ProtectsPages ==
    ASSUME Sound(entries), Sound(entries'), NEW S \in SUBSET Nat, NEW prot,
           \A a \in S : \E e \in entries : Covers(e, a) /\ prot \subseteq e.max,
           \A a \in Nat \ S : \A v : Shows(entries', a, v) <=> Shows(entries, a, v),
           \A a \in S : \A v : Shows(entries', a, v)
                <=> \E w : Shows(entries, a, w) /\ v = [w EXCEPT !.prot = prot]
    PROVE  Abstract!Protect(S, prot)
<1> DEFINE C == PagesOf(entries)
           D == PagesOf(entries')
           H == {c \in C : c[1] \in S}
           N == {<<c[1], [c[2] EXCEPT !.prot = prot]>> : c \in H}
<1>0. entries \in SUBSET Entry /\ entries' \in SUBSET Entry
  BY Zenon DEF Sound
<1>1. \A a, v : <<a, v>> \in C <=> a \in Nat /\ Shows(entries, a, v)
  BY <1>0, PagesShown, Zenon
<1>2. \A a, v : <<a, v>> \in D <=> a \in Nat /\ Shows(entries', a, v)
  BY <1>0, PagesShown, Zenon
<1>3. \A c \in C \cup D : \E a, v : c = <<a, v>>
  BY PagesArePairs, Zenon
<1> HIDE DEF C, D
<1>4. \A a \in S : \E c \in C : c[1] = a
  <2> SUFFICES ASSUME NEW a \in S PROVE \E c \in C : c[1] = a
    OBVIOUS
  <2>1. PICK v : Shows(entries, a, v)
    BY Zenon DEF Shows
  <2>2. <<a, v>> \in C
    BY <2>1, <1>1, Zenon
  <2> QED BY <2>2
<1>5. \A c \in H : prot \subseteq c[2].max
  <2> SUFFICES ASSUME NEW c \in H PROVE prot \subseteq c[2].max
    OBVIOUS
  <2>1. PICK a, v : c = <<a, v>>
    BY <1>3, Zenon
  <2>2. a \in S /\ Shows(entries, a, v) /\ c[2] = v
    BY <2>1, <1>1
  <2>3. PICK e \in entries : Covers(e, a) /\ Attr(e, a) = v
    BY <2>2, Zenon DEF Shows
  <2>4. prot \subseteq e.max
    BY <2>2, <2>3, ShowsOne, Zenon
  <2>5. v.max = e.max
    BY <2>3 DEF Attr
  <2> QED BY <2>2, <2>4, <2>5
<1>6. ASSUME NEW c \in D PROVE c \in (C \ H) \cup N
  <2>1. PICK a, v : c = <<a, v>>
    BY <1>3, Zenon
  <2>2. a \in Nat /\ Shows(entries', a, v)
    BY <2>1, <1>2, Zenon
  <2>3. CASE a \in S
    <3>1. PICK w : Shows(entries, a, w) /\ v = [w EXCEPT !.prot = prot]
      BY <2>2, <2>3, Zenon
    <3>2. <<a, w>> \in C /\ <<a, w>>[1] = a /\ <<a, w>>[2] = w
      BY <2>2, <3>1, <1>1
    <3>3. <<a, w>> \in H
      BY <2>3, <3>2, Zenon
    <3>4. c = << <<a, w>>[1], [<<a, w>>[2] EXCEPT !.prot = prot] >>
      BY <2>1, <3>1, <3>2, Zenon
    <3> QED BY <3>3, <3>4, Zenon
  <2>4. CASE a \notin S
    <3>1. c \in C /\ c[1] = a
      BY <2>1, <2>2, <2>4, <1>1
    <3> QED BY <2>4, <3>1, Zenon
  <2> QED BY <2>3, <2>4
<1>7. ASSUME NEW c \in C \ H PROVE c \in D
  <2>1. PICK a, v : c = <<a, v>>
    BY <1>3, Zenon
  <2>2. c[1] = a /\ a \in Nat /\ Shows(entries, a, v)
    BY <2>1, <1>1
  <2>3. a \notin S
    BY <1>7, <2>2, Zenon
  <2> QED BY <2>1, <2>2, <2>3, <1>2, Zenon
<1>8. ASSUME NEW c \in N PROVE c \in D
  <2>1. PICK d \in H : c = <<d[1], [d[2] EXCEPT !.prot = prot]>>
    BY <1>8, Zenon
  <2>2. PICK a, v : d = <<a, v>>
    BY <2>1, <1>3, Zenon
  <2>3. d[1] = a /\ d[2] = v /\ a \in S /\ a \in Nat /\ Shows(entries, a, v)
    BY <2>1, <2>2, <1>1
  <2>4. c = <<a, [v EXCEPT !.prot = prot]>>
    BY <2>1, <2>3, Zenon
  <2>5. Shows(entries', a, [v EXCEPT !.prot = prot])
    BY <2>3, Zenon
  <2> QED BY <2>3, <2>4, <2>5, <1>2, Zenon
<1>9. D = (C \ H) \cup N
  <2> HIDE DEF H, N
  <2> QED BY <1>6, <1>7, <1>8, Zenon
<1>10. S \in SUBSET {c[1] : c \in C}
  BY <1>4, Zenon
<1> QED BY <1>5, <1>9, <1>10, Zenon DEF Abstract!Protect, Abstract!Held, Abstract!PagesIn, C, D

-----------------------------------------------------------------------------
(* The operations keep the invariant and do to the pages what they say.    *)

\* The inductive invariant: everything but find_space, which keeps no state.
VmInv == TypeOK /\ Disjoint /\ SizeExact /\ CursorSound

\* The invariant, with the size as a number of pages.
LEMMA InvIs ==
    VmInv <=> /\ Sound(entries) /\ size = Cardinality(CountedPages(entries))
              /\ cursor \in [base : Nat, at : Nat] /\ CursorSound
<1>1. TypeOK /\ Disjoint <=> /\ Sound(entries) /\ size \in Nat
                             /\ cursor \in [base : Nat, at : Nat]
  BY Zenon DEF TypeOK, Disjoint, Sound
<1>2. Sound(entries) => SizeOf(entries) = Cardinality(CountedPages(entries))
  BY SumIsCount, Zenon
<1>3. Sound(entries) => Cardinality(CountedPages(entries)) \in Nat
  <2>1. {} \in SUBSET entries
    BY Zenon
  <2> QED BY <2>1, CountParts, Zenon
<1> QED BY <1>1, <1>2, <1>3, Zenon DEF VmInv, SizeExact

\* The same of the next state.
LEMMA InvAfter ==
    ASSUME Sound(entries'), size' = Cardinality(CountedPages(entries')),
           cursor' \in [base : Nat, at : Nat], CursorSound'
    PROVE  VmInv'
<1>1. (VmInv <=> /\ Sound(entries) /\ size = Cardinality(CountedPages(entries))
                 /\ cursor \in [base : Nat, at : Nat] /\ CursorSound)'
  BY InvIs, PTL
<1> QED BY <1>1, Zenon

\* A range nothing overlaps is free.
LEMMA NoOverlap ==
    ASSUME Sound(entries), NEW s \in Nat, NEW t \in Nat, ~overlaps(s, t)
    PROVE  /\ \A e \in entries : e.end <= s \/ t <= e.start
           /\ \A a \in s..(t - 1) : ~\E e \in entries : Covers(e, a)
<1>1. \A e \in entries : e.start \in Nat /\ e.end \in Nat
  BY EntryFields DEF Sound
<1>2. \A e \in entries : e.end <= s \/ t <= e.start
  BY <1>1 DEF overlaps
<1> QED BY <1>1, <1>2 DEF Covers

\* An entry is placed among others that it does not meet.
LEMMA Placed ==
    ASSUME NEW E, Sound(E), NEW m \in Entry, m.start < m.end,
           \A f \in E : f.end <= m.start \/ m.end <= f.start
    PROVE  /\ Sound(E \cup {m})
           /\ Cardinality(CountedPages(E)) \in Nat /\ counted(m) \in Nat
           /\ Cardinality(CountedPages(E \cup {m})) = Cardinality(CountedPages(E)) + counted(m)
<1>1. Sound(E \cup {m})
  BY Zenon DEF Sound
<1>2. m \notin E
  <2>1. m.start \in Nat /\ m.end \in Nat
    BY EntryFields
  <2> QED BY <2>1
<1>3. {m} \in SUBSET (E \cup {m}) /\ (E \cup {m}) \ {m} = E
  BY <1>2, Zenon
<1>4. Cardinality(CountedPages({m})) = counted(m) /\ counted(m) \in Nat
  BY CountOne, Zenon
<1>5. /\ Cardinality(CountedPages(E)) \in Nat
      /\ Cardinality(CountedPages(E \cup {m}))
           = Cardinality(CountedPages({m})) + Cardinality(CountedPages(E))
  BY <1>1, <1>3, CountParts, Zenon
<1> QED BY <1>1, <1>4, <1>5

\* An entry is taken out.
LEMMA TakenOut ==
    ASSUME NEW E, Sound(E), NEW e \in E
    PROVE  /\ Sound(E \ {e}) /\ counted(e) \in Nat /\ Cardinality(CountedPages(E)) \in Nat
           /\ Cardinality(CountedPages(E \ {e})) = Cardinality(CountedPages(E)) - counted(e)
<1>1. Sound(E \ {e}) /\ e \in Entry /\ e.start < e.end /\ {e} \in SUBSET E
  BY Zenon DEF Sound
<1>2. Cardinality(CountedPages({e})) = counted(e) /\ counted(e) \in Nat
  BY <1>1, CountOne, Zenon
<1>3. /\ Cardinality(CountedPages(E)) \in Nat /\ Cardinality(CountedPages(E \ {e})) \in Nat
      /\ Cardinality(CountedPages(E))
           = Cardinality(CountedPages({e})) + Cardinality(CountedPages(E \ {e}))
  BY <1>1, CountParts, Zenon
<1> QED BY <1>1, <1>2, <1>3

\* insert.
LEMMA InsertStep ==
    ASSUME VmInv, NEW e \in Entry, Insert(e)
    PROVE  VmInv' /\ Abstract!Map(e.start..(e.end - 1))
<1>1. /\ Sound(entries) /\ size = Cardinality(CountedPages(entries))
      /\ cursor \in [base : Nat, at : Nat] /\ CursorSound
  BY InvIs, Zenon
<1>2. /\ e.start < e.end /\ ~overlaps(e.start, e.end) /\ entries' = entries \cup {e}
      /\ size' = size + counted(e) /\ cursor' = [cursor EXCEPT !.at = Chain(entries', @)]
  BY Zenon DEF Insert
<1>3. e.start \in Nat /\ e.end \in Nat
  BY EntryFields
<1>4. /\ \A f \in entries : f.end <= e.start \/ e.end <= f.start
      /\ \A a \in e.start..(e.end - 1) : ~\E f \in entries : Covers(f, a)
  BY <1>1, <1>2, <1>3, NoOverlap, Zenon
<1>5. /\ Sound(entries')
      /\ Cardinality(CountedPages(entries')) = Cardinality(CountedPages(entries)) + counted(e)
  BY <1>1, <1>2, <1>4, Placed, Zenon
<1>6. \A f \in entries : f \in entries'
  BY <1>2, Zenon
<1>7. cursor' \in [base : Nat, at : Nat] /\ CursorSound'
  BY <1>1, <1>2, <1>5, <1>6, ChainKeeps, Zenon
<1>8. VmInv'
  BY <1>1, <1>2, <1>5, <1>7, InvAfter, Zenon
<1>9. Abstract!Map(e.start..(e.end - 1))
  <2>1. e.start..(e.end - 1) \in SUBSET Nat
    BY <1>3
  <2>2. \A a \in Nat : \A v : Shows(entries, a, v) => Shows(entries', a, v)
    BY <1>6, Zenon DEF Shows
  <2>3. \A a \in Nat : Covers(e, a) <=> a \in e.start..(e.end - 1)
    BY <1>3 DEF Covers
  <2>4. \A a \in Nat : \A v : Shows(entries', a, v) => Shows(entries, a, v) \/ a \in e.start..(e.end - 1)
    BY <1>2, <2>3, Zenon DEF Shows
  <2>5. \A a \in e.start..(e.end - 1) : \E f \in entries' : Covers(f, a)
    BY <1>2, <2>1, <2>3, Zenon
  <2> QED BY <1>1, <1>4, <1>5, <2>1, <2>2, <2>4, <2>5, MapsPages, Zenon
<1> QED BY <1>8, <1>9

\* remove.
LEMMA RemoveStep ==
    ASSUME VmInv, NEW start \in lo..hi, NEW end \in lo..hi, remove(start, end)
    PROVE  VmInv' /\ Abstract!Unmap(start..(end - 1))
<1> DEFINE E == Split(start, end)
           gone == Within(E, start, end)
<1>1. /\ Sound(entries) /\ size = Cardinality(CountedPages(entries))
      /\ cursor \in [base : Nat, at : Nat] /\ CursorSound
  BY InvIs, Zenon
<1>2. /\ start < end /\ entries' = E \ gone /\ size' = size - SizeOf(gone) /\ cursor' = freed(start)
  BY Zenon DEF remove
<1>3. start \in Nat /\ end \in Nat
  BY RangeAssumption
<1>4. /\ Sound(E) /\ SamePages(entries, E)
      /\ \A f \in E : IF f \in gone THEN start <= f.start /\ f.end <= end
                                    ELSE f.end <= start \/ end <= f.start
  BY <1>1, <1>2, <1>3, SplitRange, Zenon
<1>5. gone \in SUBSET E
  BY Zenon DEF Within
<1> HIDE DEF E, gone
<1>6. Sound(gone) /\ Sound(E \ gone) /\ entries \in SUBSET Entry /\ E \in SUBSET Entry
  BY <1>1, <1>4, <1>5, Zenon DEF Sound
<1>7. /\ CountedPages(entries) = CountedPages(E)
      /\ \A a \in Nat : (\E e \in entries : Covers(e, a)) <=> (\E f \in E : Covers(f, a))
  BY <1>4, <1>6, SameFacts, Zenon
<1>8. size' = Cardinality(CountedPages(entries'))
  <2>1. /\ Cardinality(CountedPages(E)) = Cardinality(CountedPages(gone)) + Cardinality(CountedPages(E \ gone))
        /\ Cardinality(CountedPages(gone)) \in Nat /\ Cardinality(CountedPages(E \ gone)) \in Nat
    BY <1>4, <1>5, CountParts, Zenon
  <2>2. SizeOf(gone) = Cardinality(CountedPages(gone))
    BY <1>6, SumIsCount, Zenon
  <2>3. size = Cardinality(CountedPages(E)) /\ entries' = E \ gone
    BY <1>1, <1>2, <1>7, Zenon
  <2> DEFINE x == Cardinality(CountedPages(gone))
             y == Cardinality(CountedPages(E \ gone))
  <2>4. size' = (x + y) - x /\ x \in Nat /\ y \in Nat
    BY <1>2, <2>1, <2>2, <2>3, Zenon
  <2> HIDE DEF x, y
  <2>5. size' = y
    BY <2>4
  <2> QED BY <2>3, <2>5, Zenon DEF y
<1>9. \A f \in E : /\ f.start \in Nat /\ f.end \in Nat
                   /\ \A a \in Nat : Covers(f, a) => (f \in gone <=> a \in start..(end - 1))
  <2> SUFFICES ASSUME NEW f \in E
               PROVE  /\ f.start \in Nat /\ f.end \in Nat
                      /\ \A a \in Nat : Covers(f, a) => (f \in gone <=> a \in start..(end - 1))
    BY Zenon
  <2>1. f.start \in Nat /\ f.end \in Nat
    BY <1>6, EntryFields
  <2>2. CASE f \in gone
    <3>1. start <= f.start /\ f.end <= end
      BY <1>4, <2>2, Zenon
    <3> QED BY <1>3, <2>1, <2>2, <3>1 DEF Covers
  <2>3. CASE f \notin gone
    <3>1. f.end <= start \/ end <= f.start
      BY <1>4, <2>3, Zenon
    <3> QED BY <1>3, <2>1, <2>3, <3>1 DEF Covers
  <2> QED BY <2>2, <2>3, Zenon
<1>10. cursor' \in [base : Nat, at : Nat] /\ CursorSound'
  <2>1. \A a \in Nat : a < start => a \notin start..(end - 1)
    BY <1>3
  <2>2. \A a \in Nat : a < start /\ (\E e \in entries : Covers(e, a)) => \E e \in entries' : Covers(e, a)
    BY <1>2, <1>7, <1>9, <2>1, Zenon
  <2> QED BY <1>1, <1>2, <1>3, <2>2, FreedKeeps, Zenon
<1>11. Sound(entries')
  BY <1>2, <1>6, Zenon
<1>12. VmInv'
  BY <1>8, <1>10, <1>11, InvAfter, Zenon
<1>13. Abstract!Unmap(start..(end - 1))
  <2>1. start..(end - 1) \in SUBSET Nat
    BY <1>3
  <2>2. \A a \in Nat : \A v : Shows(entries', a, v) <=> Shows(entries, a, v) /\ a \notin start..(end - 1)
    <3> SUFFICES ASSUME NEW a \in Nat, NEW v
                 PROVE  Shows(entries', a, v) <=> Shows(entries, a, v) /\ a \notin start..(end - 1)
      BY Zenon
    <3>1. Shows(entries, a, v) <=> Shows(E, a, v)
      BY <1>4, Zenon DEF SamePages
    <3>2. Shows(E \ gone, a, v) <=> Shows(E, a, v) /\ a \notin start..(end - 1)
      BY <1>9, Zenon DEF Shows
    <3> QED BY <1>2, <3>1, <3>2, Zenon
  <2> QED BY <1>1, <1>11, <2>1, <2>2, UnmapsPages, Zenon
<1> QED BY <1>12, <1>13, Zenon

\* protect.
LEMMA ProtectStep ==
    ASSUME VmInv, NEW start \in lo..hi, NEW end \in lo..hi, NEW prot \in SUBSET Prots,
           protect(start, end, prot)
    PROVE  VmInv' /\ Abstract!Protect(start..(end - 1), prot)
<1> DEFINE E == Split(start, end)
           changed == Within(E, start, end)
           S == start..(end - 1)
           new(e) == IF e \in changed THEN [e EXCEPT !.prot = prot] ELSE e
<1>1. /\ Sound(entries) /\ size = Cardinality(CountedPages(entries))
      /\ cursor \in [base : Nat, at : Nat] /\ CursorSound
  BY InvIs, Zenon
<1>2. /\ start < end /\ covered(start, end)
      /\ \A a \in S : \A e \in lookup(a) : prot \subseteq e.max
      /\ entries' = (E \ changed) \cup {[e EXCEPT !.prot = prot] : e \in changed}
      /\ size' = size /\ cursor' = cursor
  BY Zenon DEF protect
<1>3. start \in Nat /\ end \in Nat /\ S \in SUBSET Nat
  BY RangeAssumption
<1>4. /\ Sound(E) /\ SamePages(entries, E)
      /\ \A f \in E : IF f \in changed THEN start <= f.start /\ f.end <= end
                                       ELSE f.end <= start \/ end <= f.start
  BY <1>1, <1>2, <1>3, SplitRange, Zenon
<1>5. changed \in SUBSET E
  BY Zenon DEF Within
<1> HIDE DEF E, changed
<1>6. entries' = {new(e) : e \in E}
  BY <1>2, <1>5, Zenon
<1>7. ASSUME NEW e \in E
      PROVE  /\ e \in Entry /\ new(e) \in Entry /\ new(e).start = e.start /\ new(e).end = e.end
             /\ new(e).kind = e.kind /\ e.start < e.end /\ e.start \in Nat /\ e.end \in Nat
             /\ \A a \in Nat : Covers(new(e), a) <=> Covers(e, a)
             /\ \A a \in Nat : Attr(new(e), a) = IF e \in changed THEN [Attr(e, a) EXCEPT !.prot = prot]
                                                                  ELSE Attr(e, a)
             /\ \A a \in Nat : Covers(e, a) => (e \in changed <=> a \in S)
  <2>1. e \in Entry /\ e.start < e.end
    BY <1>4, Zenon DEF Sound
  <2>2. e.start \in Nat /\ e.end \in Nat
    BY <2>1, EntryFields
  <2>3. CASE e \in changed
    <3>1. new(e) = [e EXCEPT !.prot = prot]
      BY <2>3, Zenon
    <3> HIDE DEF new
    <3>2. /\ new(e) \in Entry /\ new(e).start = e.start /\ new(e).end = e.end /\ new(e).kind = e.kind
          /\ new(e).page = e.page /\ new(e).max = e.max /\ new(e).prot = prot
      BY <2>1, <3>1 DEF Entry
    <3>3. start <= e.start /\ e.end <= end
      BY <1>4, <2>3, Zenon
    <3>4. \A a \in Nat : Covers(e, a) => a \in S
      BY <1>3, <2>2, <3>3 DEF Covers
    <3>5. \A a \in Nat : Attr(new(e), a) = [Attr(e, a) EXCEPT !.prot = prot]
      BY <3>2 DEF Attr
    <3>6. \A a \in Nat : Covers(new(e), a) <=> Covers(e, a)
      BY <3>2, Zenon DEF Covers
    <3> HIDE DEF S
    <3> QED BY <2>1, <2>2, <2>3, <3>2, <3>4, <3>5, <3>6, Zenon
  <2>4. CASE e \notin changed
    <3>1. new(e) = e
      BY <2>4, Zenon
    <3>2. e.end <= start \/ end <= e.start
      BY <1>4, <2>4, Zenon
    <3>3. \A a \in Nat : Covers(e, a) => a \notin S
      BY <1>3, <2>2, <3>2 DEF Covers
    <3> HIDE DEF S, new
    <3> QED BY <2>1, <2>2, <2>4, <3>1, <3>3, Zenon
  <2> QED BY <2>3, <2>4, Zenon
<1> HIDE DEF new
<1>8. Sound(entries')
  <2>1. entries' \in SUBSET Entry /\ \A e \in entries' : e.start < e.end
    BY <1>6, <1>7, Zenon
  <2>2. ASSUME NEW e \in entries', NEW f \in entries', e # f
        PROVE  e.end <= f.start \/ f.end <= e.start
    <3>1. PICK d \in E : e = new(d)
      BY <1>6, Zenon
    <3>2. PICK g \in E : f = new(g)
      BY <1>6, Zenon
    <3>3. d.end <= g.start \/ g.end <= d.start
      BY <1>4, <2>2, <3>1, <3>2, Zenon DEF Sound
    <3> QED BY <1>7, <3>1, <3>2, <3>3, Zenon
  <2> QED BY <2>1, <2>2, Zenon DEF Sound
<1>9. /\ CountedPages(entries) = CountedPages(E) /\ E \in SUBSET Entry
      /\ \A a \in Nat : (\E e \in entries : Covers(e, a)) <=> (\E f \in E : Covers(f, a))
  <2>1. entries \in SUBSET Entry /\ E \in SUBSET Entry
    BY <1>1, <1>4, Zenon DEF Sound
  <2> QED BY <1>4, <2>1, SameFacts, Zenon
<1>91. (\A e \in E : new(e) \in entries') /\ (\A f \in entries' : \E e \in E : f = new(e))
  BY <1>6, Zenon
<1>10. CountedPages(entries') = CountedPages(E)
  <2>1. ASSUME NEW a \in Nat, NEW f \in entries', f.kind \notin {"kernel", "stack"}, Covers(f, a)
        PROVE  \E e \in E : e.kind \notin {"kernel", "stack"} /\ Covers(e, a)
    <3>1. PICK e \in E : f = new(e)
      BY <1>91, Zenon
    <3>2. new(e).kind = e.kind /\ (Covers(new(e), a) <=> Covers(e, a))
      BY <1>7, Zenon
    <3> QED BY <2>1, <3>1, <3>2, Zenon
  <2>2. ASSUME NEW a \in Nat, NEW e \in E, e.kind \notin {"kernel", "stack"}, Covers(e, a)
        PROVE  \E f \in entries' : f.kind \notin {"kernel", "stack"} /\ Covers(f, a)
    <3>1. new(e).kind = e.kind /\ (Covers(new(e), a) <=> Covers(e, a)) /\ new(e) \in entries'
      BY <1>7, <1>91, Zenon
    <3> QED BY <2>2, <3>1, Zenon
  <2> QED BY <2>1, <2>2, Zenon DEF CountedPages
<1>11. CursorSound'
  <2>1. \A a \in Nat : (\E e \in E : Covers(e, a)) => \E e \in entries' : Covers(e, a)
    <3> SUFFICES ASSUME NEW a \in Nat, NEW e \in E, Covers(e, a)
                 PROVE  \E f \in entries' : Covers(f, a)
      BY Zenon
    <3>1. new(e) \in entries' /\ (Covers(new(e), a) <=> Covers(e, a))
      BY <1>7, <1>91, Zenon
    <3> QED BY <3>1, Zenon
  <2>2. \A a \in cursor.base..(cursor.at - 1) : a \in Nat
    BY <1>1
  <2> QED BY <1>1, <1>2, <1>9, <2>1, <2>2, Zenon DEF CursorSound
<1>12. VmInv'
  BY <1>1, <1>2, <1>8, <1>9, <1>10, <1>11, InvAfter, Zenon
<1>13. Abstract!Protect(S, prot)
  <2>1. \A a \in S : \E e \in entries : Covers(e, a) /\ prot \subseteq e.max
    BY <1>2, Zenon DEF covered, lookup
  <2>2. \A a \in Nat : \A v : Shows(entries, a, v) <=> Shows(E, a, v)
    BY <1>4, Zenon DEF SamePages
  <2>3. ASSUME NEW a \in Nat, NEW v
        PROVE  Shows(entries', a, v) <=>
                 \E e \in E : Covers(e, a) /\ v = IF a \in S THEN [Attr(e, a) EXCEPT !.prot = prot]
                                                          ELSE Attr(e, a)
    <3>1. \A e \in E : /\ Covers(new(e), a) <=> Covers(e, a)
                       /\ Covers(e, a) => Attr(new(e), a) = IF a \in S THEN [Attr(e, a) EXCEPT !.prot = prot]
                                                                      ELSE Attr(e, a)
      BY <1>7, Zenon
    <3>2. ASSUME NEW f \in entries', Covers(f, a), Attr(f, a) = v
          PROVE  \E e \in E : Covers(e, a) /\ v = IF a \in S THEN [Attr(e, a) EXCEPT !.prot = prot]
                                                           ELSE Attr(e, a)
      <4>1. PICK e \in E : f = new(e)
        BY <1>91, Zenon
      <4> QED BY <3>1, <3>2, <4>1, Zenon
    <3>3. ASSUME NEW e \in E, Covers(e, a),
                 v = IF a \in S THEN [Attr(e, a) EXCEPT !.prot = prot] ELSE Attr(e, a)
          PROVE  \E f \in entries' : Covers(f, a) /\ Attr(f, a) = v
      <4>1. new(e) \in entries'
        BY <1>91, Zenon
      <4> QED BY <3>1, <3>3, <4>1, Zenon
    <3> QED BY <3>2, <3>3, Zenon DEF Shows
  <2>4. \A a \in Nat \ S : \A v : Shows(entries', a, v) <=> Shows(entries, a, v)
    <3> SUFFICES ASSUME NEW a \in Nat \ S, NEW v PROVE Shows(entries', a, v) <=> Shows(E, a, v)
      BY <2>2, Zenon
    <3>1. Shows(entries', a, v) <=> \E e \in E : Covers(e, a) /\ v = Attr(e, a)
      BY <2>3, Zenon
    <3> QED BY <3>1, Zenon DEF Shows
  <2>5. \A a \in S : \A v : Shows(entries', a, v)
          <=> \E w : Shows(entries, a, w) /\ v = [w EXCEPT !.prot = prot]
    <3> SUFFICES ASSUME NEW a \in S, NEW v
                 PROVE  Shows(entries', a, v) <=> \E w : Shows(E, a, w) /\ v = [w EXCEPT !.prot = prot]
      BY <1>3, <2>2, Zenon
    <3>1. Shows(entries', a, v) <=> \E e \in E : Covers(e, a) /\ v = [Attr(e, a) EXCEPT !.prot = prot]
      BY <1>3, <2>3, Zenon
    <3> QED BY <3>1, Zenon DEF Shows
  <2> HIDE DEF S
  <2> QED BY <1>1, <1>3, <1>8, <2>1, <2>4, <2>5, ProtectsPages, Zenon
<1> QED BY <1>12, <1>13, Zenon

\* An entry is given other bounds: the entries stay sound, and the size exact.
LEMMA ResizedSound ==
    ASSUME VmInv, NEW e \in entries, NEW m \in Entry, m.start < m.end,
           \A f \in entries \ {e} : f.end <= m.start \/ m.end <= f.start,
           entries' = (entries \ {e}) \cup {m}, size' = (size - counted(e)) + counted(m)
    PROVE  Sound(entries') /\ size' = Cardinality(CountedPages(entries'))
<1> DEFINE E == entries \ {e}
<1>1. Sound(entries) /\ size = Cardinality(CountedPages(entries))
  BY InvIs, Zenon
<1>2. /\ Sound(E)
      /\ Cardinality(CountedPages(E)) = Cardinality(CountedPages(entries)) - counted(e)
  BY <1>1, TakenOut, Zenon
<1>3. /\ Sound(E \cup {m})
      /\ Cardinality(CountedPages(E \cup {m})) = Cardinality(CountedPages(E)) + counted(m)
  <2> HIDE DEF E
  <2>1. \A f \in E : f.end <= m.start \/ m.end <= f.start
    BY Zenon DEF E
  <2> QED BY <1>2, <2>1, Placed, Zenon
<1> QED BY <1>1, <1>2, <1>3, Zenon

\* An entry grows by free pages S, or shrinks by pages S of its own.
LEMMA ResizedPages ==
    ASSUME Sound(entries), Sound(entries'), NEW e \in entries, NEW m, NEW S \in SUBSET Nat,
           entries' = (entries \ {e}) \cup {m}, \A a \in Nat : Attr(m, a) = Attr(e, a)
    PROVE  /\ /\ \A a \in Nat : Covers(m, a) <=> Covers(e, a) \/ a \in S
              /\ \A a \in S : ~\E f \in entries : Covers(f, a)
              => Abstract!Map(S)
           /\ /\ \A a \in Nat : Covers(m, a) <=> Covers(e, a) /\ a \notin S
              /\ \A a \in S : Covers(e, a)
              => Abstract!Unmap(S)
<1>1. ASSUME \A a \in Nat : Covers(m, a) <=> Covers(e, a) \/ a \in S,
             \A a \in S : ~\E f \in entries : Covers(f, a)
      PROVE  Abstract!Map(S)
  <2>1. ASSUME NEW a \in Nat, NEW v, Shows(entries, a, v) PROVE Shows(entries', a, v)
    <3>1. PICK f \in entries : Covers(f, a) /\ Attr(f, a) = v
      BY <2>1, Zenon DEF Shows
    <3>2. CASE f = e
      <4>1. m \in entries' /\ Covers(m, a) /\ Attr(m, a) = v
        BY <1>1, <3>1, <3>2, Zenon
      <4> QED BY <4>1, Zenon DEF Shows
    <3>3. CASE f # e
      <4>1. f \in entries'
        BY <3>3, Zenon
      <4> QED BY <3>1, <4>1, Zenon DEF Shows
    <3> QED BY <3>2, <3>3, Zenon
  <2>2. ASSUME NEW a \in Nat, NEW v, Shows(entries', a, v) PROVE Shows(entries, a, v) \/ a \in S
    <3>1. PICK f \in entries' : Covers(f, a) /\ Attr(f, a) = v
      BY <2>2, Zenon DEF Shows
    <3>2. CASE f = m
      <4>1. (Covers(e, a) \/ a \in S) /\ Attr(e, a) = v
        BY <1>1, <3>1, <3>2, Zenon
      <4> QED BY <4>1, Zenon DEF Shows
    <3>3. CASE f # m
      <4>1. f \in entries
        BY <3>3, Zenon
      <4> QED BY <3>1, <4>1, Zenon DEF Shows
    <3> QED BY <3>2, <3>3, Zenon
  <2>3. \A a \in S : \E f \in entries' : Covers(f, a)
    BY <1>1, Zenon
  <2> QED BY <1>1, <2>1, <2>2, <2>3, MapsPages, Zenon
<1>2. ASSUME \A a \in Nat : Covers(m, a) <=> Covers(e, a) /\ a \notin S,
             \A a \in S : Covers(e, a)
      PROVE  Abstract!Unmap(S)
  <2>1. ASSUME NEW a \in Nat, NEW v, Shows(entries, a, v), a \notin S PROVE Shows(entries', a, v)
    <3>1. PICK f \in entries : Covers(f, a) /\ Attr(f, a) = v
      BY <2>1, Zenon DEF Shows
    <3>2. CASE f = e
      <4>1. m \in entries' /\ Covers(m, a) /\ Attr(m, a) = v
        BY <1>2, <2>1, <3>1, <3>2, Zenon
      <4> QED BY <4>1, Zenon DEF Shows
    <3>3. CASE f # e
      <4>1. f \in entries'
        BY <3>3, Zenon
      <4> QED BY <3>1, <4>1, Zenon DEF Shows
    <3> QED BY <3>2, <3>3, Zenon
  <2>2. ASSUME NEW a \in Nat, NEW v, Shows(entries', a, v) PROVE Shows(entries, a, v) /\ a \notin S
    <3>1. PICK f \in entries' : Covers(f, a) /\ Attr(f, a) = v
      BY <2>2, Zenon DEF Shows
    <3>2. CASE f = m
      <4>1. Covers(e, a) /\ a \notin S /\ Attr(e, a) = v
        BY <1>2, <3>1, <3>2, Zenon
      <4> QED BY <4>1, Zenon DEF Shows
    <3>3. CASE f # m
      <4>1. f \in entries /\ f # e
        BY <3>3, Zenon
      <4>2. a \notin S
        BY <1>2, <3>1, <4>1, ShowsOne, Zenon
      <4> QED BY <3>1, <4>1, <4>2, Zenon DEF Shows
    <3> QED BY <3>2, <3>3, Zenon
  <2> QED BY <2>1, <2>2, UnmapsPages, Zenon
<1> QED BY <1>1, <1>2, Zenon

\* set_end.
LEMMA SetEndStep ==
    ASSUME VmInv, NEW e \in entries, NEW new_end \in lo..hi, set_end(e, new_end)
    PROVE  VmInv' /\ \/ Abstract!Map(e.end..(new_end - 1))
                     \/ Abstract!Unmap(new_end..(e.end - 1))
<1> DEFINE m == [e EXCEPT !.end = new_end]
<1>1. /\ Sound(entries) /\ size = Cardinality(CountedPages(entries))
      /\ cursor \in [base : Nat, at : Nat] /\ CursorSound
  BY InvIs, Zenon
<1>2. /\ new_end >= e.start /\ (new_end > e.end => ~overlaps(e.end, new_end))
      /\ cursor' = freed(new_end)
      /\ entries' = (entries \ {e}) \cup (IF new_end = e.start THEN {} ELSE {m})
      /\ size' = (size - counted(e)) + (IF new_end = e.start THEN 0 ELSE counted(m))
  BY Zenon DEF set_end
<1>3. e \in Entry /\ e.start < e.end
  BY <1>1, Zenon DEF Sound
<1>4. e.start \in Nat /\ e.end \in Nat /\ new_end \in Nat
  BY <1>3, EntryFields, RangeAssumption
<1>5. new_end..(e.end - 1) \in SUBSET Nat /\ e.end..(new_end - 1) \in SUBSET Nat
  BY <1>4
<1>6. CASE new_end = e.start
  <2>1. entries' = entries \ {e} /\ size' = (size - counted(e)) + 0
    BY <1>2, <1>6, Zenon
  <2>2. /\ Sound(entries') /\ counted(e) \in Nat /\ Cardinality(CountedPages(entries)) \in Nat
        /\ Cardinality(CountedPages(entries')) = Cardinality(CountedPages(entries)) - counted(e)
    BY <1>1, <2>1, TakenOut, Zenon
  <2>3. size' = Cardinality(CountedPages(entries'))
    BY <1>1, <2>1, <2>2
  <2>4. \A a \in Nat : Covers(e, a) <=> a \in new_end..(e.end - 1)
    BY <1>4, <1>6 DEF Covers
  <2>5. \A a \in Nat : a < new_end => a \notin new_end..(e.end - 1)
    BY <1>4
  <2>6. \A a \in Nat : a < new_end /\ (\E f \in entries : Covers(f, a)) => \E f \in entries' : Covers(f, a)
    BY <2>1, <2>4, <2>5, Zenon
  <2>7. cursor' \in [base : Nat, at : Nat] /\ CursorSound'
    BY <1>1, <1>2, <1>4, <2>6, FreedKeeps, Zenon
  <2>8. \A a \in Nat : \A v : Shows(entries', a, v) <=> Shows(entries, a, v) /\ a \notin new_end..(e.end - 1)
    <3> SUFFICES ASSUME NEW a \in Nat, NEW v
                 PROVE  Shows(entries', a, v) <=> Shows(entries, a, v) /\ ~Covers(e, a)
      BY <2>4, Zenon
    <3>1. \A f \in entries : Covers(f, a) => (f # e <=> ~Covers(e, a))
      BY <1>1, ShowsOne, Zenon
    <3> QED BY <2>1, <3>1, Zenon DEF Shows
  <2>9. Abstract!Unmap(new_end..(e.end - 1))
    BY <1>1, <1>5, <2>2, <2>8, UnmapsPages, Zenon
  <2> QED BY <2>2, <2>3, <2>7, <2>9, InvAfter, Zenon
<1>7. CASE new_end # e.start
  <2>1. entries' = (entries \ {e}) \cup {m} /\ size' = (size - counted(e)) + counted(m)
    BY <1>2, <1>7, Zenon
  <2>2. /\ m \in Entry /\ m.start = e.start /\ m.end = new_end
        /\ \A a \in Nat : Attr(m, a) = Attr(e, a)
    BY <1>3 DEF Entry, Attr
  <2> HIDE DEF m
  <2>3. \A f \in entries \ {e} : f.end <= m.start \/ m.end <= f.start
    <3> SUFFICES ASSUME NEW f \in entries \ {e} PROVE f.end <= e.start \/ new_end <= f.start
      BY <2>2, Zenon
    <3>1. f \in Entry /\ f.start < f.end /\ (f.end <= e.start \/ e.end <= f.start)
      BY <1>1, Zenon DEF Sound
    <3>2. f.start \in Nat /\ f.end \in Nat
      BY <3>1, EntryFields
    <3>3. new_end > e.end => f.end <= e.end \/ new_end <= f.start
      BY <1>1, <1>2, <1>4, NoOverlap, Zenon
    <3> QED BY <1>4, <3>1, <3>2, <3>3
  <2>4. m.start < m.end
    BY <1>2, <1>4, <1>7, <2>2
  <2>5. Sound(entries') /\ size' = Cardinality(CountedPages(entries'))
    BY <2>1, <2>2, <2>3, <2>4, ResizedSound, Zenon
  <2>6. \A a \in Nat : a < new_end /\ (\E f \in entries : Covers(f, a)) => \E f \in entries' : Covers(f, a)
    <3>1. \A a \in Nat : a < new_end /\ Covers(e, a) => Covers(m, a)
      BY <1>4, <2>2 DEF Covers
    <3> QED BY <2>1, <3>1, Zenon
  <2>7. cursor' \in [base : Nat, at : Nat] /\ CursorSound'
    BY <1>1, <1>2, <1>4, <2>6, FreedKeeps, Zenon
  <2>8. CASE new_end > e.end
    <3>1. \A a \in Nat : Covers(m, a) <=> Covers(e, a) \/ a \in e.end..(new_end - 1)
      BY <1>3, <1>4, <2>2, <2>8 DEF Covers
    <3>2. \A a \in e.end..(new_end - 1) : ~\E f \in entries : Covers(f, a)
      BY <1>1, <1>2, <1>4, <2>8, NoOverlap, Zenon
    <3>3. Abstract!Map(e.end..(new_end - 1))
      BY <1>1, <1>5, <2>1, <2>2, <2>5, <3>1, <3>2, ResizedPages, Zenon
    <3> QED BY <2>5, <2>7, <3>3, InvAfter, Zenon
  <2>9. CASE ~(new_end > e.end)
    <3>1. \A a \in Nat : Covers(m, a) <=> Covers(e, a) /\ a \notin new_end..(e.end - 1)
      BY <1>3, <1>4, <2>2, <2>9 DEF Covers
    <3>2. \A a \in new_end..(e.end - 1) : Covers(e, a)
      BY <1>2, <1>4 DEF Covers
    <3>3. Abstract!Unmap(new_end..(e.end - 1))
      BY <1>1, <1>5, <2>1, <2>2, <2>5, <3>1, <3>2, ResizedPages, Zenon
    <3> QED BY <2>5, <2>7, <3>3, InvAfter, Zenon
  <2> QED BY <2>8, <2>9, Zenon
<1> QED BY <1>6, <1>7, Zenon

\* set_start.
LEMMA SetStartStep ==
    ASSUME VmInv, NEW e \in entries, NEW new_start \in lo..hi, set_start(e, new_start)
    PROVE  VmInv' /\ \/ Abstract!Map(new_start..(e.start - 1))
                     \/ Abstract!Unmap(e.start..(new_start - 1))
<1> DEFINE m == [e EXCEPT !.start = new_start]
<1>1. /\ Sound(entries) /\ size = Cardinality(CountedPages(entries))
      /\ cursor \in [base : Nat, at : Nat] /\ CursorSound
  BY InvIs, Zenon
<1>2. /\ e.kind = "stack" /\ new_start < e.end /\ (new_start < e.start => ~overlaps(new_start, e.start))
      /\ cursor' = freed(e.start) /\ entries' = (entries \ {e}) \cup {m}
      /\ size' = (size - counted(e)) + counted(m)
  BY Zenon DEF set_start
<1>3. e \in Entry /\ e.start < e.end
  BY <1>1, Zenon DEF Sound
<1>4. e.start \in Nat /\ e.end \in Nat /\ new_start \in Nat
  BY <1>3, EntryFields, RangeAssumption
<1>5. new_start..(e.start - 1) \in SUBSET Nat /\ e.start..(new_start - 1) \in SUBSET Nat
  BY <1>4
<1>6. /\ m \in Entry /\ m.start = new_start /\ m.end = e.end
      /\ \A a \in Nat : Attr(m, a) = Attr(e, a)
  BY <1>2, <1>3 DEF Entry, Attr
<1> HIDE DEF m
<1>7. \A f \in entries \ {e} : f.end <= m.start \/ m.end <= f.start
  <2> SUFFICES ASSUME NEW f \in entries \ {e} PROVE f.end <= new_start \/ e.end <= f.start
    BY <1>6, Zenon
  <2>1. f \in Entry /\ f.start < f.end /\ (f.end <= e.start \/ e.end <= f.start)
    BY <1>1, Zenon DEF Sound
  <2>2. f.start \in Nat /\ f.end \in Nat
    BY <2>1, EntryFields
  <2>3. new_start < e.start => f.end <= new_start \/ e.start <= f.start
    BY <1>1, <1>2, <1>4, NoOverlap, Zenon
  <2> QED BY <1>4, <2>1, <2>2, <2>3
<1>8. m.start < m.end
  BY <1>2, <1>6, Zenon
<1>9. Sound(entries') /\ size' = Cardinality(CountedPages(entries'))
  BY <1>2, <1>6, <1>7, <1>8, ResizedSound, Zenon
<1>10. cursor' \in [base : Nat, at : Nat] /\ CursorSound'
  <2>1. \A a \in Nat : a < e.start => ~Covers(e, a)
    BY <1>4 DEF Covers
  <2>2. \A a \in Nat : a < e.start /\ (\E f \in entries : Covers(f, a)) => \E f \in entries' : Covers(f, a)
    BY <1>2, <2>1, Zenon
  <2> QED BY <1>1, <1>2, <1>4, <2>2, FreedKeeps, Zenon
<1>11. VmInv'
  BY <1>9, <1>10, InvAfter, Zenon
<1>12. CASE new_start < e.start
  <2>1. \A a \in Nat : Covers(m, a) <=> Covers(e, a) \/ a \in new_start..(e.start - 1)
    BY <1>3, <1>4, <1>6, <1>12 DEF Covers
  <2>2. \A a \in new_start..(e.start - 1) : ~\E f \in entries : Covers(f, a)
    BY <1>1, <1>2, <1>4, <1>12, NoOverlap, Zenon
  <2>3. Abstract!Map(new_start..(e.start - 1))
    BY <1>1, <1>2, <1>5, <1>6, <1>9, <2>1, <2>2, ResizedPages, Zenon
  <2> QED BY <1>11, <2>3, Zenon
<1>13. CASE ~(new_start < e.start)
  <2>1. \A a \in Nat : Covers(m, a) <=> Covers(e, a) /\ a \notin e.start..(new_start - 1)
    BY <1>3, <1>4, <1>6, <1>13 DEF Covers
  <2>2. \A a \in e.start..(new_start - 1) : Covers(e, a)
    BY <1>2, <1>4 DEF Covers
  <2>3. Abstract!Unmap(e.start..(new_start - 1))
    BY <1>1, <1>2, <1>5, <1>6, <1>9, <2>1, <2>2, ResizedPages, Zenon
  <2> QED BY <1>11, <2>3, Zenon
<1> QED BY <1>12, <1>13, Zenon

\* set_base moves the cursor alone, over pages that are mapped.
LEMMA SetBaseStep ==
    ASSUME VmInv, set_base
    PROVE  VmInv' /\ entries' = entries
<1> DEFINE c == CHOOSE e \in lookup(mmap_base) : TRUE
           at == IF lookup(mmap_base) = {} THEN mmap_base ELSE c.end
<1>1. /\ Sound(entries) /\ size = Cardinality(CountedPages(entries))
      /\ cursor \in [base : Nat, at : Nat] /\ CursorSound
  BY InvIs, Zenon
<1>2. entries' = entries /\ size' = size /\ cursor' = [base |-> mmap_base, at |-> Chain(entries, at)]
  BY Zenon DEF set_base
<1>3. at \in Nat /\ \A a \in Nat : mmap_base <= a /\ a < at => \E e \in entries : Covers(e, a)
  <2>1. CASE lookup(mmap_base) = {}
    BY <2>1, RangeAssumption
  <2>2. CASE lookup(mmap_base) # {}
    <3>1. at = c.end /\ c \in lookup(mmap_base)
      BY <2>2, Zenon
    <3> HIDE DEF c, at
    <3>2. c \in entries /\ Covers(c, mmap_base)
      BY <3>1, Zenon DEF lookup
    <3>3. c.start \in Nat /\ c.end \in Nat
      BY <1>1, <3>2, EntryFields DEF Sound
    <3>4. \A a \in Nat : mmap_base <= a /\ a < c.end => Covers(c, a)
      BY <3>2, <3>3, RangeAssumption DEF Covers
    <3> QED BY <3>1, <3>2, <3>3, <3>4, Zenon
  <2> QED BY <2>1, <2>2, Zenon
<1> HIDE DEF at
<1>4. /\ Chain(entries, at) \in Nat
      /\ \A a \in Nat : at <= a /\ a < Chain(entries, at) => \E e \in entries : Covers(e, a)
  BY <1>1, <1>3, ChainCovers, Zenon
<1>5. /\ cursor' \in [base : Nat, at : Nat]
      /\ cursor'.base = mmap_base /\ cursor'.at = Chain(entries, at)
  BY <1>2, <1>4, RangeAssumption
<1>6. CursorSound'
  <2> SUFFICES ASSUME NEW a \in (cursor'.base)..(cursor'.at - 1) PROVE \E e \in entries : Covers(e, a)
    BY <1>2, Zenon DEF CursorSound
  <2>1. a \in Nat /\ mmap_base <= a /\ a < Chain(entries, at)
    BY <1>4, <1>5, RangeAssumption
  <2>2. a < at \/ at <= a
    BY <1>3, <2>1
  <2> QED BY <1>3, <1>4, <2>1, <2>2, Zenon
<1> QED BY <1>1, <1>2, <1>5, <1>6, InvAfter, Zenon

-----------------------------------------------------------------------------
(* find_space.                                                             *)

\* lookup finds the entry that has the page.
LEMMA LookupIs ==
    ASSUME Sound(entries), NEW a \in Nat
    PROVE  \A e : e \in lookup(a) <=> e \in entries /\ Covers(e, a)
<1>1. ASSUME NEW e \in entries, Covers(e, a), NEW f \in entries, f.start <= a
      PROVE  f.start <= e.start
  <2>1. /\ e.start \in Nat /\ e.end \in Nat /\ f.start \in Nat /\ f.end \in Nat
        /\ f.start < f.end
    BY EntryFields DEF Sound
  <2>2. e = f \/ e.end <= f.start \/ f.end <= e.start
    BY Zenon DEF Sound
  <2> QED BY <1>1, <2>1, <2>2 DEF Covers
<1> QED BY <1>1, Zenon DEF lookup

\* The search goes over no free page before at0, and no entry crosses at0.
LEMMA SearchBegins ==
    ASSUME Sound(entries), NEW begin \in Nat, NEW at0,
           at0 = IF lookup(begin) = {} THEN begin ELSE (CHOOSE e \in lookup(begin) : TRUE).end
    PROVE  /\ at0 \in Nat /\ begin <= at0
           /\ \A a \in Nat : begin <= a /\ a < at0 => \E e \in entries : Covers(e, a)
           /\ \A e \in entries : at0 <= e.start \/ e.end <= at0
<1>1. \A e \in entries : e.start \in Nat /\ e.end \in Nat
  BY EntryFields DEF Sound
<1>2. CASE lookup(begin) = {}
  <2>1. at0 = begin
    BY <1>2, Zenon
  <2>2. \A e \in entries : ~Covers(e, begin)
    BY <1>2, LookupIs, Zenon
  <2>3. \A e \in entries : at0 <= e.start \/ e.end <= at0
    BY <1>1, <2>1, <2>2 DEF Covers
  <2>4. \A a \in Nat : ~(begin <= a /\ a < begin)
    OBVIOUS
  <2>5. begin <= begin
    OBVIOUS
  <2> QED BY <2>1, <2>3, <2>4, <2>5, Zenon
<1>3. CASE lookup(begin) # {}
  <2> DEFINE c == CHOOSE e \in lookup(begin) : TRUE
  <2>1. at0 = c.end /\ c \in lookup(begin)
    BY <1>3, Zenon
  <2> HIDE DEF c
  <2>2. c \in entries /\ Covers(c, begin)
    BY <2>1, LookupIs, Zenon
  <2>3. c.start \in Nat /\ c.end \in Nat /\ c.start <= begin /\ begin < c.end
    BY <1>1, <2>2, Zenon DEF Covers
  <2>4. \A a \in Nat : begin <= a /\ a < at0 => Covers(c, a)
    BY <2>1, <2>3 DEF Covers
  <2>5. ASSUME NEW e \in entries PROVE at0 <= e.start \/ e.end <= at0
    <3>1. e = c \/ e.end <= c.start \/ c.end <= e.start
      BY <2>2, Zenon DEF Sound
    <3>2. e.start \in Nat /\ e.end \in Nat
      BY <1>1, Zenon
    <3> QED BY <2>1, <2>3, <3>1, <3>2
  <2>6. at0 \in Nat /\ begin <= at0
    BY <2>1, <2>3
  <2>7. \A a \in Nat : begin <= a /\ a < at0 => \E e \in entries : Covers(e, a)
    BY <2>2, <2>4, Zenon
  <2> QED BY <2>5, <2>6, <2>7, Zenon
<1> QED BY <1>2, <1>3, Zenon

\* One search is a first fit: it passes over no range that would do.
LEMMA FirstFitIs ==
    ASSUME Sound(entries), NEW from \in Nat, NEW len \in Nat \ {0}
    PROVE  /\ first_fit(from, len) = FirstFrom(from, len)
           /\ first_fit(from, len) # hi => /\ first_fit(from, len) \in Nat /\ lo <= first_fit(from, len)
                                           /\ first_fit(from, len) + len <= hi
<1> DEFINE begin == Max({from, lo})
           at0 == IF lookup(begin) = {} THEN begin ELSE (CHOOSE e \in lookup(begin) : TRUE).end
           later == {e \in entries : at0 <= e.start}
           ends(s) == {at0} \cup {e.end : e \in {f \in later : f.start < s}}
           at(s) == Max(ends(s))
           starts == {e.start : e \in later}
           gaps == {s \in starts : s - at(s) >= len}
           g == Min(gaps \cup {hi})
           r == at(g)
<1>1. first_fit(from, len) = IF room_at(r, len) THEN r ELSE hi
  BY Zenon DEF first_fit
<1>2. begin \in Nat /\ \A a \in Nat : begin <= a <=> from <= a /\ lo <= a
  <2>1. begin = IF from >= lo THEN from ELSE lo
    BY MaxPair, RangeAssumption, Zenon
  <2> QED BY <2>1, RangeAssumption
<1> HIDE DEF begin
<1>3. /\ at0 \in Nat /\ begin <= at0
      /\ \A a \in Nat : begin <= a /\ a < at0 => \E e \in entries : Covers(e, a)
      /\ \A e \in entries : at0 <= e.start \/ e.end <= at0
  BY <1>2, SearchBegins, Zenon
<1> HIDE DEF at0
<1>4. \A e \in entries : e.start \in Nat /\ e.end \in Nat /\ e.start < e.end /\ e.end <= hi
  BY EntryFields DEF Sound
<1>5. later \in SUBSET entries /\ \A e \in entries : e \in later \/ e.end <= at0
  BY <1>3, Zenon
<1>6. ASSUME NEW s
      PROVE  /\ at(s) \in Nat /\ at0 <= at(s)
             /\ \A e \in later : e.start < s => e.end <= at(s)
             /\ at(s) = at0 \/ \E e \in later : e.start < s /\ at(s) = e.end
  <2>1. ends(s) \in SUBSET Nat /\ \A y \in ends(s) : y <= at0 + hi
    BY <1>3, <1>4, <1>5, RangeAssumption
  <2>2. at0 \in ends(s) /\ (\A e \in later : e.start < s => e.end \in ends(s))
    BY Zenon
  <2>3. \A y \in ends(s) : y = at0 \/ \E e \in later : e.start < s /\ y = e.end
    BY Zenon
  <2>4. at0 + hi \in Nat
    BY <1>3, RangeAssumption
  <2> HIDE DEF ends
  <2>5. at(s) \in ends(s) /\ at(s) \in Nat /\ \A y \in ends(s) : y <= at(s)
    BY <2>1, <2>2, <2>4, MaxNat, Zenon
  <2> QED BY <2>2, <2>3, <2>5, Zenon
<1> HIDE DEF at
<1>7. /\ g \in gaps \/ g = hi
      /\ g \in Nat /\ \A s \in gaps : g <= s
  <2>1. gaps \cup {hi} \in SUBSET Nat /\ gaps \cup {hi} # {}
    BY <1>4, RangeAssumption
  <2> HIDE DEF gaps
  <2>2. g \in gaps \cup {hi} /\ g \in Nat /\ \A y \in gaps \cup {hi} : g <= y
    BY <2>1, MinNat, Zenon
  <2> QED BY <2>2, Zenon
<1>8. \A s : s \in gaps <=> s \in starts /\ s - at(s) >= len
  BY Zenon
<1>9. \A s : s \in starts <=> \E e \in later : s = e.start
  BY Zenon
<1> HIDE DEF later, g, gaps, starts
<1>10. r \in Nat /\ begin <= r
  <2>1. r \in Nat /\ at0 <= r
    BY <1>6, Zenon
  <2> QED BY <1>2, <1>3, <2>1
<1>11. ASSUME NEW x \in Nat, begin <= x, x < r, Fits(x, len)
       PROVE  FALSE
  <2>1. x + len <= hi /\ \A b \in Nat : x <= b /\ b < x + len => \A e \in entries : ~Covers(e, b)
    BY <1>11 DEF Fits
  <2>2. \A e \in entries : ~Covers(e, x)
    BY <2>1
  <2>3. at0 <= x
    <3>1. ~(x < at0)
      BY <1>3, <1>11, <2>2, Zenon
    <3> QED BY <1>3, <3>1
  <2>4. PICK e \in later : e.start < g /\ r = e.end
    <3>1. r # at0
      BY <1>3, <1>10, <1>11, <2>3
    <3> QED BY <1>6, <3>1, Zenon
  <2>5. e \in entries /\ e.start \in Nat /\ e.end \in Nat /\ x < e.start
    <3>1. e \in entries /\ e.start \in Nat /\ e.end \in Nat
      BY <1>4, <1>5, Zenon
    <3> QED BY <1>11, <2>2, <2>4, <3>1 DEF Covers
  <2> DEFINE B == {s \in starts : x < s}
  <2>6. e.start \in B /\ B \in SUBSET Nat
    <3>1. e.start \in starts
      BY <1>9, <2>4, Zenon
    <3>2. ASSUME NEW s \in starts PROVE s \in Nat
      <4>1. PICK d \in later : s = d.start
        BY <1>9, Zenon
      <4> QED BY <1>4, <1>5, <4>1, Zenon
    <3> QED BY <2>5, <3>1, <3>2, Zenon
  <2>7. PICK b \in B : \A y \in B : b <= y
    <3> HIDE DEF B
    <3> QED BY <2>6, LeastNat, Zenon
  <2>8. b \in Nat /\ b <= e.start /\ b \in starts /\ x < b /\ \A s \in starts : x < s => b <= s
    BY <2>6, <2>7, Zenon
  <2> HIDE DEF B
  <2>9. PICK f \in later : b = f.start
    BY <1>9, <2>8, Zenon
  <2>10. f \in entries /\ f.start < f.end /\ f.start \in Nat /\ f.end \in Nat
    BY <1>4, <1>5, Zenon
  <2>11. x + len <= b
    <3>1. Covers(f, b)
      BY <2>9, <2>10 DEF Covers
    <3>2. ~(x <= b /\ b < x + len)
      BY <2>1, <2>8, <2>10, <3>1, Zenon
    <3> QED BY <2>8, <3>2
  <2>12. at(b) \in Nat /\ at(b) <= x
    <3>1. at(b) \in Nat
      BY <1>6, Zenon
    <3>2. CASE at(b) = at0
      BY <2>3, <3>1, <3>2, Zenon
    <3>3. CASE at(b) # at0
      <4>1. PICK d \in later : d.start < b /\ at(b) = d.end
        BY <1>6, <3>3, Zenon
      <4>2. d \in entries /\ d.start \in Nat /\ d.end \in Nat /\ d.start \in starts
        BY <1>4, <1>5, <1>9, Zenon
      <4>3. x < d.start => b <= d.start
        BY <2>8, <4>2, Zenon
      <4>4. ~Covers(d, x)
        BY <2>2, <4>2, Zenon
      <4> QED BY <2>8, <4>1, <4>2, <4>3, <4>4 DEF Covers
    <3> QED BY <3>2, <3>3, Zenon
  <2>13. b - at(b) >= len
    BY <2>8, <2>11, <2>12
  <2>14. g <= b
    BY <1>7, <1>8, <2>8, <2>13, Zenon
  <2> QED BY <1>7, <2>4, <2>5, <2>8, <2>14
<1>12. ASSUME r + len <= hi
       PROVE  Fits(r, len)
  <2> SUFFICES ASSUME NEW b \in r..(r + len - 1), NEW e \in entries, Covers(e, b)
               PROVE  FALSE
    BY <1>12, Zenon DEF Fits
  <2>1. b \in Nat /\ r <= b /\ b < r + len
    BY <1>10
  <2>2. e.start \in Nat /\ e.end \in Nat /\ e.start <= b /\ b < e.end /\ e.end <= hi
    BY <1>4, Zenon DEF Covers
  <2>3. at0 <= r /\ at0 \in Nat /\ r \in Nat
    BY <1>3, <1>6, Zenon
  <2>4. e \in later
    <3>1. ~(e.end <= at0)
      BY <2>1, <2>2, <2>3
    <3> QED BY <1>5, <3>1, Zenon
  <2>5. g <= e.start
    <3>1. ~(e.end <= r)
      BY <2>1, <2>2, <2>3
    <3>2. ~(e.start < g)
      BY <1>6, <2>4, <3>1, Zenon
    <3> QED BY <1>7, <2>2, <3>2
  <2>6. CASE g \in gaps
    <3>1. g - r >= len
      BY <1>8, <2>6, Zenon
    <3> QED BY <1>7, <2>1, <2>2, <2>3, <2>5, <3>1
  <2>7. CASE g = hi
    BY <2>1, <2>2, <2>5, <2>7, RangeAssumption
  <2> QED BY <1>7, <2>6, <2>7, Zenon
<1> HIDE DEF r
<1> DEFINE fits == {a \in from..hi : lo <= a /\ Fits(a, len)}
<1>13. FirstFrom(from, len) = IF fits = {} THEN hi ELSE Min(fits)
  BY Zenon DEF FirstFrom
<1>14. \A a \in fits : a \in Nat /\ begin <= a /\ Fits(a, len)
  <2>1. \A a \in from..hi : a \in Nat /\ from <= a
    BY RangeAssumption
  <2> QED BY <1>2, <2>1, Zenon
<1>15. CASE r + len <= hi
  <2>1. r \in fits
    <3>1. r \in from..hi /\ lo <= r
      BY <1>2, <1>10, <1>15, RangeAssumption
    <3> QED BY <1>12, <1>15, <3>1, Zenon
  <2> HIDE DEF fits
  <2>2. fits \in SUBSET Nat
    BY <1>14, Zenon
  <2>3. Min(fits) \in fits /\ Min(fits) \in Nat /\ Min(fits) <= r
    BY <2>1, <2>2, MinNat, Zenon
  <2>4. ~(Min(fits) < r)
    BY <1>11, <1>14, <2>3, Zenon
  <2>5. Min(fits) = r
    BY <1>10, <2>3, <2>4
  <2>6. first_fit(from, len) = r
    BY <1>1, <1>15, Zenon DEF room_at
  <2>7. lo <= r
    BY <1>2, <1>10, Zenon
  <2> QED BY <1>10, <1>13, <1>15, <2>1, <2>5, <2>6, <2>7, Zenon
<1>16. CASE ~(r + len <= hi)
  <2>1. ASSUME NEW a \in fits PROVE FALSE
    <3>1. a \in Nat /\ a + len <= hi
      BY <1>14, Zenon DEF Fits
    <3>2. ~(a < r)
      BY <1>11, <1>14, Zenon
    <3> QED BY <1>10, <1>16, <3>1, <3>2, RangeAssumption
  <2>2. first_fit(from, len) = hi
    BY <1>1, <1>16, Zenon DEF room_at
  <2> QED BY <1>13, <2>1, <2>2, Zenon
<1> QED BY <1>15, <1>16, Zenon

\* What the cursor passes over would not have done.
LEMMA CursorLosesNothing ==
    ASSUME VmInv, NEW len \in Nat \ {0}, cursor.base = mmap_base
    PROVE  FirstFrom(Max({cursor.at, mmap_base}), len) = FirstFrom(mmap_base, len)
<1> DEFINE m == Max({cursor.at, mmap_base})
           fits(from) == {a \in from..hi : lo <= a /\ Fits(a, len)}
<1>1. cursor.at \in Nat /\ mmap_base \in Nat /\ CursorSound
  BY InvIs, RangeAssumption
<1>2. m = IF cursor.at >= mmap_base THEN cursor.at ELSE mmap_base
  BY <1>1, MaxPair, Zenon
<1>3. m \in Nat /\ mmap_base <= m
  BY <1>1, <1>2
<1>4. ASSUME NEW a \in Nat, Fits(a, len), mmap_base <= a PROVE m <= a
  <2>1. \A e \in entries : ~Covers(e, a)
    <3>1. a \in a..(a + len - 1)
      OBVIOUS
    <3> QED BY <1>4, <3>1, Zenon DEF Fits
  <2>2. a \notin mmap_base..(cursor.at - 1)
    BY <1>1, <2>1, Zenon DEF CursorSound
  <2> QED BY <1>1, <1>2, <1>4, <2>2
<1> HIDE DEF m
<1>5. fits(m) = fits(mmap_base)
  <2>1. m..hi \in SUBSET (mmap_base..hi) /\ \A a \in mmap_base..hi : m <= a => a \in m..hi
    BY <1>1, <1>3, RangeAssumption
  <2>2. \A a \in mmap_base..hi : a \in Nat /\ mmap_base <= a
    BY <1>1, RangeAssumption
  <2> QED BY <1>4, <2>1, <2>2, Zenon
<1>6. /\ FirstFrom(m, len) = IF fits(m) = {} THEN hi ELSE Min(fits(m))
      /\ FirstFrom(mmap_base, len) = IF fits(mmap_base) = {} THEN hi ELSE Min(fits(mmap_base))
  BY Zenon DEF FirstFrom
<1> HIDE DEF fits
<1>7. FirstFrom(m, len) = FirstFrom(mmap_base, len)
  BY <1>5, <1>6, Zenon
<1> QED BY <1>7, Zenon DEF m

\* find_space returns the first gap, from where it is told to look.
LEMMA FindsIt ==
    ASSUME VmInv
    PROVE  /\ FindsFirstFit
           /\ \A len \in Lengths, hint \in Hints :
                find_space(len, hint) # hi => /\ find_space(len, hint) \in lo..hi
                                              /\ find_space(len, hint) + len \in lo..hi
<1> SUFFICES ASSUME NEW len \in Lengths, NEW hint \in Hints
             PROVE  /\ find_space(len, hint) =
                         IF hint # 0 /\ FirstFrom(hint, len) # hi THEN FirstFrom(hint, len)
                         ELSE IF FirstFrom(mmap_base, len) # hi THEN FirstFrom(mmap_base, len)
                         ELSE FirstFrom(lo, len)
                    /\ find_space(len, hint) # hi => /\ find_space(len, hint) \in lo..hi
                                                     /\ find_space(len, hint) + len \in lo..hi
  BY Zenon DEF FindsFirstFit
<1> DEFINE from == IF cursor.base = mmap_base THEN Max({cursor.at, mmap_base}) ELSE mmap_base
<1>1. Sound(entries) /\ cursor \in [base : Nat, at : Nat]
  BY InvIs, Zenon
<1>2. len \in Nat \ {0} /\ hint \in Nat /\ lo \in Nat /\ hi \in Nat /\ mmap_base \in Nat
  BY AskedAssumption, RangeAssumption
<1>3. from \in Nat
  <2>1. cursor.at \in Nat
    BY <1>1
  <2>2. Max({cursor.at, mmap_base}) = IF cursor.at >= mmap_base THEN cursor.at ELSE mmap_base
    BY <1>2, <2>1, MaxPair, Zenon
  <2> QED BY <1>2, <2>1, <2>2, Zenon
<1>4. FirstFrom(from, len) = FirstFrom(mmap_base, len)
  <2>1. CASE cursor.base = mmap_base
    BY <1>2, <2>1, CursorLosesNothing, Zenon
  <2>2. CASE cursor.base # mmap_base
    BY <2>2, Zenon
  <2> QED BY <2>1, <2>2, Zenon
<1>5. find_space(len, hint) =
        IF hint # 0 /\ first_fit(hint, len) # hi THEN first_fit(hint, len)
        ELSE IF first_fit(from, len) # hi THEN first_fit(from, len)
        ELSE first_fit(lo, len)
  BY Zenon DEF find_space
<1> HIDE DEF from
<1>6. /\ first_fit(hint, len) = FirstFrom(hint, len)
      /\ first_fit(from, len) = FirstFrom(from, len)
      /\ first_fit(lo, len) = FirstFrom(lo, len)
  BY <1>1, <1>2, <1>3, FirstFitIs, Zenon
<1>7. \A x \in Nat : first_fit(x, len) # hi =>
        /\ first_fit(x, len) \in Nat /\ lo <= first_fit(x, len) /\ first_fit(x, len) + len <= hi
  BY <1>1, <1>2, FirstFitIs, Zenon
<1>8. \E x \in Nat : find_space(len, hint) = first_fit(x, len)
  BY <1>2, <1>3, <1>5, Zenon
<1>9. find_space(len, hint) # hi =>
        /\ find_space(len, hint) \in Nat /\ lo <= find_space(len, hint)
        /\ find_space(len, hint) + len <= hi
  BY <1>7, <1>8, Zenon
<1>10. find_space(len, hint) # hi => /\ find_space(len, hint) \in lo..hi
                                     /\ find_space(len, hint) + len \in lo..hi
  BY <1>2, <1>9, SMTT(30)
<1> QED BY <1>4, <1>5, <1>6, <1>10, Zenon

-----------------------------------------------------------------------------
(* The map.                                                                *)

\* A mapping of len pages from start on is an entry.
LEMMA NewEntry ==
    ASSUME NEW start \in lo..hi, NEW len, start + len \in lo..hi, NEW prot \in SUBSET Prots,
           NEW max \in SUBSET Prots, NEW kind \in Kinds, NEW page \in FilePages
    PROVE  /\ [start |-> start, end |-> start + len, prot |-> prot, max |-> max,
               kind |-> kind, page |-> page] \in Entry
           /\ insert(start, len, prot, max, kind, page) =>
                Insert([start |-> start, end |-> start + len, prot |-> prot, max |-> max,
                        kind |-> kind, page |-> page])
BY FileAssumption DEF Entry, insert

\* Every step keeps the invariant, and is a step on pages or leaves them alone.
LEMMA VmStep ==
    ASSUME VmInv, Next
    PROVE  VmInv' /\ (Abstract!Next \/ PagesOf(entries)' = PagesOf(entries))
<1> DEFINE Rs == {s..(t - 1) : s, t \in lo..hi}
<1>1. /\ \A S \in Rs : Abstract!Map(S) => Abstract!Next
      /\ \A S \in Rs : Abstract!Unmap(S) => Abstract!Next
      /\ \A S \in Rs : \A prot \in SUBSET Prots : Abstract!Protect(S, prot) => Abstract!Next
  BY DEF Abstract!Next
<1>2. \A s, t \in lo..hi : s..(t - 1) \in Rs
  OBVIOUS
<1> HIDE DEF Rs
<1>3. \A e \in Entry : e.start \in lo..hi /\ e.end \in lo..hi
  BY DEF Entry
<1>4. ASSUME NEW e \in Entry, Insert(e) PROVE VmInv' /\ Abstract!Next
  BY <1>1, <1>2, <1>3, <1>4, InsertStep, Zenon
<1>5. ASSUME NEW len \in Lengths, NEW prot \in SUBSET Prots, NEW max \in SUBSET Prots,
             NEW kind \in Kinds, NEW page \in FilePages, NEW start \in lo..(hi - len),
             insert(start, len, prot, max, kind, page)
      PROVE  VmInv' /\ Abstract!Next
  <2>1. start \in lo..hi /\ start + len \in lo..hi
    BY AskedAssumption, RangeAssumption
  <2> QED BY <1>4, <1>5, <2>1, NewEntry, Zenon
<1>6. ASSUME NEW len \in Lengths, NEW prot \in SUBSET Prots, NEW max \in SUBSET Prots,
             NEW kind \in Kinds, NEW page \in FilePages, NEW hint \in Hints,
             reserve(len, hint, prot, max, kind, page)
      PROVE  VmInv' /\ Abstract!Next
  <2> DEFINE at == find_space(len, hint)
  <2>1. at # hi /\ insert(at, len, prot, max, kind, page)
    BY <1>6, Zenon DEF reserve
  <2>2. at \in lo..hi /\ at + len \in lo..hi
    BY <2>1, FindsIt, Zenon
  <2> QED BY <1>4, <2>1, <2>2, NewEntry, Zenon
<1>7. ASSUME NEW start \in lo..hi, NEW end \in lo..hi, remove(start, end)
      PROVE  VmInv' /\ Abstract!Next
  BY <1>1, <1>2, <1>7, RemoveStep, Zenon
<1>8. ASSUME NEW start \in lo..hi, NEW end \in lo..hi, NEW prot \in SUBSET Prots,
             protect(start, end, prot)
      PROVE  VmInv' /\ Abstract!Next
  BY <1>1, <1>2, <1>8, ProtectStep, Zenon
<1>9. entries \in SUBSET Entry
  BY Zenon DEF VmInv, TypeOK
<1>10. ASSUME NEW e \in entries, NEW a \in lo..hi, set_end(e, a)
       PROVE  VmInv' /\ Abstract!Next
  BY <1>1, <1>2, <1>3, <1>9, <1>10, SetEndStep, Zenon
<1>11. ASSUME NEW e \in entries, NEW a \in lo..hi, set_start(e, a)
       PROVE  VmInv' /\ Abstract!Next
  BY <1>1, <1>2, <1>3, <1>9, <1>11, SetStartStep, Zenon
<1>12. ASSUME set_base PROVE VmInv' /\ PagesOf(entries)' = PagesOf(entries)
  <2>1. VmInv' /\ entries' = entries
    BY <1>12, SetBaseStep, Zenon
  <2> QED BY <2>1, Zenon
<1>13. CASE \E len \in Lengths, prot, max \in SUBSET Prots, kind \in Kinds, page \in FilePages :
               /\ prot \subseteq max
               /\ \/ \E start \in lo..(hi - len) : insert(start, len, prot, max, kind, page)
                  \/ \E hint \in Hints : reserve(len, hint, prot, max, kind, page)
  BY <1>5, <1>6, <1>13, ZenonT(40)
<1>14. CASE \E start, end \in lo..hi : \/ remove(start, end)
                                      \/ \E prot \in SUBSET Prots : protect(start, end, prot)
  BY <1>7, <1>8, <1>14, Zenon
<1>15. CASE \E e \in entries, a \in lo..hi : set_end(e, a) \/ set_start(e, a)
  BY <1>10, <1>11, <1>15, Zenon
<1> QED BY <1>12, <1>13, <1>14, <1>15, Zenon DEF Next

\* The invariant holds of the map of a new address space.
LEMMA VmInit ==
    ASSUME Init
    PROVE  VmInv /\ Abstract!Init
<1>1. entries = {} /\ size = 0 /\ cursor = [base |-> 0, at |-> 0]
  BY Zenon DEF Init
<1>2. Sound(entries) /\ CountedPages(entries) = {} /\ PagesOf(entries) = {}
  BY <1>1, Zenon DEF Sound, CountedPages, PagesOf
<1>3. size = Cardinality(CountedPages(entries))
  BY <1>1, <1>2, FS_EmptySet, Zenon
<1>4. cursor \in [base : Nat, at : Nat] /\ CursorSound
  BY <1>1 DEF CursorSound
<1> QED BY <1>2, <1>3, <1>4, InvIs, Zenon DEF Abstract!Init

\* MapSound, for every address range, length and hint: whatever is mapped, cut,
\* protected, grown and removed, entries stay disjoint, size is the sum RLIMIT_AS
\* is checked against, no free page lies below the cursor, and find_space, which
\* begins at the cursor, returns the gap a search of every address would.
THEOREM MapAlwaysSound == Spec => []MapSound
<1>1. Init => VmInv
  BY VmInit, Zenon
<1>2. VmInv /\ [Next]_vars => VmInv'
  <2>1. VmInv /\ Next => VmInv'
    BY VmStep, Zenon
  <2>2. VmInv /\ UNCHANGED vars => VmInv'
    BY Zenon DEF VmInv, TypeOK, Disjoint, SizeExact, CursorSound, vars
  <2> QED BY <2>1, <2>2, Zenon
<1>3. VmInv => MapSound
  BY FindsIt, Zenon DEF VmInv, MapSound
<1> QED BY <1>1, <1>2, <1>3, PTL DEF Spec

\* PagesSpec: the entries implement a map of single pages; insert, remove, protect,
\* set_end and set_start do to the pages of their range what they say and nothing
\* to others, and set_base nothing to any.
THEOREM MapOfPages == Spec => PagesSpec
<1>1. Init => VmInv /\ Abstract!Init
  BY VmInit, Zenon
<1>2. VmInv /\ [Next]_vars => VmInv' /\ [Abstract!Next]_(PagesOf(entries))
  <2>1. VmInv /\ Next => VmInv' /\ [Abstract!Next]_(PagesOf(entries))
    BY VmStep, Zenon
  <2>2. VmInv /\ UNCHANGED vars => VmInv' /\ PagesOf(entries)' = PagesOf(entries)
    BY Zenon DEF VmInv, TypeOK, Disjoint, SizeExact, CursorSound, vars
  <2> QED BY <2>1, <2>2, Zenon
<1> QED BY <1>1, <1>2, PTL DEF Spec, PagesSpec, Abstract!Spec
=============================================================================
