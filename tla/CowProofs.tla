------------------------------ MODULE CowProofs -----------------------------
(***************************************************************************)
(* Copy-on-write for any finite number of address spaces and pages, and    *)
(* any frames: frames are counted exactly, what the map allows can be      *)
(* written, and each address space has memory of its own.                  *)
(***************************************************************************)
EXTENDS Cow, FiniteSetTheorems, TLAPS

-----------------------------------------------------------------------------
(* The inductive invariant.                                                *)

\* A leaf that is there has a frame.
HasFrame == \A s \in Spaces, p \in Pages : leaf[s][p].frame = 0 => leaf[s][p] = NoLeaf

\* A space maps a frame at most once.
MapsOnce == \A s \in Spaces, p, q \in Pages :
    leaf[s][p].frame # 0 /\ leaf[s][p].frame = leaf[s][q].frame => p = q

\* A leaf that can be written has its frame to itself.
WriterAlone == \A s \in Spaces, p \in Pages :
    leaf[s][p].write => leaf[s][p].frame \in Frames /\ refs[leaf[s][p].frame] = 0

\* A space that does not exist has nothing, and one that does has its scratch
\* page, which mprotect leaves alone.
SpacesSound ==
    /\ \A s \in Spaces \ alive, p \in Pages : leaf[s][p] = NoLeaf /\ prot[s][p] = "rw"
    /\ \A s \in alive : leaf[s][Scratch] # NoLeaf
    /\ \A s \in Spaces : prot[s][Scratch] = "rw"

CowInv ==
    /\ CowTypeOK /\ RefsExact /\ WriteAllowed /\ ScratchNeedsNoFrame
    /\ HasFrame /\ MapsOnce /\ WriterAlone /\ SpacesSound

-----------------------------------------------------------------------------
(* Counting.                                                               *)

\* A set of naturals that is not empty has a least element, which is its Min.
LEMMA MinIn ==
    ASSUME NEW T \in SUBSET Nat, T # {}
    PROVE  Min(T) \in T
<1> DEFINE R == {ss \in Nat \X Nat : ss[1] < ss[2]}
<1>1. IsWellFoundedOn(R, Nat)
  BY NatLessThanWellFounded DEF OpToRel
<1> HIDE DEF R
<1>2. PICK x \in T : \A y \in T : ~(<<y, x>> \in R)
  BY <1>1, WFMin, Zenon
<1>3. \A y \in T : ~(y < x)
  BY <1>2, Zenon DEF R
<1>4. \E z \in T : \A y \in T : z <= y
  BY <1>3
<1> QED BY <1>4, Zenon DEF Min

\* The frame allocator hands out a frame that is free.
LEMMA NewFrame ==
    ASSUME CowTypeOK, free # {}
    PROVE  Min(free) \in free /\ Min(free) \in Frames /\ Min(free) # 0
<1>1. free \in SUBSET Nat
  BY FrameAssumption, Zenon DEF CowTypeOK
<1>2. Min(free) \in free
  BY <1>1, MinIn, Zenon
<1> QED BY <1>2, FrameAssumption, Zenon DEF CowTypeOK

\* A set of leaves is finite.
LEMMA PairsFinite ==
    ASSUME NEW M \in SUBSET (Spaces \X Pages)
    PROVE  IsFiniteSet(M) /\ Cardinality(M) \in Nat /\ (Cardinality(M) = 0 <=> M = {})
<1>1. IsFiniteSet(Spaces \X Pages)
  BY SpaceAssumption, FS_Product, Zenon
<1>2. IsFiniteSet(M)
  BY <1>1, FS_Subset, Zenon
<1> QED BY <1>2, FS_CardinalityType, FS_EmptySet, Zenon

\* What RefsExact says of a frame with the leaves M, the count r, which is free
\* or not.
Counted(M, r, b) == (b <=> M = {}) /\ r = IF M = {} THEN 0 ELSE Cardinality(M) - 1

\* RefsExact is Counted of every frame.
LEMMA RefsAre == RefsExact <=> \A f \in Frames : Counted(Mappers(f), refs[f], f \in free)
BY Zenon DEF RefsExact, Counted

\* The same of the next state.
LEMMA RefsAreNext ==
    ASSUME \A f \in Frames : Counted(Mappers(f)', refs'[f], f \in free')
    PROVE  RefsExact'
<1> SUFFICES ASSUME NEW f \in Frames
             PROVE  /\ f \in free' <=> Mappers(f)' = {}
                    /\ refs'[f] = IF Mappers(f)' = {} THEN 0 ELSE Cardinality(Mappers(f)') - 1
  BY Zenon DEF RefsExact
<1>1. Counted(Mappers(f)', refs'[f], f \in free')
  BY Zenon
<1> QED BY <1>1, Zenon DEF Counted

\* One more leaf maps a frame.
LEMMA GainsOne ==
    ASSUME NEW M \in SUBSET (Spaces \X Pages), NEW x \in Spaces \X Pages, x \notin M,
           NEW r, NEW b, Counted(M, r, b)
    PROVE  Counted(M \cup {x}, IF M = {} THEN r ELSE r + 1, FALSE)
<1>1. Cardinality(M \cup {x}) = Cardinality(M) + 1 /\ M \cup {x} # {}
  BY PairsFinite, FS_AddElement, Zenon
<1>2. Cardinality(M) \in Nat /\ (Cardinality(M) = 0 <=> M = {})
  BY PairsFinite, Zenon
<1>3. CASE M = {}
  BY <1>1, <1>2, <1>3 DEF Counted
<1>4. CASE M # {}
  BY <1>1, <1>2, <1>4 DEF Counted
<1> QED BY <1>3, <1>4, Zenon

\* One leaf less maps it, and the last one frees it.
LEMMA LosesOne ==
    ASSUME NEW M \in SUBSET (Spaces \X Pages), NEW x \in M, NEW r, NEW b, Counted(M, r, b)
    PROVE  Counted(M \ {x}, IF r > 0 THEN r - 1 ELSE r, r = 0) /\ r \in Nat
<1>1. Cardinality(M \ {x}) = Cardinality(M) - 1 /\ M # {}
  BY PairsFinite, FS_RemoveElement, Zenon
<1>2. Cardinality(M) \in Nat /\ (Cardinality(M) = 0 <=> M = {})
  BY PairsFinite, Zenon
<1>3. Cardinality(M \ {x}) = 0 <=> M \ {x} = {}
  <2>1. M \ {x} \in SUBSET (Spaces \X Pages)
    BY Zenon
  <2> QED BY <2>1, PairsFinite, Zenon
<1>4. r = Cardinality(M) - 1 /\ r \in Nat
  BY <1>1, <1>2 DEF Counted
<1>5. CASE M \ {x} = {}
  BY <1>1, <1>2, <1>3, <1>4, <1>5 DEF Counted
<1>6. CASE M \ {x} # {}
  BY <1>1, <1>2, <1>3, <1>4, <1>6 DEF Counted
<1> QED BY <1>4, <1>5, <1>6, Zenon

\* The leaves that map a frame.
LEMMA MappersAre ==
    ASSUME NEW f
    PROVE  /\ Mappers(f) \in SUBSET (Spaces \X Pages)
           /\ \A s \in Spaces, p \in Pages : <<s, p>> \in Mappers(f) <=> leaf[s][p].frame = f
BY DEF Mappers

\* The leaf of a frame that is not shared is the only one.
LEMMA Alone ==
    ASSUME RefsExact, NEW s \in Spaces, NEW p \in Pages, NEW t \in Spaces, NEW q \in Pages,
           leaf[s][p].frame \in Frames, refs[leaf[s][p].frame] = 0,
           leaf[t][q].frame = leaf[s][p].frame
    PROVE  s = t /\ p = q
<1> DEFINE M == Mappers(leaf[s][p].frame)
<1>1. <<s, p>> \in M /\ <<t, q>> \in M /\ M \in SUBSET (Spaces \X Pages)
  BY MappersAre, Zenon
<1>2. Counted(M, 0, leaf[s][p].frame \in free)
  BY RefsAre, Zenon
<1> HIDE DEF M
<1>3. IsFiniteSet(M) /\ Cardinality(M) \in Nat
  BY <1>1, PairsFinite, Zenon
<1>4. Cardinality(M) = 1
  <2>1. M # {}
    BY <1>1, Zenon
  <2> QED BY <1>2, <1>3, <2>1 DEF Counted
<1>5. PICK x : M = {x}
  BY <1>3, <1>4, FS_Singleton, Zenon
<1>6. <<s, p>> = <<t, q>>
  BY <1>1, <1>5, Zenon
<1> QED BY <1>6

\* No leaf maps a frame that is free.
LEMMA FreeUnmapped ==
    ASSUME RefsExact, NEW f \in free, f \in Frames, NEW s \in Spaces, NEW p \in Pages
    PROVE  leaf[s][p].frame # f /\ refs[f] = 0
<1>1. Mappers(f) = {} /\ refs[f] = 0
  BY Zenon DEF RefsExact
<1> QED BY <1>1, MappersAre, Zenon

-----------------------------------------------------------------------------
(* What the leaves are, and what a step that maps no frame anew does.      *)

\* The types of leaves.
LEMMA LeafTypes ==
    ASSUME CowTypeOK, NEW s \in Spaces, NEW p \in Pages
    PROVE  /\ leaf[s][p] \in Leaf /\ leaf[s][p].frame \in Frames \cup {0}
           /\ leaf[s][p].write \in BOOLEAN /\ leaf[s][p].cow \in BOOLEAN /\ leaf[s][p].none \in BOOLEAN
           /\ leaf[s] \in [Pages -> Leaf] /\ prot[s] \in [Pages -> Accesses]
BY DEF CowTypeOK, Leaf

\* A leaf that is there, and one that is not.
LEMMA Presence ==
    ASSUME CowTypeOK, HasFrame, NEW s \in Spaces, NEW p \in Pages
    PROVE  /\ NoLeaf \in Leaf /\ NoLeaf.frame = 0 /\ ~NoLeaf.write /\ ~NoLeaf.cow /\ 0 \notin Frames
           /\ leaf[s][p] # NoLeaf <=> leaf[s][p].frame \in Frames
           /\ leaf[s][p] # NoLeaf <=> leaf[s][p].frame # 0
<1>1. NoLeaf \in Leaf /\ NoLeaf.frame = 0 /\ ~NoLeaf.write /\ ~NoLeaf.cow
  BY DEF NoLeaf, Leaf
<1>2. 0 \notin Frames
  BY FrameAssumption
<1>3. leaf[s][p].frame \in Frames \cup {0}
  BY LeafTypes, Zenon
<1>4. leaf[s][p].frame = 0 => leaf[s][p] = NoLeaf
  BY Zenon DEF HasFrame
<1>5. leaf[s][p] = NoLeaf => leaf[s][p].frame = 0
  BY <1>1, Zenon
<1> QED BY <1>1, <1>2, <1>3, <1>4, <1>5, Zenon

\* Changing one page of one space.
SetPage(s, p, l) == leaf' = [leaf EXCEPT ![s][p] = l]

LEMMA OnePage ==
    ASSUME CowTypeOK, NEW s \in Spaces, NEW p \in Pages, NEW l \in Leaf, SetPage(s, p, l)
    PROVE  /\ leaf' \in [Spaces -> [Pages -> Leaf]] /\ leaf'[s][p] = l
           /\ \A t \in Spaces, q \in Pages : ~(t = s /\ q = p) => leaf'[t][q] = leaf[t][q]
<1> DEFINE g == leaf
           h == leaf'
<1>0. g \in [Spaces -> [Pages -> Leaf]] /\ h = [g EXCEPT ![s][p] = l]
  BY Zenon DEF CowTypeOK, SetPage
<1> HIDE DEF g, h
<1>1. h = [g EXCEPT ![s] = [g[s] EXCEPT ![p] = l]]
  BY <1>0
<1>2. g[s] \in [Pages -> Leaf] /\ [g[s] EXCEPT ![p] = l] \in [Pages -> Leaf]
  BY <1>0
<1>3. h \in [Spaces -> [Pages -> Leaf]]
  BY <1>0, <1>1, <1>2
<1>4. h[s] = [g[s] EXCEPT ![p] = l] /\ \A t \in Spaces : t # s => h[t] = g[t]
  BY <1>0, <1>1
<1>5. h[s][p] = l /\ \A q \in Pages : q # p => h[s][q] = g[s][q]
  BY <1>2, <1>4
<1>6. \A t \in Spaces, q \in Pages : ~(t = s /\ q = p) => h[t][q] = g[t][q]
  BY <1>4, <1>5, Zenon
<1> QED BY <1>3, <1>5, <1>6, Zenon DEF g, h

\* The leaves of a frame before and after a step: the same, one more, one less.
LEMMA SameMappers ==
    ASSUME NEW f, \A s \in Spaces, p \in Pages : leaf'[s][p].frame = f <=> leaf[s][p].frame = f
    PROVE  Mappers(f)' = Mappers(f)
BY DEF Mappers

LEMMA MoreMappers ==
    ASSUME NEW f, NEW s \in Spaces, NEW p \in Pages, leaf[s][p].frame # f,
           \A t \in Spaces, q \in Pages :
             leaf'[t][q].frame = f <=> leaf[t][q].frame = f \/ (t = s /\ q = p)
    PROVE  Mappers(f)' = Mappers(f) \cup {<<s, p>>} /\ <<s, p>> \notin Mappers(f)
BY DEF Mappers

LEMMA FewerMappers ==
    ASSUME NEW f, NEW s \in Spaces, NEW p \in Pages, leaf[s][p].frame = f,
           \A t \in Spaces, q \in Pages :
             leaf'[t][q].frame = f <=> leaf[t][q].frame = f /\ ~(t = s /\ q = p)
    PROVE  Mappers(f)' = Mappers(f) \ {<<s, p>>} /\ <<s, p>> \in Mappers(f)
BY DEF Mappers

\* A frame whose leaves, count and freedom stay is counted as before; one that
\* gains or loses a leaf is counted right if its count follows.
LEMMA StaysCounted ==
    ASSUME RefsExact, NEW f \in Frames, refs'[f] = refs[f], f \in free' <=> f \in free,
           \A s \in Spaces, p \in Pages : leaf'[s][p].frame = f <=> leaf[s][p].frame = f
    PROVE  Counted(Mappers(f)', refs'[f], f \in free')
<1>1. Mappers(f)' = Mappers(f)
  BY SameMappers, Zenon
<1>2. Counted(Mappers(f), refs[f], f \in free)
  BY RefsAre, Zenon
<1> QED BY <1>1, <1>2, Zenon DEF Counted

LEMMA MoreCounted ==
    ASSUME RefsExact, NEW f \in Frames, f \notin free',
           f \in free => refs'[f] = refs[f], f \notin free => refs'[f] = refs[f] + 1,
           NEW s \in Spaces, NEW p \in Pages, leaf[s][p].frame # f,
           \A t \in Spaces, q \in Pages :
             leaf'[t][q].frame = f <=> leaf[t][q].frame = f \/ (t = s /\ q = p)
    PROVE  Counted(Mappers(f)', refs'[f], f \in free')
<1>1. Mappers(f)' = Mappers(f) \cup {<<s, p>>} /\ <<s, p>> \notin Mappers(f)
  BY MoreMappers, Zenon
<1>2. Counted(Mappers(f), refs[f], f \in free) /\ (f \in free <=> Mappers(f) = {})
  BY RefsAre, Zenon DEF Counted
<1>3. Mappers(f) \in SUBSET (Spaces \X Pages) /\ <<s, p>> \in Spaces \X Pages
  BY MappersAre, Zenon
<1>4. Counted(Mappers(f) \cup {<<s, p>>}, IF Mappers(f) = {} THEN refs[f] ELSE refs[f] + 1, FALSE)
  BY <1>1, <1>2, <1>3, GainsOne, Zenon
<1> QED BY <1>1, <1>2, <1>4, Zenon DEF Counted

LEMMA FewerCounted ==
    ASSUME RefsExact, NEW f \in Frames, f \in free' <=> refs[f] = 0,
           refs[f] > 0 => refs'[f] = refs[f] - 1, ~(refs[f] > 0) => refs'[f] = refs[f],
           NEW s \in Spaces, NEW p \in Pages, leaf[s][p].frame = f,
           \A t \in Spaces, q \in Pages :
             leaf'[t][q].frame = f <=> leaf[t][q].frame = f /\ ~(t = s /\ q = p)
    PROVE  Counted(Mappers(f)', refs'[f], f \in free')
<1>1. Mappers(f)' = Mappers(f) \ {<<s, p>>} /\ <<s, p>> \in Mappers(f)
  BY FewerMappers
<1>2. Counted(Mappers(f), refs[f], f \in free)
  BY RefsAre, Zenon
<1>3. Mappers(f) \in SUBSET (Spaces \X Pages)
  BY MappersAre, Zenon
<1>4. Counted(Mappers(f) \ {<<s, p>>}, IF refs[f] > 0 THEN refs[f] - 1 ELSE refs[f], refs[f] = 0)
  BY <1>1, <1>2, <1>3, LosesOne, Zenon
<1> QED BY <1>1, <1>4, Zenon DEF Counted

\* MapsOnce of two pages.
LEMMA SamePage ==
    ASSUME MapsOnce, NEW s \in Spaces, NEW p \in Pages, NEW q \in Pages,
           leaf[s][p].frame # 0, leaf[s][p].frame = leaf[s][q].frame
    PROVE  p = q
BY DEF MapsOnce

\* Changing only flags changes no count.
LEMMA SameFrames ==
    ASSUME RefsExact, MapsOnce, UNCHANGED <<refs, free>>,
           \A s \in Spaces, p \in Pages : leaf'[s][p].frame = leaf[s][p].frame
    PROVE  RefsExact' /\ MapsOnce'
<1>1. \A f : Mappers(f)' = Mappers(f)
  BY DEF Mappers
<1>2. RefsExact'
  BY <1>1, Zenon DEF RefsExact
<1>3. MapsOnce'
  <2> SUFFICES ASSUME NEW s \in Spaces, NEW p \in Pages, NEW q \in Pages,
                      leaf'[s][p].frame # 0, leaf'[s][p].frame = leaf'[s][q].frame
               PROVE  p = q
    BY DEF MapsOnce
  <2>1. leaf'[s][p].frame = leaf[s][p].frame /\ leaf'[s][q].frame = leaf[s][q].frame
    BY Zenon
  <2> QED BY <2>1, SamePage, Zenon
<1> QED BY <1>2, <1>3

\* A page gets a new frame.
LEMMA NewPage ==
    ASSUME CowInv, NEW s \in Spaces, NEW p \in Pages, leaf[s][p] = NoLeaf, NEW f \in free,
           leaf'[s][p].frame = f,
           \A t \in Spaces, q \in Pages : ~(t = s /\ q = p) => leaf'[t][q] = leaf[t][q],
           free' = free \ {f}, UNCHANGED refs
    PROVE  RefsExact' /\ HasFrame' /\ MapsOnce' /\ WriterAlone' /\ free' \subseteq Frames
<1>1. /\ CowTypeOK /\ RefsExact /\ HasFrame /\ MapsOnce /\ WriterAlone
      /\ f \in Frames /\ f # 0 /\ 0 \notin Frames
  BY FrameAssumption, Zenon DEF CowInv, CowTypeOK
<1>2. \A t \in Spaces, q \in Pages : leaf[t][q].frame # f
  BY <1>1, FreeUnmapped, Zenon
<1>3. leaf[s][p].frame = 0 /\ refs[f] = 0 /\ refs' = refs
  BY <1>1, FreeUnmapped, Presence, Zenon
<1>4. RefsExact'
  <2> SUFFICES ASSUME NEW g \in Frames PROVE Counted(Mappers(g)', refs'[g], g \in free')
    BY RefsAreNext, Zenon
  <2>1. CASE g = f
    <3>1. \A t \in Spaces, q \in Pages :
            leaf'[t][q].frame = g <=> leaf[t][q].frame = g \/ (t = s /\ q = p)
      BY <1>2, <2>1, Zenon
    <3>2. leaf[s][p].frame # g /\ g \in free /\ g \notin free' /\ refs'[g] = refs[g]
      BY <1>2, <1>3, <2>1, Zenon
    <3> QED BY <1>1, <3>1, <3>2, MoreCounted, ZenonT(40)
  <2>2. CASE g # f
    <3>1. leaf'[s][p].frame # g /\ leaf[s][p].frame # g /\ refs'[g] = refs[g]
      BY <1>1, <1>3, <2>2, Zenon
    <3>2. \A t \in Spaces, q \in Pages : leaf'[t][q].frame = g <=> leaf[t][q].frame = g
      BY <3>1, Zenon
    <3>3. g \in free' <=> g \in free
      BY <2>2, Zenon
    <3> QED BY <1>1, <3>1, <3>2, <3>3, StaysCounted, Zenon
  <2> QED BY <2>1, <2>2, Zenon
<1>5. HasFrame'
  <2> SUFFICES ASSUME NEW t \in Spaces, NEW q \in Pages, leaf'[t][q].frame = 0
               PROVE  leaf'[t][q] = NoLeaf
    BY Zenon DEF HasFrame
  <2> QED BY <1>1 DEF HasFrame
<1>6. MapsOnce'
  <2> SUFFICES ASSUME NEW t \in Spaces, NEW q \in Pages, NEW r \in Pages,
                      leaf'[t][q].frame # 0, leaf'[t][q].frame = leaf'[t][r].frame
               PROVE  q = r
    BY Zenon DEF MapsOnce
  <2>1. CASE t = s /\ q = p
    BY <1>2, <2>1, ZenonT(40)
  <2>2. CASE t = s /\ r = p
    BY <1>2, <2>2, ZenonT(40)
  <2>3. CASE ~(t = s /\ q = p) /\ ~(t = s /\ r = p)
    <3>1. leaf'[t][q] = leaf[t][q] /\ leaf'[t][r] = leaf[t][r]
      BY <2>3, Zenon
    <3> QED BY <1>1, <3>1, SamePage
  <2> QED BY <2>1, <2>2, <2>3, Zenon
<1>7. WriterAlone'
  <2> SUFFICES ASSUME NEW t \in Spaces, NEW q \in Pages, leaf'[t][q].write
               PROVE  leaf'[t][q].frame \in Frames /\ refs'[leaf'[t][q].frame] = 0
    BY Zenon DEF WriterAlone
  <2> QED BY <1>1, <1>3 DEF WriterAlone
<1>8. free' \subseteq Frames
  BY <1>1, Zenon DEF CowTypeOK
<1> QED BY <1>4, <1>5, <1>6, <1>7, <1>8, Zenon

\* Pages are given back, and each of their frames loses a leaf.
LEMMA Dropped ==
    ASSUME CowInv, NEW s \in Spaces, NEW D \in SUBSET Pages, NEW S \in SUBSET Frames,
           \A f \in Frames : f \in S <=> \E q \in D : leaf[s][q].frame = f,
           \A q \in D : leaf'[s][q] = NoLeaf,
           \A t \in Spaces, q \in Pages : ~(t = s /\ q \in D) => leaf'[t][q] = leaf[t][q],
           release(S)
    PROVE  /\ RefsExact' /\ HasFrame' /\ MapsOnce' /\ WriterAlone'
           /\ free' \subseteq Frames /\ refs' \in [Frames -> 0..MaxRefs]
           /\ \A f \in Frames : refs[f] = 0 => refs'[f] = 0
<1>1. /\ CowTypeOK /\ RefsExact /\ HasFrame /\ MapsOnce /\ WriterAlone
      /\ 0 \notin Frames /\ NoLeaf.frame = 0 /\ ~NoLeaf.write
  BY FrameAssumption, Zenon DEF CowInv, NoLeaf
<1>2. refs \in [Frames -> 0..MaxRefs] /\ free \subseteq Frames /\ MaxRefs \in Nat
  BY <1>1, FrameAssumption, Zenon DEF CowTypeOK
<1>3. /\ refs' \in [Frames -> 0..MaxRefs]
      /\ \A f \in Frames :
           /\ f \in S /\ refs[f] > 0 => refs'[f] = refs[f] - 1
           /\ f \notin S \/ ~(refs[f] > 0) => refs'[f] = refs[f]
           /\ refs[f] = 0 => refs'[f] = 0
  BY <1>2 DEF release
<1>4. free' \subseteq Frames /\ \A f \in Frames : f \in free' <=> f \in free \/ (f \in S /\ refs[f] = 0)
  BY <1>2, Zenon DEF release
<1>5. RefsExact'
  <2> SUFFICES ASSUME NEW g \in Frames PROVE Counted(Mappers(g)', refs'[g], g \in free')
    BY RefsAreNext, Zenon
  <2>1. CASE g \in S
    <3>1. PICK p \in D : leaf[s][p].frame = g
      BY <2>1, Zenon
    <3>2. \A q \in Pages : leaf[s][q].frame = g => q = p
      BY <1>1, <3>1, SamePage
    <3>3. leaf'[s][p].frame # g
      BY <1>1, <3>1, Zenon
    <3>4. ASSUME NEW t \in Spaces, NEW q \in Pages
          PROVE  leaf'[t][q].frame = g <=> leaf[t][q].frame = g /\ ~(t = s /\ q = p)
      <4>1. CASE t = s /\ q \in D
        BY <1>1, <3>2, <4>1
      <4>2. CASE ~(t = s /\ q \in D)
        BY <3>1, <4>2, Zenon
      <4> QED BY <4>1, <4>2, Zenon
    <3>5. g \in free' <=> refs[g] = 0
      BY <1>1, <1>4, <2>1, <3>1, FreeUnmapped, Zenon
    <3> QED BY <1>1, <1>3, <2>1, <3>1, <3>4, <3>5, FewerCounted
  <2>2. CASE g \notin S
    <3>1. \A t \in Spaces, q \in Pages : leaf'[t][q].frame = g <=> leaf[t][q].frame = g
      BY <1>1, <2>2
    <3> QED BY <1>1, <1>3, <1>4, <2>2, <3>1, StaysCounted, Zenon
  <2> QED BY <2>1, <2>2, Zenon
<1>6. HasFrame'
  <2> SUFFICES ASSUME NEW t \in Spaces, NEW q \in Pages, leaf'[t][q].frame = 0
               PROVE  leaf'[t][q] = NoLeaf
    BY Zenon DEF HasFrame
  <2> QED BY <1>1 DEF HasFrame
<1>7. MapsOnce'
  <2> SUFFICES ASSUME NEW t \in Spaces, NEW q \in Pages, NEW r \in Pages,
                      leaf'[t][q].frame # 0, leaf'[t][q].frame = leaf'[t][r].frame
               PROVE  q = r
    BY ZenonT(40) DEF MapsOnce
  <2>1. leaf'[t][q] = leaf[t][q] /\ leaf'[t][r] = leaf[t][r]
    BY <1>1
  <2> QED BY <1>1, <2>1, SamePage
<1>8. WriterAlone'
  <2> SUFFICES ASSUME NEW t \in Spaces, NEW q \in Pages, leaf'[t][q].write
               PROVE  leaf'[t][q].frame \in Frames /\ refs'[leaf'[t][q].frame] = 0
    BY Zenon DEF WriterAlone
  <2>1. leaf'[t][q] = leaf[t][q]
    BY <1>1
  <2> QED BY <1>1, <1>3, <2>1 DEF WriterAlone
<1> QED BY <1>3, <1>4, <1>5, <1>6, <1>7, <1>8, Zenon

\* A page leaves a shared frame for a new one.
LEMMA MovedPage ==
    ASSUME CowInv, NEW s \in Spaces, NEW p \in Pages, NEW old \in Frames, NEW new \in free,
           leaf[s][p].frame = old, refs[old] # 0,
           leaf'[s][p].frame = new,
           \A t \in Spaces, q \in Pages : ~(t = s /\ q = p) => leaf'[t][q] = leaf[t][q],
           refs' = [refs EXCEPT ![old] = IF @ > 0 THEN @ - 1 ELSE @],
           free' = (free \ {new}) \cup (IF refs[old] = 0 THEN {old} ELSE {})
    PROVE  /\ RefsExact' /\ HasFrame' /\ MapsOnce' /\ WriterAlone'
           /\ free' \subseteq Frames /\ refs' \in [Frames -> 0..MaxRefs]
           /\ \A f \in Frames : refs[f] = 0 => refs'[f] = 0
<1>1. /\ CowTypeOK /\ RefsExact /\ HasFrame /\ MapsOnce /\ WriterAlone
      /\ 0 \notin Frames /\ new \in Frames /\ new # 0
  BY FrameAssumption, Zenon DEF CowInv, CowTypeOK
<1>2. refs \in [Frames -> 0..MaxRefs] /\ free \subseteq Frames /\ MaxRefs \in Nat
  BY <1>1, FrameAssumption, Zenon DEF CowTypeOK
<1>3. refs[old] > 0
  BY <1>2
<1>4. /\ refs' \in [Frames -> 0..MaxRefs] /\ refs'[old] = refs[old] - 1
      /\ \A f \in Frames : f # old => refs'[f] = refs[f]
  BY <1>2, <1>3
<1>5. free' = free \ {new}
  BY Zenon
<1>6. \A t \in Spaces, q \in Pages : leaf[t][q].frame # new
  BY <1>1, FreeUnmapped, Zenon
<1>7. old # new /\ refs[new] = 0 /\ old \notin free
  BY <1>1, FreeUnmapped, Zenon
<1>8. RefsExact'
  <2> SUFFICES ASSUME NEW g \in Frames PROVE Counted(Mappers(g)', refs'[g], g \in free')
    BY RefsAreNext, Zenon
  <2>1. CASE g = new
    <3>1. \A t \in Spaces, q \in Pages :
            leaf'[t][q].frame = g <=> leaf[t][q].frame = g \/ (t = s /\ q = p)
      BY <1>6, <2>1, Zenon
    <3>2. leaf[s][p].frame # g /\ g \in free /\ g \notin free' /\ refs'[g] = refs[g]
      BY <1>4, <1>5, <1>6, <1>7, <2>1, Zenon
    <3> QED BY <1>1, <3>1, <3>2, MoreCounted
  <2>2. CASE g = old
    <3>1. \A t \in Spaces, q \in Pages :
            leaf'[t][q].frame = g <=> leaf[t][q].frame = g /\ ~(t = s /\ q = p)
      BY <1>7, <2>2, Zenon
    <3>2. leaf[s][p].frame = g /\ refs'[g] = refs[g] - 1 /\ refs[g] > 0 /\ (g \in free' <=> refs[g] = 0)
      BY <1>3, <1>4, <1>5, <1>7, <2>2, Zenon
    <3> QED BY <1>1, <3>1, <3>2, FewerCounted, Zenon
  <2>3. CASE g # new /\ g # old
    <3>1. \A t \in Spaces, q \in Pages : leaf'[t][q].frame = g <=> leaf[t][q].frame = g
      BY <2>3, Zenon
    <3>2. (g \in free' <=> g \in free) /\ refs'[g] = refs[g]
      BY <1>4, <1>5, <2>3, Zenon
    <3> QED BY <1>1, <3>1, <3>2, StaysCounted, Zenon
  <2> QED BY <2>1, <2>2, <2>3, Zenon
<1>9. HasFrame'
  <2> SUFFICES ASSUME NEW t \in Spaces, NEW q \in Pages, leaf'[t][q].frame = 0
               PROVE  leaf'[t][q] = NoLeaf
    BY Zenon DEF HasFrame
  <2> QED BY <1>1 DEF HasFrame
<1>10. MapsOnce'
  <2> SUFFICES ASSUME NEW t \in Spaces, NEW q \in Pages, NEW r \in Pages,
                      leaf'[t][q].frame # 0, leaf'[t][q].frame = leaf'[t][r].frame
               PROVE  q = r
    BY Zenon DEF MapsOnce
  <2>1. CASE t = s /\ q = p
    BY <1>6, <2>1, ZenonT(40)
  <2>2. CASE t = s /\ r = p
    BY <1>6, <2>2, ZenonT(40)
  <2>3. CASE ~(t = s /\ q = p) /\ ~(t = s /\ r = p)
    <3>1. leaf'[t][q] = leaf[t][q] /\ leaf'[t][r] = leaf[t][r]
      BY <2>3, Zenon
    <3> QED BY <1>1, <3>1, SamePage
  <2> QED BY <2>1, <2>2, <2>3, Zenon
<1>11. \A f \in Frames : refs[f] = 0 => refs'[f] = 0
  BY <1>3, <1>4
<1>12. WriterAlone'
  <2> SUFFICES ASSUME NEW t \in Spaces, NEW q \in Pages, leaf'[t][q].write
               PROVE  leaf'[t][q].frame \in Frames /\ refs'[leaf'[t][q].frame] = 0
    BY Zenon DEF WriterAlone
  <2>1. CASE t = s /\ q = p
    BY <1>1, <1>4, <1>7, <2>1, Zenon
  <2>2. CASE ~(t = s /\ q = p)
    <3>1. leaf'[t][q] = leaf[t][q]
      BY <2>2, Zenon
    <3> QED BY <1>1, <1>11, <3>1 DEF WriterAlone
  <2> QED BY <2>1, <2>2, Zenon
<1>13. free' \subseteq Frames
  BY <1>2, <1>5, Zenon
<1> QED BY <1>4, <1>8, <1>9, <1>10, <1>11, <1>12, <1>13, Zenon

\* What fork does to the flags of a leaf.
LEMMA CowFlags ==
    ASSUME NEW l \in Leaf
    PROVE  /\ cow_flags(l) \in Leaf /\ cow_flags(l).frame = l.frame /\ cow_flags(l).none = l.none
           /\ ~cow_flags(l).write /\ (cow_flags(l).cow <=> l.write \/ l.cow)
           /\ l = NoLeaf => cow_flags(l) = NoLeaf
<1>1. CASE l.write
  <2>1. cow_flags(l) = [l EXCEPT !.write = FALSE, !.cow = TRUE]
    BY <1>1, Zenon DEF cow_flags
  <2>2. l # NoLeaf
    BY <1>1 DEF NoLeaf
  <2> QED BY <1>1, <2>1, <2>2, Zenon DEF Leaf
<1>2. CASE ~l.write
  <2>1. cow_flags(l) = l
    BY <1>2, Zenon DEF cow_flags
  <2> QED BY <1>2, <2>1 DEF Leaf
<1> QED BY <1>1, <1>2, Zenon

\* The scratch page of a space is there, is not protected, and has its frame to
\* itself: fork always copies it.
LEMMA ScratchAlone ==
    ASSUME CowInv, NEW s \in alive
    PROVE  /\ s \in Spaces /\ Scratch \in Pages /\ leaf[s][Scratch].frame \in Frames
           /\ refs[leaf[s][Scratch].frame] = 0 /\ ~leaf[s][Scratch].none
           /\ Copies(s)
<1>1. s \in Spaces /\ Scratch \in Pages
  BY SpaceAssumption, Zenon DEF CowInv, CowTypeOK
<1>2. leaf[s][Scratch] # NoLeaf /\ prot[s][Scratch] = "rw"
  BY <1>1, Zenon DEF CowInv, SpacesSound
<1>3. leaf[s][Scratch].frame \in Frames
  BY <1>1, <1>2, Presence, Zenon DEF CowInv
<1>4. ~leaf[s][Scratch].none
  BY <1>1, <1>2 DEF CowInv, WriteAllowed
<1>5. leaf[s][Scratch].write \/ (leaf[s][Scratch].cow /\ refs[leaf[s][Scratch].frame] = 0)
  BY Zenon DEF CowInv, ScratchNeedsNoFrame, sole_owner
<1>6. refs[leaf[s][Scratch].frame] = 0
  BY <1>1, <1>5, Zenon DEF CowInv, WriterAlone
<1>7. leaf[s][Scratch] \in Leaf
  BY <1>1, LeafTypes, Zenon DEF CowInv
<1>8. Copies(s)
  BY <1>4, <1>5, <1>7, CowFlags, Zenon DEF Copies
<1> QED BY <1>1, <1>3, <1>4, <1>6, <1>8, Zenon

\* The frames of a space.
LEMMA FramesOfAre ==
    ASSUME CowTypeOK, HasFrame, NEW s \in Spaces
    PROVE  /\ FramesOf(s) \in SUBSET Frames
           /\ \A f \in Frames : f \in FramesOf(s) <=> \E q \in Pages : leaf[s][q].frame = f
<1>1. \A q \in Pages : leaf[s][q] # NoLeaf <=> leaf[s][q].frame \in Frames
  BY Presence, Zenon
<1> QED BY <1>1, Zenon DEF FramesOf

\* A space is forked, and its scratch page copied.
ForkCounts(s, old) ==
    refs' = [f \in Frames |-> IF f \in FramesOf(s) \ {old} THEN refs[f] + 1 ELSE refs[f]]

LEMMA ForkedPages ==
    ASSUME CowInv, NEW s \in alive, NEW t \in Spaces \ alive, NEW old, NEW new \in free,
           old = leaf[s][Scratch].frame,
           \A q \in Pages : leaf[s][q].frame \in Frames => refs[leaf[s][q].frame] + 1 < MaxRefs,
           \A q \in Pages \ {Scratch} :
             leaf'[s][q] = cow_flags(leaf[s][q]) /\ leaf'[t][q] = cow_flags(leaf[s][q]),
           leaf'[s][Scratch].frame = old, leaf'[t][Scratch].frame = new,
           \A u \in Spaces \ {s, t}, q \in Pages : leaf'[u][q] = leaf[u][q],
           ForkCounts(s, old), free' = free \ {new}
    PROVE  /\ RefsExact' /\ HasFrame' /\ MapsOnce' /\ WriterAlone'
           /\ free' \subseteq Frames /\ refs' \in [Frames -> 0..MaxRefs] /\ refs'[old] = 0
           /\ \A u \in Spaces \ {s, t}, q \in Pages :
                leaf[u][q].frame \in Frames /\ refs[leaf[u][q].frame] = 0 => refs'[leaf[u][q].frame] = 0
<1>1. /\ CowTypeOK /\ RefsExact /\ HasFrame /\ MapsOnce /\ WriterAlone
      /\ 0 \notin Frames /\ new \in Frames /\ new # 0
  BY FrameAssumption, Zenon DEF CowInv, CowTypeOK
<1>2. /\ s \in Spaces /\ t \in Spaces /\ s # t /\ Scratch \in Pages /\ old \in Frames /\ old # 0
      /\ refs[old] = 0
  BY <1>1, ScratchAlone, ZenonT(40)
<1>3. refs \in [Frames -> 0..MaxRefs] /\ free \subseteq Frames /\ MaxRefs \in Nat
  BY <1>1, FrameAssumption, Zenon DEF CowTypeOK
<1>4. \A q \in Pages : leaf[t][q] = NoLeaf /\ leaf[t][q].frame = 0
  BY <1>1, <1>2, Presence, Zenon DEF CowInv, SpacesSound
<1>5. \A q \in Pages \ {Scratch} :
        /\ leaf'[s][q].frame = leaf[s][q].frame /\ leaf'[t][q].frame = leaf[s][q].frame
        /\ ~leaf'[s][q].write /\ ~leaf'[t][q].write
        /\ leaf[s][q] = NoLeaf => leaf'[s][q] = NoLeaf /\ leaf'[t][q] = NoLeaf
  BY <1>1, <1>2, LeafTypes, CowFlags
<1>6. \A u \in Spaces, q \in Pages : leaf[u][q].frame # new
  BY <1>1, FreeUnmapped, Zenon
<1>7. old # new /\ refs[new] = 0
  BY <1>1, <1>2, <1>6, FreeUnmapped, ZenonT(40)
<1>8. \A f \in Frames : f \in FramesOf(s) <=> \E q \in Pages : leaf[s][q].frame = f
  BY <1>1, <1>2, FramesOfAre, Zenon
<1>9. /\ \A f \in Frames : f \in FramesOf(s) \ {old} => refs'[f] = refs[f] + 1
      /\ \A f \in Frames : f \notin FramesOf(s) \ {old} => refs'[f] = refs[f]
  BY Zenon DEF ForkCounts
<1>10. refs' \in [Frames -> 0..MaxRefs]
  <2>1. \A f \in Frames : f \in FramesOf(s) => refs[f] + 1 < MaxRefs
    BY <1>8, ZenonT(40)
  <2> QED BY <1>3, <2>1 DEF ForkCounts
<1>11. ASSUME NEW u \in Spaces \ {s, t}, NEW q \in Pages,
              leaf[u][q].frame \in Frames, refs[leaf[u][q].frame] = 0
       PROVE  refs'[leaf[u][q].frame] = 0
  <2>1. leaf[u][q].frame \notin FramesOf(s)
    <3> SUFFICES ASSUME leaf[u][q].frame \in FramesOf(s) PROVE FALSE
      BY Zenon
    <3>1. PICK r \in Pages : leaf[s][r].frame = leaf[u][q].frame
      BY <1>8, <1>11, Zenon
    <3> QED BY <1>1, <1>2, <1>11, <3>1, Alone
  <2> QED BY <1>9, <1>11, <2>1, Zenon
<1>12. refs'[old] = 0 /\ refs'[new] = 0
  BY <1>1, <1>2, <1>6, <1>7, <1>8, <1>9
<1>13. free' \subseteq Frames
  BY <1>3, Zenon
<1>14. HasFrame'
  <2> SUFFICES ASSUME NEW u \in Spaces, NEW q \in Pages, leaf'[u][q].frame = 0
               PROVE  leaf'[u][q] = NoLeaf
    BY Zenon DEF HasFrame
  <2>1. CASE u \notin {s, t}
    BY <1>1, <2>1 DEF HasFrame
  <2>2. CASE u \in {s, t} /\ q # Scratch
    <3>1. leaf[s][q].frame = 0
      BY <1>5, <2>2, Zenon
    <3>2. leaf[s][q] = NoLeaf
      BY <1>1, <1>2, <3>1, Zenon DEF HasFrame
    <3> QED BY <1>5, <2>2, <3>2, Zenon
  <2>3. CASE u \in {s, t} /\ q = Scratch
    BY <1>1, <1>2, <2>3, Zenon
  <2> QED BY <2>1, <2>2, <2>3, Zenon
<1>15. MapsOnce'
  <2> SUFFICES ASSUME NEW u \in Spaces, NEW q \in Pages, NEW r \in Pages,
                      leaf'[u][q].frame # 0, leaf'[u][q].frame = leaf'[u][r].frame
               PROVE  q = r
    BY Zenon DEF MapsOnce
  <2>1. CASE u \notin {s, t}
    <3>1. leaf'[u][q] = leaf[u][q] /\ leaf'[u][r] = leaf[u][r]
      BY <2>1, Zenon
    <3> QED BY <1>1, <3>1, SamePage
  <2>2. CASE u = s
    <3>1. leaf'[u][q].frame = leaf[s][q].frame /\ leaf'[u][r].frame = leaf[s][r].frame
      BY <1>5, <2>2, Zenon
    <3>2. leaf[s][q].frame # 0 /\ leaf[s][q].frame = leaf[s][r].frame
      BY <3>1, Zenon
    <3> QED BY <1>1, <1>2, <3>2, SamePage, Zenon
  <2>3. CASE u = t /\ q # Scratch /\ r # Scratch
    <3>1. leaf'[u][q].frame = leaf[s][q].frame /\ leaf'[u][r].frame = leaf[s][r].frame
      BY <1>5, <2>3, Zenon
    <3>2. leaf[s][q].frame # 0 /\ leaf[s][q].frame = leaf[s][r].frame
      BY <3>1, Zenon
    <3> QED BY <1>1, <1>2, <3>2, SamePage, Zenon
  <2>4. CASE u = t /\ (q = Scratch \/ r = Scratch)
    BY <1>2, <1>5, <1>6, <2>4, SMTT(30)
  <2> QED BY <2>1, <2>2, <2>3, <2>4, Zenon
<1>16. WriterAlone'
  <2> SUFFICES ASSUME NEW u \in Spaces, NEW q \in Pages, leaf'[u][q].write
               PROVE  leaf'[u][q].frame \in Frames /\ refs'[leaf'[u][q].frame] = 0
    BY Zenon DEF WriterAlone
  <2>1. CASE u \notin {s, t}
    <3>1. leaf'[u][q] = leaf[u][q]
      BY <2>1, Zenon
    <3>2. leaf[u][q].frame \in Frames /\ refs[leaf[u][q].frame] = 0
      BY <1>1, <3>1 DEF WriterAlone
    <3> QED BY <1>11, <2>1, <3>1, <3>2
  <2>2. CASE u \in {s, t}
    <3>1. q = Scratch
      BY <1>5, <2>2, Zenon
    <3> QED BY <1>1, <1>2, <1>12, <2>2, <3>1, Zenon
  <2> QED BY <2>1, <2>2, Zenon
<1>17. RefsExact'
  <2> SUFFICES ASSUME NEW g \in Frames PROVE Counted(Mappers(g)', refs'[g], g \in free')
    BY RefsAreNext, ZenonT(40)
  <2>1. CASE g = new
    <3>1. \A u \in Spaces, q \in Pages :
            leaf'[u][q].frame = g <=> leaf[u][q].frame = g \/ (u = t /\ q = Scratch)
      <4> SUFFICES ASSUME NEW u \in Spaces, NEW q \in Pages
                   PROVE  leaf'[u][q].frame = g <=> u = t /\ q = Scratch
        BY <1>6, <2>1, Zenon
      <4>1. CASE u \notin {s, t}
        BY <1>6, <2>1, <4>1, ZenonT(40)
      <4>2. CASE u \in {s, t} /\ q # Scratch
        BY <1>2, <1>5, <1>6, <2>1, <4>2
      <4>3. CASE u \in {s, t} /\ q = Scratch
        BY <1>2, <1>7, <2>1, <4>3, Zenon
      <4> QED BY <4>1, <4>2, <4>3, Zenon
    <3>2. leaf[t][Scratch].frame # g /\ g \in free /\ g \notin free' /\ refs'[g] = refs[g]
      BY <1>2, <1>6, <1>7, <1>12, <2>1, ZenonT(40)
    <3> QED BY <1>1, <1>2, <3>1, <3>2, MoreCounted
  <2>2. CASE g # new /\ g \in FramesOf(s) \ {old}
    <3>1. PICK p \in Pages : leaf[s][p].frame = g
      BY <1>8, <2>2, Zenon
    <3>2. p # Scratch
      BY <2>2, <3>1, ZenonT(40)
    <3>3. \A q \in Pages : leaf[s][q].frame = g => q = p
      BY <1>1, <1>2, <3>1, SamePage
    <3>4. \A u \in Spaces, q \in Pages :
            leaf'[u][q].frame = g <=> leaf[u][q].frame = g \/ (u = t /\ q = p)
      <4> SUFFICES ASSUME NEW u \in Spaces, NEW q \in Pages
                   PROVE  leaf'[u][q].frame = g <=> leaf[u][q].frame = g \/ (u = t /\ q = p)
        BY Zenon
      <4>1. CASE u \notin {s, t}
        BY <4>1, Zenon
      <4>2. CASE u = s
        BY <1>2, <1>5, <4>2, ZenonT(40)
      <4>3. CASE u = t /\ q # Scratch
        <5>1. leaf'[u][q].frame = g <=> q = p
          BY <1>5, <3>1, <3>3, <4>3, Zenon
        <5>2. leaf[u][q].frame # g
          BY <1>1, <1>4, <4>3, Zenon
        <5> QED BY <4>3, <5>1, <5>2, Zenon
      <4>4. CASE u = t /\ q = Scratch
        BY <1>1, <1>4, <2>2, <3>2, <4>4, Zenon
      <4> QED BY <4>1, <4>2, <4>3, <4>4, Zenon
    <3>5. leaf[t][p].frame # g /\ g \notin free /\ g \notin free' /\ refs'[g] = refs[g] + 1
      <4>1. g \notin free
        BY <1>1, <1>2, <3>1, FreeUnmapped, Zenon
      <4>2. leaf[t][p].frame # g
        BY <1>1, <1>4, Zenon
      <4> QED BY <1>9, <2>2, <4>1, <4>2, Zenon
    <3> QED BY <1>1, <1>2, <3>4, <3>5, MoreCounted, SMTT(30)
  <2>3. CASE g # new /\ g \notin FramesOf(s) \ {old}
    <3>1. \A u \in Spaces, q \in Pages : leaf'[u][q].frame = g <=> leaf[u][q].frame = g
      <4> SUFFICES ASSUME NEW u \in Spaces, NEW q \in Pages
                   PROVE  leaf'[u][q].frame = g <=> leaf[u][q].frame = g
        BY Zenon
      <4>1. CASE u \notin {s, t}
        BY <4>1, Zenon
      <4>2. CASE u = s
        BY <1>2, <1>5, <4>2, ZenonT(40)
      <4>3. CASE u = t /\ q # Scratch
        <5>1. leaf[s][q].frame # g
          <6> SUFFICES ASSUME leaf[s][q].frame = g PROVE FALSE
            BY Zenon
          <6>1. g = old
            BY <1>8, <2>3, Zenon
          <6>2. q = Scratch
            BY <1>1, <1>2, <6>1, SamePage
          <6> QED BY <4>3, <6>2, Zenon
        <5> QED BY <1>1, <1>4, <1>5, <4>3, <5>1, Zenon
      <4>4. CASE u = t /\ q = Scratch
        BY <1>1, <1>4, <2>3, <4>4, Zenon
      <4> QED BY <4>1, <4>2, <4>3, <4>4, Zenon
    <3>2. (g \in free' <=> g \in free) /\ refs'[g] = refs[g]
      BY <1>9, <2>3, Zenon
    <3> QED BY <1>1, <3>1, <3>2, StaysCounted
  <2> QED BY <2>1, <2>2, <2>3, Zenon
<1> QED BY <1>10, <1>11, <1>12, <1>13, <1>14, <1>15, <1>16, <1>17, Zenon

-----------------------------------------------------------------------------
(* One space at a time.                                                    *)

\* What WriteAllowed says of a leaf with an access.
PageOK(l, a) == l # NoLeaf /\ a # "none" => (l.write \/ l.cow <=> a = "rw") /\ ~l.none

\* What WriteAllowed, ScratchNeedsNoFrame and SpacesSound say of a space.
SpaceOK(u) ==
    /\ u \in alive =>
         /\ \A p \in Pages : PageOK(leaf[u][p], prot[u][p])
         /\ leaf[u][Scratch] # NoLeaf
         /\ leaf[u][Scratch].write \/ (leaf[u][Scratch].cow /\ refs[leaf[u][Scratch].frame] = 0)
    /\ u \notin alive => \A p \in Pages : leaf[u][p] = NoLeaf /\ prot[u][p] = "rw"
    /\ prot[u][Scratch] = "rw"

\* They say it of every space.
LEMMA SpacesAre ==
    ASSUME CowInv, NEW u \in Spaces
    PROVE  SpaceOK(u)
<1>1. WriteAllowed /\ ScratchNeedsNoFrame /\ SpacesSound
  BY Zenon DEF CowInv
<1>2. u \in alive => \A p \in Pages : PageOK(leaf[u][p], prot[u][p])
  BY <1>1, Zenon DEF WriteAllowed, PageOK
<1>3. u \in alive =>
        leaf[u][Scratch].write \/ (leaf[u][Scratch].cow /\ refs[leaf[u][Scratch].frame] = 0)
  BY <1>1, Zenon DEF ScratchNeedsNoFrame, sole_owner
<1>4. /\ u \in alive => leaf[u][Scratch] # NoLeaf
      /\ u \notin alive => \A p \in Pages : leaf[u][p] = NoLeaf /\ prot[u][p] = "rw"
      /\ prot[u][Scratch] = "rw"
  BY <1>1, Zenon DEF SpacesSound
<1> QED BY <1>2, <1>3, <1>4, Zenon DEF SpaceOK

\* A step keeps the invariant if it keeps the types and the counts, and leaves
\* each space it touches as it should be.
LEMMA InvKept ==
    ASSUME CowInv, CowTypeOK', RefsExact', HasFrame', MapsOnce', WriterAlone',
           NEW U \in SUBSET Spaces, \A u \in U : SpaceOK(u)',
           \A u \in Spaces \ U :
             /\ u \in alive' <=> u \in alive
             /\ leaf'[u] = leaf[u] /\ prot'[u] = prot[u]
             /\ leaf[u][Scratch].frame \in Frames /\ refs[leaf[u][Scratch].frame] = 0 =>
                  refs'[leaf[u][Scratch].frame] = 0
    PROVE  CowInv'
<1>1. ASSUME NEW u \in Spaces PROVE SpaceOK(u)'
  <2>1. CASE u \in U
    BY <2>1, Zenon
  <2>2. CASE u \notin U
    <3>1. /\ u \in alive' <=> u \in alive
          /\ leaf'[u] = leaf[u] /\ prot'[u] = prot[u]
          /\ leaf[u][Scratch].frame \in Frames /\ refs[leaf[u][Scratch].frame] = 0 =>
               refs'[leaf[u][Scratch].frame] = 0
      BY <2>2, Zenon
    <3>2. SpaceOK(u)
      BY SpacesAre, Zenon
    <3>3. u \in alive => leaf[u][Scratch].frame \in Frames
      BY ScratchAlone, Zenon
    <3> QED BY <3>1, <3>2, <3>3, ZenonT(40) DEF SpaceOK
  <2> QED BY <2>1, <2>2, Zenon
<1>2. alive' \subseteq Spaces
  BY Zenon DEF CowTypeOK
<1>3. WriteAllowed'
  <2> SUFFICES ASSUME NEW s \in alive', NEW p \in Pages PROVE PageOK(leaf'[s][p], prot'[s][p])
    BY Zenon DEF WriteAllowed, PageOK
  <2> QED BY <1>1, <1>2, Zenon DEF SpaceOK
<1>4. ScratchNeedsNoFrame'
  <2> SUFFICES ASSUME NEW s \in alive'
               PROVE  \/ leaf'[s][Scratch].write
                      \/ leaf'[s][Scratch].cow /\ refs'[leaf'[s][Scratch].frame] = 0
    BY Zenon DEF ScratchNeedsNoFrame, sole_owner
  <2> QED BY <1>1, <1>2, Zenon DEF SpaceOK
<1>5. SpacesSound'
  BY <1>1, <1>2, Zenon DEF SpacesSound, SpaceOK
<1> QED BY <1>3, <1>4, <1>5, Zenon DEF CowInv

\* A page of a space that exists changes, and the map allows what it becomes.
LEMMA PageKept ==
    ASSUME CowInv, CowTypeOK', RefsExact', HasFrame', MapsOnce', WriterAlone',
           NEW s \in alive, NEW p \in Pages, alive' = alive,
           \A t \in Spaces, q \in Pages : ~(t = s /\ q = p) => leaf'[t][q] = leaf[t][q],
           \A t \in Spaces, q \in Pages : ~(t = s /\ q = p) => prot'[t][q] = prot[t][q],
           PageOK(leaf'[s][p], prot'[s][p]), p = Scratch => leaf'[s][p].write /\ prot'[s][p] = "rw",
           \A f \in Frames : refs[f] = 0 => refs'[f] = 0
    PROVE  CowInv'
<1>1. s \in Spaces /\ Scratch \in Pages /\ ~NoLeaf.write /\ SpaceOK(s)
  BY SpaceAssumption, SpacesAre, Zenon DEF CowInv, CowTypeOK, NoLeaf
<1>2. SpaceOK(s)'
  <2>1. \A q \in Pages : PageOK(leaf'[s][q], prot'[s][q])
    BY <1>1, Zenon DEF SpaceOK
  <2>2. leaf'[s][Scratch] # NoLeaf /\ prot'[s][Scratch] = "rw"
    BY <1>1, Zenon DEF SpaceOK
  <2>3. leaf'[s][Scratch].write \/ (leaf'[s][Scratch].cow /\ refs'[leaf'[s][Scratch].frame] = 0)
    <3>1. CASE p = Scratch
      BY <3>1, Zenon
    <3>2. CASE p # Scratch
      <4>1. leaf'[s][Scratch] = leaf[s][Scratch]
        BY <1>1, <3>2, Zenon
      <4>2. leaf[s][Scratch].frame \in Frames /\ refs[leaf[s][Scratch].frame] = 0
        BY ScratchAlone, Zenon
      <4>3. refs'[leaf'[s][Scratch].frame] = 0
        BY <4>1, <4>2, Zenon
      <4> QED BY <1>1, <4>1, <4>3, Zenon DEF SpaceOK
    <3> QED BY <3>1, <3>2, Zenon
  <2> QED BY <2>1, <2>2, <2>3, Zenon DEF SpaceOK
<1>3. ASSUME NEW u \in Spaces \ {s} PROVE leaf'[u] = leaf[u] /\ prot'[u] = prot[u]
  <2>1. /\ leaf[u] \in [Pages -> Leaf] /\ leaf'[u] \in [Pages -> Leaf]
        /\ prot[u] \in [Pages -> Accesses] /\ prot'[u] \in [Pages -> Accesses]
    BY DEF CowInv, CowTypeOK
  <2>2. \A q \in Pages : leaf'[u][q] = leaf[u][q] /\ prot'[u][q] = prot[u][q]
    BY <1>3, Zenon
  <2> QED BY <2>1, <2>2
<1> DEFINE U == {s}
<1>4. \A u \in Spaces \ U :
        /\ u \in alive' <=> u \in alive
        /\ leaf'[u] = leaf[u] /\ prot'[u] = prot[u]
        /\ leaf[u][Scratch].frame \in Frames /\ refs[leaf[u][Scratch].frame] = 0 =>
             refs'[leaf[u][Scratch].frame] = 0
  BY <1>3, Zenon
<1>5. U \in SUBSET Spaces /\ \A u \in U : SpaceOK(u)'
  BY <1>1, <1>2, Zenon
<1> HIDE DEF U
<1> QED BY <1>4, <1>5, InvKept, Zenon

-----------------------------------------------------------------------------
(* What each space sees, and the steps of PrivateMemory.                   *)

\* What a space sees at a page, and all that any sees.
Seen(s, p) == IF leaf[s][p] = NoLeaf THEN Absent ELSE data[leaf[s][p].frame]
SeenValues == {Seen(s, p) : s \in Spaces, p \in Pages}

MemStep == [Private!Next]_mem

\* The parts of the invariant.
LEMMA InvParts ==
    ASSUME CowInv
    PROVE  /\ CowTypeOK /\ RefsExact /\ HasFrame /\ MapsOnce /\ WriterAlone
           /\ alive \subseteq Spaces /\ free \subseteq Frames
           /\ refs \in [Frames -> 0..MaxRefs] /\ data \in [Frames -> Values \cup {Zero}]
           /\ 0 \notin Frames
BY FrameAssumption, Zenon DEF CowInv, CowTypeOK

\* mem is what is seen.
LEMMA MemIs ==
    /\ mem \in [Spaces -> [Pages -> SeenValues]]
    /\ mem' \in [Spaces -> [Pages -> SeenValues']]
    /\ \A s \in Spaces, p \in Pages : mem[s][p] = Seen(s, p) /\ mem'[s][p] = Seen(s, p)'
<1>1. /\ mem = [s \in Spaces |-> [p \in Pages |-> Seen(s, p)]]
      /\ mem' = [s \in Spaces |-> [p \in Pages |-> Seen(s, p)']]
  BY Zenon DEF mem, Seen
<1>2. \A s \in Spaces, p \in Pages : Seen(s, p) \in SeenValues /\ Seen(s, p)' \in SeenValues'
  BY DEF SeenValues
<1> QED BY <1>1, <1>2, Zenon

\* Functions of two arguments that differ at one, or in one row.
LEMMA DiffersAt ==
    ASSUME NEW S, NEW P, NEW V, NEW W, NEW g \in [S -> [P -> V]], NEW h \in [S -> [P -> W]],
           NEW s \in S, NEW p \in P, \A t \in S, q \in P : ~(t = s /\ q = p) => h[t][q] = g[t][q]
    PROVE  h = [g EXCEPT ![s][p] = h[s][p]]
<1> DEFINE k == [g EXCEPT ![s][p] = h[s][p]]
<1>1. k = [g EXCEPT ![s] = [g[s] EXCEPT ![p] = h[s][p]]]
  OBVIOUS
<1>2. g[s] \in [P -> V] /\ h[s] \in [P -> W]
  BY Zenon
<1>3. h[s] = [g[s] EXCEPT ![p] = h[s][p]]
  BY <1>2
<1>4. ASSUME NEW t \in S, t # s PROVE h[t] = g[t]
  <2>1. g[t] \in [P -> V] /\ h[t] \in [P -> W] /\ \A q \in P : h[t][q] = g[t][q]
    BY <1>4, Zenon
  <2> QED BY <2>1
<1> HIDE DEF k
<1>5. k = h
  BY <1>1, <1>3, <1>4
<1> QED BY <1>5 DEF k

LEMMA DiffersIn ==
    ASSUME NEW S, NEW P, NEW V, NEW W, NEW g \in [S -> [P -> V]], NEW h \in [S -> [P -> W]],
           NEW s \in S, \A t \in S, q \in P : t # s => h[t][q] = g[t][q]
    PROVE  h = [g EXCEPT ![s] = h[s]]
<1>1. ASSUME NEW t \in S, t # s PROVE h[t] = g[t]
  <2>1. g[t] \in [P -> V] /\ h[t] \in [P -> W] /\ \A q \in P : h[t][q] = g[t][q]
    BY <1>1, Zenon
  <2> QED BY <2>1
<1> QED BY <1>1

\* A page of a space sees after a step what one saw before it.
LEMMA SeenAs ==
    ASSUME CowInv, HasFrame', NEW s \in Spaces, NEW q \in Pages, NEW t \in Spaces, NEW r \in Pages,
           leaf'[t][r].frame = 0 <=> leaf[s][q].frame = 0,
           leaf[s][q].frame # 0 => data'[leaf'[t][r].frame] = data[leaf[s][q].frame]
    PROVE  Seen(t, r)' = Seen(s, q)
<1>1. NoLeaf.frame = 0
  BY DEF NoLeaf
<1>2. leaf[s][q] = NoLeaf <=> leaf[s][q].frame = 0
  BY <1>1, InvParts, Zenon DEF HasFrame
<1>3. leaf'[t][r] = NoLeaf <=> leaf'[t][r].frame = 0
  BY <1>1, Zenon DEF HasFrame
<1>4. Seen(t, r)' = IF leaf'[t][r] = NoLeaf THEN Absent ELSE data'[leaf'[t][r].frame]
  BY Zenon DEF Seen
<1>5. CASE leaf[s][q].frame = 0
  BY <1>2, <1>3, <1>4, <1>5, Zenon DEF Seen
<1>6. CASE leaf[s][q].frame # 0
  BY <1>2, <1>3, <1>4, <1>6, Zenon DEF Seen
<1> QED BY <1>5, <1>6, Zenon

\* What is seen of pages that are there, and that are not.
LEMMA SeenIs ==
    ASSUME CowInv, NEW s \in Spaces, NEW p \in Pages
    PROVE  /\ leaf[s][p] = NoLeaf => Seen(s, p) = Absent
           /\ leaf[s][p] # NoLeaf => Seen(s, p) = data[leaf[s][p].frame] /\ Seen(s, p) # Absent
           /\ leaf'[s][p] = NoLeaf => Seen(s, p)' = Absent
           /\ leaf'[s][p] # NoLeaf => Seen(s, p)' = data'[leaf'[s][p].frame]
<1>1. leaf[s][p] # NoLeaf => data[leaf[s][p].frame] \in Values \cup {Zero}
  BY InvParts, Presence
<1>2. Absent \notin Values \cup {Zero}
  BY ValueAssumption, Zenon
<1>3. Seen(s, p)' = IF leaf'[s][p] = NoLeaf THEN Absent ELSE data'[leaf'[s][p].frame]
  BY Zenon DEF Seen
<1> QED BY <1>1, <1>2, <1>3, Zenon DEF Seen

\* Nothing is seen to change.
LEMMA Stutters ==
    ASSUME \A s \in Spaces, p \in Pages : Seen(s, p)' = Seen(s, p)
    PROVE  MemStep
<1>1. mem' = mem
  BY DEF mem, Seen
<1> QED BY <1>1, Zenon DEF MemStep

\* One page is seen to change.
LEMMA ChangesPage ==
    ASSUME NEW s \in Spaces, NEW p \in Pages,
           \A t \in Spaces, q \in Pages : ~(t = s /\ q = p) => Seen(t, q)' = Seen(t, q),
           \/ Seen(s, p) = Absent /\ Seen(s, p)' = Zero
           \/ Seen(s, p) # Absent /\ Seen(s, p)' \in Values
           \/ Seen(s, p)' = Absent
    PROVE  MemStep
<1>1. \A t \in Spaces, q \in Pages : ~(t = s /\ q = p) => mem'[t][q] = mem[t][q]
  BY MemIs
<1>2. mem' = [mem EXCEPT ![s][p] = mem'[s][p]]
  <2> DEFINE g == mem
             h == mem'
             V == SeenValues
             W == SeenValues'
  <2>1. /\ g \in [Spaces -> [Pages -> V]] /\ h \in [Spaces -> [Pages -> W]]
        /\ \A t \in Spaces, q \in Pages : ~(t = s /\ q = p) => h[t][q] = g[t][q]
    BY <1>1, MemIs, SMTT(30)
  <2> HIDE DEF g, h, V, W
  <2>2. h = [g EXCEPT ![s][p] = h[s][p]]
    BY <2>1, DiffersAt
  <2> QED BY <2>2, Zenon DEF g, h
<1>3. mem[s][p] = Seen(s, p) /\ mem'[s][p] = Seen(s, p)'
  BY MemIs
<1>4. CASE Seen(s, p) = Absent /\ Seen(s, p)' = Zero
  <2>1. Private!Fill(s, p)
    BY <1>2, <1>3, <1>4, Zenon DEF Private!Fill
  <2> QED BY <2>1, Zenon DEF MemStep, Private!Next
<1>5. CASE Seen(s, p) # Absent /\ Seen(s, p)' \in Values
  <2>1. Private!Write(s, p, Seen(s, p)')
    BY <1>2, <1>3, <1>5, Zenon DEF Private!Write
  <2> QED BY <1>5, <2>1, Zenon DEF MemStep, Private!Next
<1>6. CASE Seen(s, p)' = Absent
  <2>1. Private!Unmap(s, p)
    BY <1>2, <1>3, <1>6, Zenon DEF Private!Unmap
  <2> QED BY <2>1, Zenon DEF MemStep, Private!Next
<1> QED BY <1>4, <1>5, <1>6, Zenon

\* One space is seen to change: it ends, or begins with what another has.
LEMMA ChangesSpace ==
    ASSUME NEW t \in Spaces, 
           \A u \in Spaces, q \in Pages : u # t => Seen(u, q)' = Seen(u, q),
           \/ \A q \in Pages : Seen(t, q)' = Absent
           \/ /\ \A q \in Pages : Seen(t, q) = Absent
              /\ \E s \in Spaces : \A q \in Pages : Seen(t, q)' = Seen(s, q)
    PROVE  MemStep
<1>1. \A u \in Spaces, q \in Pages : u # t => mem'[u][q] = mem[u][q]
  BY MemIs
<1>2. mem' = [mem EXCEPT ![t] = mem'[t]]
  BY <1>1, MemIs, DiffersIn
<1>3. \A s \in Spaces : /\ mem[s] = [q \in Pages |-> Seen(s, q)]
                        /\ mem'[s] = [q \in Pages |-> Seen(s, q)']
  BY Zenon DEF mem, Seen
<1>4. CASE \A q \in Pages : Seen(t, q)' = Absent
  <2>1. mem'[t] = Private!Empty
    BY <1>3, <1>4, Zenon DEF Private!Empty
  <2>2. Private!Exit(t)
    BY <1>2, <2>1, Zenon DEF Private!Exit
  <2> QED BY <2>2, Zenon DEF MemStep, Private!Next
<1>5. ASSUME \A q \in Pages : Seen(t, q) = Absent,
             NEW s \in Spaces, \A q \in Pages : Seen(t, q)' = Seen(s, q)
      PROVE  MemStep
  <2>1. mem[t] = Private!Empty
    <3>1. \A q \in Pages : Seen(t, q) = Absent
      BY <1>5, Zenon
    <3>2. mem[t] = [q \in Pages |-> Seen(t, q)]
      BY <1>3, Zenon
    <3> QED BY <3>1, <3>2 DEF Private!Empty
  <2>2. mem'[t] = mem[s]
    BY <1>3, <1>5, ZenonT(40)
  <2>3. Private!Fork(s, t)
    BY <1>2, <2>1, <2>2, Zenon DEF Private!Fork
  <2> QED BY <2>3, Zenon DEF MemStep, Private!Next
<1> QED BY <1>4, <1>5, Zenon

\* A page whose frame stays, and what it holds, is seen as before; so is one
\* whose frame stays when only a free frame is written.
LEMMA SeenKept ==
    ASSUME CowInv, HasFrame', NEW t \in Spaces, NEW q \in Pages, leaf'[t][q].frame = leaf[t][q].frame,
           leaf[t][q].frame \in Frames => data'[leaf[t][q].frame] = data[leaf[t][q].frame]
    PROVE  Seen(t, q)' = Seen(t, q)
<1>1. leaf[t][q].frame # 0 => leaf[t][q].frame \in Frames
  BY InvParts, LeafTypes, Zenon
<1> QED BY <1>1, SeenAs, Zenon

LEMMA SeenBut ==
    ASSUME CowInv, HasFrame', NEW f \in free, \A g \in Frames : g # f => data'[g] = data[g],
           NEW t \in Spaces, NEW q \in Pages, leaf'[t][q].frame = leaf[t][q].frame
    PROVE  Seen(t, q)' = Seen(t, q)
<1>1. leaf[t][q].frame # f
  BY InvParts, FreeUnmapped, Zenon
<1> QED BY <1>1, SeenKept, Zenon

-----------------------------------------------------------------------------
(* One lemma per action.                                                   *)

\* The frame of a page is set without any page changing.
LEMMA StoreKept ==
    ASSUME CowInv, NEW s \in Spaces, NEW p \in Pages, NEW v \in Values, Store(s, p, v)
    PROVE  CowInv' /\ MemStep
<1>1. UNCHANGED <<alive, leaf, prot, refs, free>>
  BY Zenon DEF Store
<1>2. data' \in [Frames -> Values \cup {Zero}]
  BY InvParts, Zenon DEF Store
<1>3. CowTypeOK'
  BY <1>1, <1>2, InvParts, Zenon DEF CowTypeOK
<1>4. RefsExact' /\ MapsOnce' /\ HasFrame' /\ WriterAlone'
  BY <1>1, InvParts, SameFrames, Zenon DEF HasFrame, WriterAlone
<1> DEFINE U == {}
<1>5. U \in SUBSET Spaces /\ \A u \in U : SpaceOK(u)'
  BY Zenon
<1> HIDE DEF U
<1>6. CowInv'
  BY <1>1, <1>3, <1>4, <1>5, InvKept, Zenon
<1>7. MemStep
  <2> DEFINE f == leaf[s][p].frame
  <2>1. leaf[s][p].write /\ data' = [data EXCEPT ![f] = v]
    BY Zenon DEF Store
  <2>2. f \in Frames /\ refs[f] = 0
    BY <2>1, InvParts, Zenon DEF WriterAlone
  <2>3. data'[f] = v /\ \A g \in Frames : g # f => data'[g] = data[g]
    BY <2>1, <2>2, InvParts, SMTT(30)
  <2>4. leaf[s][p] # NoLeaf
    BY <2>2, InvParts, Presence, Zenon
  <2>5. Seen(s, p) # Absent /\ Seen(s, p)' = v
    BY <1>1, <2>3, <2>4, SeenIs, Zenon
  <2>6. ASSUME NEW t \in Spaces, NEW q \in Pages, ~(t = s /\ q = p) PROVE Seen(t, q)' = Seen(t, q)
    <3>1. leaf[t][q].frame # f
      BY <2>2, <2>6, InvParts, Alone, Zenon
    <3> QED BY <1>1, <1>4, <2>3, <3>1, SeenKept, Zenon
  <2> QED BY <2>5, <2>6, ChangesPage, Zenon
<1> QED BY <1>6, <1>7, Zenon

\* A leaf with these flags.
LEMMA FlagsAre ==
    ASSUME NEW f \in Frames, NEW w \in BOOLEAN, NEW c \in BOOLEAN
    PROVE  /\ Flags(f, w, c) \in Leaf /\ Flags(f, w, c).frame = f
           /\ Flags(f, w, c).write = w /\ Flags(f, w, c).cow = c /\ ~Flags(f, w, c).none
BY DEF Flags, Leaf

\* The first touch of a page.
LEMMA FillKept ==
    ASSUME CowInv, NEW s \in Spaces, NEW p \in Pages, try_fill_anon(s, p)
    PROVE  CowInv' /\ MemStep
<1> DEFINE f == Min(free)
           l == Flags(f, prot[s][p] = "rw", FALSE)
<1>1. /\ s \in alive /\ p # Scratch /\ leaf[s][p] = NoLeaf /\ prot[s][p] # "none" /\ free # {}
      /\ data' = [data EXCEPT ![f] = Zero] /\ free' = free \ {f}
      /\ alive' = alive /\ prot' = prot /\ refs' = refs
  BY Zenon DEF try_fill_anon
<1>2. f \in free /\ f \in Frames
  BY <1>1, InvParts, NewFrame, Zenon
<1>3. l \in Leaf /\ l.frame = f /\ l.write = (prot[s][p] = "rw") /\ l.cow = FALSE /\ ~l.none
  BY <1>2, FlagsAre, Zenon
<1>4. SetPage(s, p, l)
  BY Zenon DEF try_fill_anon, SetPage
<1> HIDE DEF f, l
<1>5. /\ leaf' \in [Spaces -> [Pages -> Leaf]] /\ leaf'[s][p] = l
      /\ \A t \in Spaces, q \in Pages : ~(t = s /\ q = p) => leaf'[t][q] = leaf[t][q]
  BY <1>3, <1>4, InvParts, OnePage, ZenonT(40)
<1>6. RefsExact' /\ HasFrame' /\ MapsOnce' /\ WriterAlone' /\ free' \subseteq Frames
  BY <1>1, <1>2, <1>3, <1>5, NewPage
<1>7. CowTypeOK'
  <2>1. data' \in [Frames -> Values \cup {Zero}]
    BY <1>1, InvParts, Zenon
  <2> QED BY <1>1, <1>5, <1>6, <2>1, InvParts, ZenonT(40) DEF CowTypeOK
<1>8. PageOK(leaf'[s][p], prot'[s][p])
  BY <1>1, <1>3, <1>5, Zenon DEF PageOK
<1>9. CowInv'
  BY <1>1, <1>5, <1>6, <1>7, <1>8, PageKept
<1>10. MemStep
  <2>1. data'[f] = Zero /\ \A g \in Frames : g # f => data'[g] = data[g]
    BY <1>1, <1>2, InvParts, SMTT(30)
  <2>2. leaf'[s][p].frame = f /\ leaf'[s][p] # NoLeaf
    BY <1>2, <1>3, <1>5, InvParts DEF NoLeaf
  <2>3. Seen(s, p) = Absent /\ Seen(s, p)' = Zero
    BY <1>1, <2>1, <2>2, SeenIs, ZenonT(40)
  <2>4. \A t \in Spaces, q \in Pages : ~(t = s /\ q = p) => Seen(t, q)' = Seen(t, q)
    BY <1>2, <1>5, <1>6, <2>1, SeenBut, Zenon
  <2> QED BY <2>3, <2>4, ChangesPage, Zenon
<1> QED BY <1>9, <1>10, Zenon

\* The first write to a page that fork shared: the page takes its frame for its
\* own when nobody else has it, and a copy when somebody has.
LEMMA ResolveKept ==
    ASSUME CowInv, NEW s \in Spaces, NEW p \in Pages, try_resolve_cow(s, p)
    PROVE  CowInv' /\ MemStep
<1> DEFINE old == leaf[s][p].frame
           new == Min(free)
           l(f) == Flags(f, TRUE, FALSE)
<1>1. s \in alive /\ leaf[s][p].cow /\ ~leaf[s][p].none /\ alive' = alive /\ prot' = prot
  BY Zenon DEF try_resolve_cow
<1>2. old \in Frames /\ leaf[s][p] # NoLeaf
  <2>1. ~NoLeaf.cow
    BY DEF NoLeaf
  <2>2. leaf[s][p] # NoLeaf
    BY <1>1, <2>1, Zenon
  <2> QED BY <2>2, InvParts, Presence, Zenon
<1>3. \A f \in Frames : l(f) \in Leaf /\ l(f).frame = f /\ l(f).write = TRUE /\ l(f).cow = FALSE /\ ~l(f).none
  BY FlagsAre, Zenon
<1>4. (prot[s][p] # "none" => prot[s][p] = "rw") /\ (p = Scratch => prot[s][p] = "rw")
  <2>1. SpaceOK(s)
    BY SpacesAre, Zenon
  <2> QED BY <1>1, <1>2, <2>1, Zenon DEF SpaceOK, PageOK
<1> HIDE DEF l
<1>5. ASSUME NEW f \in Frames, SetPage(s, p, l(f)) 
      PROVE  /\ leaf' \in [Spaces -> [Pages -> Leaf]] /\ leaf'[s][p] = l(f)
             /\ leaf'[s][p].frame = f /\ leaf'[s][p].write
             /\ \A t \in Spaces, q \in Pages : ~(t = s /\ q = p) => leaf'[t][q] = leaf[t][q]
             /\ PageOK(leaf'[s][p], prot'[s][p]) /\ (p = Scratch => prot'[s][p] = "rw")
  <2>1. /\ leaf' \in [Spaces -> [Pages -> Leaf]] /\ leaf'[s][p] = l(f)
        /\ \A t \in Spaces, q \in Pages : ~(t = s /\ q = p) => leaf'[t][q] = leaf[t][q]
    BY <1>3, <1>5, InvParts, OnePage
  <2>2. l(f).frame = f /\ l(f).write /\ ~l(f).none
    BY <1>3
  <2> QED BY <1>1, <1>4, <2>1, <2>2, ZenonT(40) DEF PageOK
<1>6. CASE sole_owner(old) /\ SetPage(s, p, l(old)) /\ UNCHANGED <<refs, free, data>>
  <2>1. /\ leaf' \in [Spaces -> [Pages -> Leaf]]
        /\ leaf'[s][p].frame = old /\ leaf'[s][p].write
        /\ \A t \in Spaces, q \in Pages : ~(t = s /\ q = p) => leaf'[t][q] = leaf[t][q]
        /\ PageOK(leaf'[s][p], prot'[s][p]) /\ (p = Scratch => prot'[s][p] = "rw")
    BY <1>2, <1>5, <1>6, Zenon
  <2>2. RefsExact' /\ MapsOnce'
    <3>1. \A t \in Spaces, q \in Pages : leaf'[t][q].frame = leaf[t][q].frame
      BY <2>1, ZenonT(40)
    <3> QED BY <1>6, <3>1, InvParts, SameFrames, Zenon
  <2>3. HasFrame'
    <3> SUFFICES ASSUME NEW t \in Spaces, NEW q \in Pages, leaf'[t][q].frame = 0
                 PROVE  leaf'[t][q] = NoLeaf
      BY Zenon DEF HasFrame
    <3> QED BY <1>2, <2>1, InvParts DEF HasFrame
  <2>4. WriterAlone'
    <3> SUFFICES ASSUME NEW t \in Spaces, NEW q \in Pages, leaf'[t][q].write
                 PROVE  leaf'[t][q].frame \in Frames /\ refs'[leaf'[t][q].frame] = 0
      BY Zenon DEF WriterAlone
    <3>1. CASE t = s /\ q = p
      BY <1>2, <1>6, <2>1, <3>1, Zenon DEF sole_owner
    <3>2. CASE ~(t = s /\ q = p)
      <4>1. leaf'[t][q] = leaf[t][q]
        BY <2>1, <3>2, Zenon
      <4>2. leaf[t][q].frame \in Frames /\ refs[leaf[t][q].frame] = 0
        BY <4>1, InvParts, Zenon DEF WriterAlone
      <4> QED BY <1>6, <4>1, <4>2, Zenon
    <3> QED BY <3>1, <3>2, Zenon
  <2>5. CowTypeOK'
    BY <1>1, <1>6, <2>1, InvParts, Zenon DEF CowTypeOK
  <2>6. CowInv'
    BY <1>1, <1>6, <2>1, <2>2, <2>3, <2>4, <2>5, PageKept, Zenon
  <2>7. ASSUME NEW t \in Spaces, NEW q \in Pages PROVE Seen(t, q)' = Seen(t, q)
    <3>1. leaf'[t][q].frame = leaf[t][q].frame /\ data' = data
      BY <1>6, <2>1, Zenon
    <3> QED BY <2>3, <3>1, SeenKept, Zenon
  <2> QED BY <2>6, <2>7, Stutters, Zenon
<1>7. CASE /\ ~sole_owner(old) /\ free # {} /\ SetPage(s, p, l(new))
           /\ data' = [data EXCEPT ![new] = data[old]]
           /\ refs' = [refs EXCEPT ![old] = IF @ > 0 THEN @ - 1 ELSE @]
           /\ free' = (free \ {new}) \cup (IF refs[old] = 0 THEN {old} ELSE {})
  <2>1. new \in free /\ new \in Frames
    BY <1>7, InvParts, NewFrame, Zenon
  <2>2. /\ leaf' \in [Spaces -> [Pages -> Leaf]]
        /\ leaf'[s][p].frame = new /\ leaf'[s][p].write
        /\ \A t \in Spaces, q \in Pages : ~(t = s /\ q = p) => leaf'[t][q] = leaf[t][q]
        /\ PageOK(leaf'[s][p], prot'[s][p]) /\ (p = Scratch => prot'[s][p] = "rw")
    BY <1>5, <1>7, <2>1, Zenon
  <2>3. refs[old] # 0
    BY <1>7, ZenonT(40) DEF sole_owner
  <2>4. data' \in [Frames -> Values \cup {Zero}]
    BY <1>2, <1>7, <2>1, InvParts, SMTT(30)
  <2>5. /\ RefsExact' /\ HasFrame' /\ MapsOnce' /\ WriterAlone'
        /\ free' \subseteq Frames /\ refs' \in [Frames -> 0..MaxRefs]
        /\ \A f \in Frames : refs[f] = 0 => refs'[f] = 0
    <3> HIDE DEF new
    <3> QED BY <1>2, <1>7, <2>1, <2>2, <2>3, MovedPage, ZenonT(40)
  <2>6. CowTypeOK'
    BY <1>1, <2>2, <2>4, <2>5, InvParts, Zenon DEF CowTypeOK
  <2>7. CowInv'
    BY <1>1, <2>2, <2>5, <2>6, PageKept, ZenonT(40)
  <2>8. data'[new] = data[old] /\ \A g \in Frames : g # new => data'[g] = data[g]
    BY <1>2, <1>7, <2>1, InvParts, SMTT(30)
  <2>9. ASSUME NEW t \in Spaces, NEW q \in Pages PROVE Seen(t, q)' = Seen(t, q)
    <3>1. CASE t = s /\ q = p
      <4>1. leaf'[s][p].frame # 0 /\ leaf[s][p].frame # 0
        BY <1>2, <2>1, <2>2, InvParts, ZenonT(40)
      <4>2. data'[leaf'[s][p].frame] = data[leaf[s][p].frame]
        BY <2>2, <2>8, Zenon
      <4>3. Seen(s, p)' = Seen(s, p)
        BY <2>5, <4>1, <4>2, SeenAs, Zenon
      <4> QED BY <3>1, <4>3, Zenon
    <3>2. CASE ~(t = s /\ q = p)
      BY <2>1, <2>2, <2>5, <2>8, <3>2, SeenBut, Zenon
    <3> QED BY <3>1, <3>2, Zenon
  <2> QED BY <2>7, <2>9, Stutters, Zenon
<1> QED BY <1>6, <1>7, Zenon DEF try_resolve_cow, SetPage, l

\* A page is given back.
LEMMA MunmapKept ==
    ASSUME CowInv, NEW s \in Spaces, NEW p \in Pages, munmap(s, p)
    PROVE  CowInv' /\ MemStep
<1> DEFINE S == {leaf[s][p].frame}
           D == {p}
<1>1. /\ s \in alive /\ p # Scratch /\ leaf[s][p] # NoLeaf /\ release(S)
      /\ alive' = alive /\ prot' = prot /\ data' = data /\ SetPage(s, p, NoLeaf)
  BY Zenon DEF munmap, SetPage
<1>2. leaf[s][p].frame \in Frames /\ NoLeaf \in Leaf
  BY <1>1, InvParts, Presence, Zenon
<1>3. /\ leaf' \in [Spaces -> [Pages -> Leaf]] /\ leaf'[s][p] = NoLeaf
      /\ \A t \in Spaces, q \in Pages : ~(t = s /\ q = p) => leaf'[t][q] = leaf[t][q]
  BY <1>1, <1>2, InvParts, OnePage, ZenonT(40)
<1>4. /\ D \in SUBSET Pages /\ S \in SUBSET Frames
      /\ \A f \in Frames : f \in S <=> \E q \in D : leaf[s][q].frame = f
      /\ \A q \in D : leaf'[s][q] = NoLeaf
      /\ \A t \in Spaces, q \in Pages : ~(t = s /\ q \in D) => leaf'[t][q] = leaf[t][q]
  BY <1>2, <1>3, Zenon
<1> HIDE DEF S, D
<1>5. /\ RefsExact' /\ HasFrame' /\ MapsOnce' /\ WriterAlone'
      /\ free' \subseteq Frames /\ refs' \in [Frames -> 0..MaxRefs]
      /\ \A f \in Frames : refs[f] = 0 => refs'[f] = 0
  BY <1>1, <1>4, Dropped, ZenonT(40)
<1>6. CowTypeOK'
  BY <1>1, <1>3, <1>5, InvParts, Zenon DEF CowTypeOK
<1>7. PageOK(leaf'[s][p], prot'[s][p])
  BY <1>3, Zenon DEF PageOK
<1>8. CowInv'
  BY <1>1, <1>3, <1>5, <1>6, <1>7, PageKept, Zenon
<1>9. Seen(s, p)' = Absent
  BY <1>3, SeenIs, Zenon
<1>10. \A t \in Spaces, q \in Pages : ~(t = s /\ q = p) => Seen(t, q)' = Seen(t, q)
  BY <1>1, <1>3, <1>5, SeenKept, Zenon
<1> QED BY <1>8, <1>9, <1>10, ChangesPage, Zenon

\* A space none of whose pages change is as it was.
LEMMA SameSpace ==
    ASSUME CowTypeOK, CowTypeOK', NEW u \in Spaces,
           \A q \in Pages : leaf'[u][q] = leaf[u][q] /\ prot'[u][q] = prot[u][q]
    PROVE  leaf'[u] = leaf[u] /\ prot'[u] = prot[u]
<1>1. /\ leaf[u] \in [Pages -> Leaf] /\ leaf'[u] \in [Pages -> Leaf]
      /\ prot[u] \in [Pages -> Accesses] /\ prot'[u] \in [Pages -> Accesses]
  BY DEF CowTypeOK
<1> QED BY <1>1

\* Changing one space.
SetSpace(s, m) == leaf' = [leaf EXCEPT ![s] = m]

LEMMA OneSpace ==
    ASSUME CowTypeOK, NEW s \in Spaces, NEW m \in [Pages -> Leaf], SetSpace(s, m)
    PROVE  /\ leaf' \in [Spaces -> [Pages -> Leaf]] /\ leaf'[s] = m
           /\ \A t \in Spaces : t # s => leaf'[t] = leaf[t]
BY DEF CowTypeOK, SetSpace

\* The end of an address space.
LEMMA TeardownKept ==
    ASSUME CowInv, NEW s \in Spaces, teardown(s)
    PROVE  CowInv' /\ MemStep
<1> DEFINE m == [p \in Pages |-> NoLeaf]
           a == [p \in Pages |-> "rw"]
<1>1. /\ s \in alive /\ alive' = alive \ {s} /\ SetSpace(s, m) /\ release(FramesOf(s))
      /\ data' = data
  BY Zenon DEF teardown, SetSpace
<1>2. m \in [Pages -> Leaf] /\ \A p \in Pages : m[p] = NoLeaf
  BY DEF NoLeaf, Leaf
<1>3. /\ prot' \in [Spaces -> [Pages -> Accesses]] /\ prot'[s] = a /\ \A p \in Pages : a[p] = "rw"
      /\ \A t \in Spaces : t # s => prot'[t] = prot[t]
  <2>1. prot' = [prot EXCEPT ![s] = a] /\ prot \in [Spaces -> [Pages -> Accesses]]
    BY InvParts, Zenon DEF teardown, CowTypeOK
  <2>2. a \in [Pages -> Accesses]
    BY ValueAssumption
  <2> QED BY <2>1, <2>2
<1> HIDE DEF m, a
<1>4. /\ leaf' \in [Spaces -> [Pages -> Leaf]] /\ leaf'[s] = m
      /\ \A t \in Spaces : t # s => leaf'[t] = leaf[t]
  BY <1>1, <1>2, InvParts, OneSpace, Zenon
<1>5. /\ FramesOf(s) \in SUBSET Frames
      /\ \A f \in Frames : f \in FramesOf(s) <=> \E q \in Pages : leaf[s][q].frame = f
  BY InvParts, FramesOfAre, Zenon
<1>6. /\ Pages \in SUBSET Pages /\ \A q \in Pages : leaf'[s][q] = NoLeaf
      /\ \A t \in Spaces, q \in Pages : ~(t = s /\ q \in Pages) => leaf'[t][q] = leaf[t][q]
  BY <1>2, <1>4, Zenon
<1>7. /\ RefsExact' /\ HasFrame' /\ MapsOnce' /\ WriterAlone'
      /\ free' \subseteq Frames /\ refs' \in [Frames -> 0..MaxRefs]
      /\ \A f \in Frames : refs[f] = 0 => refs'[f] = 0
  BY <1>1, <1>5, <1>6, Dropped, Zenon
<1>8. CowTypeOK'
  BY <1>1, <1>3, <1>4, <1>7, InvParts, Zenon DEF CowTypeOK
<1> DEFINE U == {s}
<1>9. U \in SUBSET Spaces /\ \A u \in U : SpaceOK(u)'
  <2>1. s \notin alive' /\ Scratch \in Pages
    BY <1>1, SpaceAssumption, Zenon
  <2> QED BY <1>3, <1>6, <2>1, Zenon DEF SpaceOK
<1>10. \A u \in Spaces \ U :
         /\ u \in alive' <=> u \in alive
         /\ leaf'[u] = leaf[u] /\ prot'[u] = prot[u]
         /\ leaf[u][Scratch].frame \in Frames /\ refs[leaf[u][Scratch].frame] = 0 =>
              refs'[leaf[u][Scratch].frame] = 0
  BY <1>1, <1>3, <1>4, <1>7, Zenon
<1> HIDE DEF U
<1>11. CowInv'
  BY <1>7, <1>8, <1>9, <1>10, InvKept, Zenon
<1>12. \A q \in Pages : Seen(s, q)' = Absent
  BY <1>6, SeenIs, Zenon
<1>13. \A u \in Spaces, q \in Pages : u # s => Seen(u, q)' = Seen(u, q)
  BY <1>1, <1>6, <1>7, SeenKept, Zenon
<1> QED BY <1>11, <1>12, <1>13, ChangesSpace, Zenon

\* A new address space, with its scratch page.
LEMMA ExecKept ==
    ASSUME CowInv, NEW s \in Spaces, exec(s)
    PROVE  CowInv' /\ MemStep
<1> DEFINE f == Min(free)
           l == Flags(f, TRUE, FALSE)
<1>1. /\ s \notin alive /\ free # {} /\ alive' = alive \cup {s} /\ prot' = prot /\ refs' = refs
      /\ data' = [data EXCEPT ![f] = Zero] /\ free' = free \ {f} /\ SetPage(s, Scratch, l)
  BY Zenon DEF exec, SetPage
<1>2. f \in free /\ f \in Frames /\ Scratch \in Pages
  BY <1>1, InvParts, NewFrame, SpaceAssumption, Zenon
<1>3. l \in Leaf /\ l.frame = f /\ l.write = TRUE /\ ~l.none
  BY <1>2, FlagsAre, Zenon
<1> HIDE DEF f, l
<1>4. /\ leaf' \in [Spaces -> [Pages -> Leaf]] /\ leaf'[s][Scratch] = l
      /\ \A t \in Spaces, q \in Pages : ~(t = s /\ q = Scratch) => leaf'[t][q] = leaf[t][q]
  BY <1>1, <1>2, <1>3, InvParts, OnePage, ZenonT(40)
<1>5. \A q \in Pages : leaf[s][q] = NoLeaf /\ prot[s][q] = "rw"
  BY <1>1, SpacesAre, Zenon DEF SpaceOK
<1>6. RefsExact' /\ HasFrame' /\ MapsOnce' /\ WriterAlone' /\ free' \subseteq Frames
  BY <1>1, <1>2, <1>3, <1>4, <1>5, NewPage, Zenon
<1>7. CowTypeOK'
  <2>1. data' \in [Frames -> Values \cup {Zero}]
    BY <1>1, <1>2, InvParts
  <2> QED BY <1>1, <1>4, <1>6, <2>1, InvParts, Zenon DEF CowTypeOK
<1> DEFINE U == {s}
<1>8. U \in SUBSET Spaces /\ \A u \in U : SpaceOK(u)'
  <2>1. s \in alive' /\ prot'[s][Scratch] = "rw" /\ leaf'[s][Scratch].write
    BY <1>1, <1>2, <1>3, <1>4, <1>5, SMTT(30)
  <2>2. leaf'[s][Scratch] # NoLeaf
    BY <2>1 DEF NoLeaf
  <2>3. ASSUME NEW q \in Pages PROVE PageOK(leaf'[s][q], prot'[s][q])
    <3>1. CASE q = Scratch
      BY <1>3, <1>4, <2>1, <3>1, SMTT(30) DEF PageOK
    <3>2. CASE q # Scratch
      BY <1>4, <1>5, <3>2, Zenon DEF PageOK
    <3> QED BY <3>1, <3>2, Zenon
  <2> QED BY <2>1, <2>2, <2>3, Zenon DEF SpaceOK
<1>9. \A u \in Spaces \ U :
         /\ u \in alive' <=> u \in alive
         /\ leaf'[u] = leaf[u] /\ prot'[u] = prot[u]
         /\ leaf[u][Scratch].frame \in Frames /\ refs[leaf[u][Scratch].frame] = 0 =>
              refs'[leaf[u][Scratch].frame] = 0
  BY <1>1, <1>4, <1>7, InvParts, SameSpace, ZenonT(40)
<1> HIDE DEF U
<1>10. CowInv'
  BY <1>6, <1>7, <1>8, <1>9, InvKept, Zenon
<1>11. MemStep
  <2>1. data'[f] = Zero /\ \A g \in Frames : g # f => data'[g] = data[g]
    BY <1>1, <1>2, InvParts, SMTT(30)
  <2>2. leaf'[s][Scratch].frame = f /\ leaf'[s][Scratch] # NoLeaf
    BY <1>2, <1>3, <1>4, InvParts DEF NoLeaf
  <2>3. Seen(s, Scratch) = Absent /\ Seen(s, Scratch)' = Zero
    BY <1>2, <1>5, <2>1, <2>2, SeenIs, Zenon
  <2>4. \A t \in Spaces, q \in Pages : ~(t = s /\ q = Scratch) => Seen(t, q)' = Seen(t, q)
    BY <1>2, <1>4, <1>6, <2>1, SeenBut, Zenon
  <2> QED BY <1>2, <2>3, <2>4, ChangesPage, Zenon
<1> QED BY <1>10, <1>11, Zenon

\* What mprotect makes of a leaf.
LEMMA ReprotectedIs ==
    ASSUME NEW l \in Leaf, NEW a
    PROVE  /\ Reprotected(l, a) \in Leaf /\ Reprotected(l, a).frame = l.frame
           /\ a # "none" =>
                /\ Reprotected(l, a).write \/ Reprotected(l, a).cow <=> a = "rw"
                /\ ~Reprotected(l, a).none
           /\ Reprotected(l, a).write => l.write \/ sole_owner(l.frame)
<1>1. CASE a = "none"
  <2>1. Reprotected(l, a) = [l EXCEPT !.none = TRUE]
    BY <1>1, Zenon DEF Reprotected
  <2> QED BY <1>1, <2>1, Zenon DEF Leaf
<1>2. CASE a # "none"
  <2> DEFINE w == a = "rw" /\ sole_owner(l.frame)
             c == a = "rw" /\ ~sole_owner(l.frame)
  <2>1. Reprotected(l, a) = [l EXCEPT !.none = FALSE, !.write = w, !.cow = c]
    BY <1>2, ZenonT(40) DEF Reprotected
  <2>2. w \in BOOLEAN /\ c \in BOOLEAN /\ (w \/ c <=> a = "rw") /\ (w => sole_owner(l.frame))
    BY Zenon
  <2> HIDE DEF w, c
  <2> QED BY <1>2, <2>1, <2>2, Zenon DEF Leaf
<1> QED BY <1>1, <1>2, Zenon


\* A page is protected otherwise.
LEMMA MprotectKept ==
    ASSUME CowInv, NEW s \in Spaces, NEW p \in Pages, NEW a \in Accesses, do_mprotect(s, p, a)
    PROVE  CowInv' /\ MemStep
<1> DEFINE l == Reprotected(leaf[s][p], a)
<1>1. /\ s \in alive /\ p # Scratch /\ alive' = alive /\ refs' = refs /\ free' = free /\ data' = data
  BY Zenon DEF do_mprotect
<1>2. /\ prot' \in [Spaces -> [Pages -> Accesses]] /\ prot'[s][p] = a
      /\ \A t \in Spaces, q \in Pages : ~(t = s /\ q = p) => prot'[t][q] = prot[t][q]
  <2>1. prot' = [prot EXCEPT ![s][p] = a] /\ prot \in [Spaces -> [Pages -> Accesses]]
    BY InvParts, Zenon DEF do_mprotect, CowTypeOK
  <2> QED BY <2>1
<1>3. CASE leaf[s][p] = NoLeaf
  <2>1. leaf' = leaf
    BY <1>3, Zenon DEF do_mprotect
  <2>2. RefsExact' /\ MapsOnce' /\ HasFrame' /\ WriterAlone'
    BY <1>1, <2>1, InvParts, SameFrames, Zenon DEF HasFrame, WriterAlone
  <2>3. CowTypeOK'
    BY <1>1, <1>2, <2>1, InvParts, Zenon DEF CowTypeOK
  <2>4. PageOK(leaf'[s][p], prot'[s][p])
    BY <1>3, <2>1, Zenon DEF PageOK
  <2>5. CowInv'
    BY <1>1, <1>2, <2>1, <2>2, <2>3, <2>4, PageKept, Zenon
  <2>6. \A t \in Spaces, q \in Pages : Seen(t, q)' = Seen(t, q)
    BY <1>1, <2>1, <2>2, SeenKept, Zenon
  <2> QED BY <2>5, <2>6, Stutters, Zenon
<1>4. CASE leaf[s][p] # NoLeaf
  <2>1. SetPage(s, p, l)
    BY <1>4 DEF do_mprotect, SetPage
  <2>2. leaf[s][p] \in Leaf /\ leaf[s][p].frame \in Frames
    BY <1>4, InvParts, LeafTypes, Presence, Zenon
  <2>3. /\ l \in Leaf /\ l.frame = leaf[s][p].frame
        /\ a # "none" => (l.write \/ l.cow <=> a = "rw") /\ ~l.none
        /\ l.write => leaf[s][p].write \/ sole_owner(leaf[s][p].frame)
    BY <2>2, ReprotectedIs, Zenon
  <2> HIDE DEF l
  <2>4. /\ leaf' \in [Spaces -> [Pages -> Leaf]] /\ leaf'[s][p] = l
        /\ \A t \in Spaces, q \in Pages : ~(t = s /\ q = p) => leaf'[t][q] = leaf[t][q]
    BY <2>1, <2>3, InvParts, OnePage, ZenonT(40)
  <2>5. RefsExact' /\ MapsOnce'
    <3>1. \A t \in Spaces, q \in Pages : leaf'[t][q].frame = leaf[t][q].frame
      BY <2>3, <2>4, Zenon
    <3> QED BY <1>1, <3>1, InvParts, SameFrames, Zenon
  <2>6. HasFrame'
    <3> SUFFICES ASSUME NEW t \in Spaces, NEW q \in Pages, leaf'[t][q].frame = 0
                 PROVE  leaf'[t][q] = NoLeaf
      BY Zenon DEF HasFrame
    <3> QED BY <2>2, <2>3, <2>4, InvParts, SMTT(30) DEF HasFrame
  <2>7. WriterAlone'
    <3> SUFFICES ASSUME NEW t \in Spaces, NEW q \in Pages, leaf'[t][q].write
                 PROVE  leaf'[t][q].frame \in Frames /\ refs[leaf'[t][q].frame] = 0
      BY <1>1, Zenon DEF WriterAlone
    <3>1. CASE t = s /\ q = p
      <4>1. leaf[s][p].write \/ refs[leaf[s][p].frame] = 0
        BY <2>3, <2>4, <3>1, Zenon DEF sole_owner
      <4>2. refs[leaf[s][p].frame] = 0
        BY <4>1, InvParts, Zenon DEF WriterAlone
      <4> QED BY <2>2, <2>3, <2>4, <3>1, <4>2, Zenon
    <3>2. CASE ~(t = s /\ q = p)
      BY <2>4, <3>2, InvParts, SMTT(30) DEF WriterAlone
    <3> QED BY <3>1, <3>2, Zenon
  <2>8. CowTypeOK'
    BY <1>1, <1>2, <2>4, InvParts, Zenon DEF CowTypeOK
  <2>9. PageOK(leaf'[s][p], prot'[s][p])
    BY <1>2, <2>3, <2>4, Zenon DEF PageOK
  <2>10. CowInv'
    BY <1>1, <1>2, <2>4, <2>5, <2>6, <2>7, <2>8, <2>9, PageKept, Zenon
  <2>11. \A t \in Spaces, q \in Pages : Seen(t, q)' = Seen(t, q)
    <3>1. \A t \in Spaces, q \in Pages : leaf'[t][q].frame = leaf[t][q].frame
      BY <2>3, <2>4, Zenon
    <3> QED BY <1>1, <2>6, <3>1, SeenKept, Zenon
  <2> QED BY <2>10, <2>11, Stutters, Zenon
<1> QED BY <1>3, <1>4, Zenon

\* Marking a leaf keeps what the map says of it.
LEMMA CowedPage ==
    ASSUME NEW l \in Leaf, NEW a, PageOK(l, a)
    PROVE  PageOK(cow_flags(l), a)
BY CowFlags, Zenon DEF PageOK

\* A fork that fails leaves some leaves of the parent marked.
LEMMA ForkFailsKept ==
    ASSUME CowInv, NEW s \in Spaces, forkFails(s)
    PROVE  CowInv' /\ MemStep
<1>0. PICK S : SetSpace(s, Cowed(s, S))
  BY Zenon DEF forkFails, SetSpace
<1> DEFINE m == Cowed(s, S)
<1>1. /\ s \in alive /\ SetSpace(s, m)
      /\ alive' = alive /\ prot' = prot /\ refs' = refs /\ free' = free /\ data' = data
  BY <1>0, Zenon DEF forkFails
<1>2. \A q \in Pages : leaf[s][q] \in Leaf
  BY InvParts, LeafTypes, Zenon
<1>3. /\ m \in [Pages -> Leaf]
      /\ \A q \in Pages : m[q] = cow_flags(leaf[s][q]) \/ m[q] = leaf[s][q]
  <2>1. \A q \in Pages : cow_flags(leaf[s][q]) \in Leaf
    BY <1>2, CowFlags, Zenon
  <2> QED BY <1>2, <2>1, Zenon DEF Cowed
<1> HIDE DEF m
<1>4. /\ leaf' \in [Spaces -> [Pages -> Leaf]] /\ leaf'[s] = m
      /\ \A t \in Spaces : t # s => leaf'[t] = leaf[t]
  BY <1>1, <1>3, InvParts, OneSpace, ZenonT(40)
<1>5. ASSUME NEW q \in Pages
      PROVE  /\ leaf'[s][q].frame = leaf[s][q].frame
             /\ leaf'[s][q].write => leaf[s][q].write
             /\ leaf'[s][q].write \/ leaf'[s][q].cow <=> leaf[s][q].write \/ leaf[s][q].cow
             /\ leaf[s][q] = NoLeaf => leaf'[s][q] = NoLeaf
             /\ \A a : PageOK(leaf[s][q], a) => PageOK(leaf'[s][q], a)
  <2>1. CASE leaf'[s][q] = leaf[s][q]
    BY <2>1, ZenonT(40)
  <2>2. CASE leaf'[s][q] = cow_flags(leaf[s][q])
    BY <1>2, <2>2, CowFlags, CowedPage, SMTT(30)
  <2> QED BY <1>3, <1>4, <2>1, <2>2, Zenon
<1>6. \A t \in Spaces, q \in Pages :
        /\ leaf'[t][q].frame = leaf[t][q].frame
        /\ leaf'[t][q].write => leaf[t][q].write
        /\ leaf[t][q] = NoLeaf => leaf'[t][q] = NoLeaf
  BY <1>4, <1>5, Zenon
<1>7. RefsExact' /\ MapsOnce'
  BY <1>1, <1>6, InvParts, SameFrames, ZenonT(40)
<1>8. HasFrame' /\ WriterAlone'
  BY <1>1, <1>6, InvParts, SMTT(30) DEF HasFrame, WriterAlone
<1>9. CowTypeOK'
  BY <1>1, <1>4, InvParts, Zenon DEF CowTypeOK
<1> DEFINE U == {s}
<1>10. U \in SUBSET Spaces /\ \A u \in U : SpaceOK(u)'
  <2>1. /\ Scratch \in Pages /\ leaf[s][Scratch].frame \in Frames /\ refs[leaf[s][Scratch].frame] = 0
    BY <1>1, ScratchAlone, Zenon
  <2>2. SpaceOK(s)
    BY SpacesAre, Zenon
  <2>3. \A q \in Pages : PageOK(leaf'[s][q], prot'[s][q])
    BY <1>1, <1>5, <2>2, Zenon DEF SpaceOK
  <2>4. leaf'[s][Scratch] # NoLeaf
    <3>1. leaf'[s][Scratch].frame # NoLeaf.frame
      BY <1>5, <2>1, InvParts DEF NoLeaf
    <3> QED BY <3>1, Zenon
  <2>5. leaf'[s][Scratch].write \/ (leaf'[s][Scratch].cow /\ refs'[leaf'[s][Scratch].frame] = 0)
    <3>1. leaf[s][Scratch].write \/ leaf[s][Scratch].cow
      BY <1>1, <2>2, Zenon DEF SpaceOK
    <3> QED BY <1>1, <1>5, <2>1, <3>1, Zenon
  <2>6. s \in alive' /\ prot'[s][Scratch] = "rw"
    BY <1>1, <2>2, Zenon DEF SpaceOK
  <2> QED BY <2>3, <2>4, <2>5, <2>6, Zenon DEF SpaceOK
<1>11. \A u \in Spaces \ U :
         /\ u \in alive' <=> u \in alive
         /\ leaf'[u] = leaf[u] /\ prot'[u] = prot[u]
         /\ leaf[u][Scratch].frame \in Frames /\ refs[leaf[u][Scratch].frame] = 0 =>
              refs'[leaf[u][Scratch].frame] = 0
  BY <1>1, <1>4, Zenon
<1> HIDE DEF U
<1>12. CowInv'
  BY <1>7, <1>8, <1>9, <1>10, <1>11, InvKept, Zenon
<1>13. \A t \in Spaces, q \in Pages : Seen(t, q)' = Seen(t, q)
  BY <1>1, <1>6, <1>8, SeenKept, Zenon
<1> QED BY <1>12, <1>13, Stutters, Zenon


\* Changing two spaces.
SetSpaces(s, t, m, n) == leaf' = [leaf EXCEPT ![s] = m, ![t] = n]

LEMMA TwoSpaces ==
    ASSUME CowTypeOK, NEW s \in Spaces, NEW t \in Spaces, s # t,
           NEW m \in [Pages -> Leaf], NEW n \in [Pages -> Leaf], SetSpaces(s, t, m, n)
    PROVE  /\ leaf' \in [Spaces -> [Pages -> Leaf]] /\ leaf'[s] = m /\ leaf'[t] = n
           /\ \A u \in Spaces \ {s, t} : leaf'[u] = leaf[u]
BY DEF CowTypeOK, SetSpaces

\* The scratch page of a fork, for parent or child.
OwnPage(s, f) == [cow_flags(leaf[s][Scratch]) EXCEPT !.frame = f, !.cow = FALSE, !.write = TRUE]

\* The leaves of parent or child after a fork.
OwnSpace(s, f) == [Cowed(s, Present(s)) EXCEPT ![Scratch] = OwnPage(s, f)]

\* The pages of parent and child.
LEMMA OwnSpaceIs ==
    ASSUME CowInv, NEW s \in alive, NEW f \in Frames
    PROVE  /\ OwnSpace(s, f) \in [Pages -> Leaf]
           /\ \A q \in Pages \ {Scratch} : OwnSpace(s, f)[q] = cow_flags(leaf[s][q])
           /\ OwnSpace(s, f)[Scratch].frame = f /\ OwnSpace(s, f)[Scratch].write
           /\ ~OwnSpace(s, f)[Scratch].none
<1>1. s \in Spaces /\ Scratch \in Pages /\ ~leaf[s][Scratch].none
  BY ScratchAlone, Zenon
<1>2. \A q \in Pages : /\ leaf[s][q] \in Leaf /\ cow_flags(leaf[s][q]) \in Leaf
                       /\ leaf[s][q] = NoLeaf => cow_flags(leaf[s][q]) = NoLeaf
                       /\ cow_flags(leaf[s][q]).none = leaf[s][q].none
  BY <1>1, InvParts, LeafTypes, CowFlags
<1>3. ASSUME NEW q \in Pages
      PROVE  Cowed(s, Present(s))[q] = cow_flags(leaf[s][q])
  <2>1. CASE leaf[s][q] = NoLeaf
    BY <1>2, <2>1, Zenon DEF Cowed, Present
  <2>2. CASE leaf[s][q] # NoLeaf
    BY <2>2, Zenon DEF Cowed, Present
  <2> QED BY <2>1, <2>2, Zenon
<1>4. Cowed(s, Present(s)) \in [Pages -> Leaf]
  BY <1>2, Zenon DEF Cowed
<1>5. /\ OwnPage(s, f) \in Leaf /\ OwnPage(s, f).frame = f /\ OwnPage(s, f).write
      /\ ~OwnPage(s, f).none
  <2> DEFINE l == cow_flags(leaf[s][Scratch])
  <2>1. l \in Leaf /\ ~l.none
    BY <1>1, <1>2
  <2>2. OwnPage(s, f) = [l EXCEPT !.frame = f, !.cow = FALSE, !.write = TRUE]
    BY Zenon DEF OwnPage
  <2> HIDE DEF l
  <2> QED BY <2>1, <2>2, Zenon DEF Leaf
<1>6. /\ OwnSpace(s, f) \in [Pages -> Leaf] /\ OwnSpace(s, f)[Scratch] = OwnPage(s, f)
      /\ \A q \in Pages \ {Scratch} : OwnSpace(s, f)[q] = Cowed(s, Present(s))[q]
  <2> DEFINE m == Cowed(s, Present(s))
             l == OwnPage(s, f)
  <2>1. m \in [Pages -> Leaf] /\ l \in Leaf /\ OwnSpace(s, f) = [m EXCEPT ![Scratch] = l]
    BY <1>4, <1>5, Zenon DEF OwnSpace
  <2> HIDE DEF m, l
  <2>2. OwnSpace(s, f) \in [Pages -> Leaf] /\ OwnSpace(s, f)[Scratch] = l /\ \A q \in Pages \ {Scratch} : OwnSpace(s, f)[q] = m[q]
    BY <1>1, <2>1
  <2> QED BY <2>2, Zenon DEF m, l
<1> QED BY <1>3, <1>5, <1>6, Zenon

\* What fork does, as the scratch page is always copied.
LEMMA ForkDoes ==
    ASSUME CowInv, NEW s \in Spaces, NEW t \in Spaces, fork(s, t),
           NEW old, old = leaf[s][Scratch].frame, NEW new, new = Min(free)
    PROVE  /\ s \in alive /\ t \notin alive /\ Shared(s) = Present(s) /\ free # {}
           /\ alive' = alive \cup {t} /\ prot' = [prot EXCEPT ![t] = prot[s]]
           /\ SetSpaces(s, t, OwnSpace(s, old), OwnSpace(s, new))
           /\ ForkCounts(s, old)
           /\ free' = free \ {new} /\ data' = [data EXCEPT ![new] = data[old]]
<1>1. s \in alive /\ t \notin alive /\ Shared(s) = Present(s)
  BY Zenon DEF fork
<1>2. Copies(s) /\ Scratch \in Pages /\ Scratch \in Present(s)
  <2>1. leaf[s][Scratch] # NoLeaf /\ Scratch \in Pages
    BY <1>1, SpacesAre, ScratchAlone, Zenon DEF SpaceOK
  <2> QED BY <1>1, <2>1, ScratchAlone, Zenon DEF Present
<1>3. Cowed(s, Present(s))[Scratch] = cow_flags(leaf[s][Scratch])
  BY <1>2, Zenon DEF Cowed
<1>4. /\ free # {} /\ alive' = alive \cup {t} /\ prot' = [prot EXCEPT ![t] = prot[s]]
      /\ free' = free \ {new} /\ data' = [data EXCEPT ![new] = data[old]]
  BY <1>2, Zenon DEF fork
<1>5. ForkCounts(s, old)
  BY <1>2 DEF fork, ForkCounts
<1>6. SetSpaces(s, t, OwnSpace(s, old), OwnSpace(s, new))
  BY <1>2, <1>3 DEF fork, SetSpaces, OwnSpace, OwnPage
<1> QED BY <1>1, <1>4, <1>5, <1>6, Zenon

\* A fork shares every page but the scratch page, which the child gets a copy of.
LEMMA ForkKept ==
    ASSUME CowInv, NEW s \in Spaces, NEW t \in Spaces, fork(s, t)
    PROVE  CowInv' /\ MemStep
<1> DEFINE old == leaf[s][Scratch].frame
           new == Min(free)
<1>0. old = leaf[s][Scratch].frame /\ new = Min(free)
  BY Zenon
<1> HIDE DEF old, new
<1>1. /\ s \in alive /\ t \in Spaces \ alive /\ Shared(s) = Present(s) /\ free # {}
      /\ alive' = alive \cup {t} /\ free' = free \ {new}
  BY <1>0, ForkDoes, Zenon
<1>a. SetSpaces(s, t, OwnSpace(s, old), OwnSpace(s, new))
  BY <1>0, ForkDoes, Zenon
<1>b. ForkCounts(s, old)
  BY <1>0, ForkDoes
<1>c. prot' = [prot EXCEPT ![t] = prot[s]] /\ data' = [data EXCEPT ![new] = data[old]]
  BY <1>0, ForkDoes
<1>2. s # t /\ old \in Frames /\ new \in free /\ new \in Frames /\ Scratch \in Pages
  BY <1>0, <1>1, InvParts, NewFrame, ScratchAlone, Zenon
<1>3. /\ prot' \in [Spaces -> [Pages -> Accesses]] /\ prot'[t] = prot[s]
      /\ \A u \in Spaces : u # t => prot'[u] = prot[u]
  <2>1. prot \in [Spaces -> [Pages -> Accesses]]
    BY InvParts, Zenon DEF CowTypeOK
  <2> QED BY <1>c, <2>1
<1>4. data' \in [Frames -> Values \cup {Zero}]
  BY <1>2, <1>c, InvParts
<1>5. ASSUME NEW f \in {old, new}
      PROVE  /\ OwnSpace(s, f) \in [Pages -> Leaf]
             /\ \A q \in Pages \ {Scratch} : OwnSpace(s, f)[q] = cow_flags(leaf[s][q])
             /\ OwnSpace(s, f)[Scratch].frame = f /\ OwnSpace(s, f)[Scratch].write
             /\ ~OwnSpace(s, f)[Scratch].none
  <2>1. f \in Frames
    BY <1>2, Zenon
  <2> QED BY <1>1, <2>1, OwnSpaceIs, Zenon
<1>6. /\ leaf' \in [Spaces -> [Pages -> Leaf]]
      /\ leaf'[s] = OwnSpace(s, old) /\ leaf'[t] = OwnSpace(s, new)
      /\ \A u \in Spaces \ {s, t} : leaf'[u] = leaf[u]
  <2>1. OwnSpace(s, old) \in [Pages -> Leaf] /\ OwnSpace(s, new) \in [Pages -> Leaf]
    BY <1>5, Zenon
  <2> QED BY <1>2, <1>a, <2>1, InvParts, TwoSpaces, SMTT(30)
<1>7. /\ \A q \in Pages \ {Scratch} :
           leaf'[s][q] = cow_flags(leaf[s][q]) /\ leaf'[t][q] = cow_flags(leaf[s][q])
      /\ leaf'[s][Scratch].frame = old /\ leaf'[t][Scratch].frame = new
      /\ leaf'[s][Scratch].write /\ leaf'[t][Scratch].write
      /\ ~leaf'[s][Scratch].none /\ ~leaf'[t][Scratch].none
      /\ \A u \in Spaces \ {s, t}, q \in Pages : leaf'[u][q] = leaf[u][q]
  BY <1>5, <1>6, Zenon
<1>8. \A q \in Pages : leaf[s][q].frame \in Frames => refs[leaf[s][q].frame] + 1 < MaxRefs
  <2> SUFFICES ASSUME NEW q \in Pages, leaf[s][q].frame \in Frames
               PROVE  CanShare(leaf[s][q].frame)
    BY Zenon DEF CanShare
  <2>1. q \in Present(s)
    BY InvParts, Presence, Zenon DEF Present
  <2>2. q <= q
    BY SpaceAssumption
  <2> QED BY <1>1, <2>1, <2>2, Zenon DEF Shared
<1>9. /\ RefsExact' /\ HasFrame' /\ MapsOnce' /\ WriterAlone'
      /\ free' \subseteq Frames /\ refs' \in [Frames -> 0..MaxRefs]
      /\ \A u \in Spaces \ {s, t}, q \in Pages :
           leaf[u][q].frame \in Frames /\ refs[leaf[u][q].frame] = 0 => refs'[leaf[u][q].frame] = 0
  <2>1. t \in Spaces \ alive /\ s \in alive /\ free' = free \ {new}
    BY <1>1, Zenon
  <2>2. \A u \in Spaces \ {s, t}, q \in Pages : leaf'[u][q] = leaf[u][q]
    BY <1>7, Zenon
  <2>3. /\ \A q \in Pages \ {Scratch} :
             leaf'[s][q] = cow_flags(leaf[s][q]) /\ leaf'[t][q] = cow_flags(leaf[s][q])
        /\ leaf'[s][Scratch].frame = old /\ leaf'[t][Scratch].frame = new
    BY <1>7, Zenon
  <2> QED BY <1>0, <1>2, <1>8, <1>b, <2>1, <2>2, <2>3, ForkedPages, ZenonT(40)
<1>10. CowTypeOK'
  BY <1>1, <1>3, <1>4, <1>6, <1>9, InvParts, Zenon DEF CowTypeOK
<1> DEFINE U == {s, t}
<1>11. U \in SUBSET Spaces /\ \A u \in U : SpaceOK(u)'
  <2>1. SpaceOK(s)
    BY SpacesAre, Zenon
  <2> SUFFICES ASSUME NEW u \in {s, t} PROVE SpaceOK(u)'
    BY Zenon
  <2>2. u \in alive' /\ prot'[u] = prot[s]
    BY <1>1, <1>2, <1>3, Zenon
  <2>3. prot'[u][Scratch] = "rw"
    BY <2>1, <2>2, Zenon DEF SpaceOK
  <2>4. leaf'[u][Scratch].write /\ ~leaf'[u][Scratch].none
    BY <1>7, Zenon
  <2>5. leaf'[u][Scratch] # NoLeaf
    BY <2>4 DEF NoLeaf
  <2>6. ASSUME NEW q \in Pages PROVE PageOK(leaf'[u][q], prot'[u][q])
    <3>1. CASE q = Scratch
      BY <2>3, <2>4, <3>1, Zenon DEF PageOK
    <3>2. CASE q # Scratch
      <4>1. leaf'[u][q] = cow_flags(leaf[s][q]) /\ leaf[s][q] \in Leaf
        BY <1>7, <3>2, InvParts, LeafTypes, ZenonT(40)
      <4>2. PageOK(leaf[s][q], prot[s][q])
        BY <1>1, <2>1, Zenon DEF SpaceOK
      <4>3. PageOK(cow_flags(leaf[s][q]), prot[s][q])
        BY <4>1, <4>2, CowedPage, Zenon
      <4> QED BY <2>2, <4>1, <4>3, Zenon
    <3> QED BY <3>1, <3>2, Zenon
  <2> QED BY <2>2, <2>3, <2>4, <2>5, <2>6, Zenon DEF SpaceOK
<1>12. \A u \in Spaces \ U :
         /\ u \in alive' <=> u \in alive
         /\ leaf'[u] = leaf[u] /\ prot'[u] = prot[u]
         /\ leaf[u][Scratch].frame \in Frames /\ refs[leaf[u][Scratch].frame] = 0 =>
              refs'[leaf[u][Scratch].frame] = 0
  BY <1>1, <1>2, <1>3, <1>6, <1>9, Zenon
<1> HIDE DEF U
<1>13. CowInv'
  BY <1>9, <1>10, <1>11, <1>12, InvKept, Zenon
<1>14. data'[new] = data[old] /\ \A g \in Frames : g # new => data'[g] = data[g]
  BY <1>2, <1>c, InvParts
<1>15. ASSUME NEW q \in Pages, q # Scratch
       PROVE  leaf'[s][q].frame = leaf[s][q].frame /\ leaf'[t][q].frame = leaf[s][q].frame
  <2>1. leaf[s][q] \in Leaf
    BY InvParts, LeafTypes, Zenon
  <2> QED BY <1>7, <1>15, <2>1, CowFlags, ZenonT(40)
<1>16. \A u \in Spaces, q \in Pages : u # t => leaf'[u][q].frame = leaf[u][q].frame
  BY <1>0, <1>7, <1>15, Zenon
<1>17. \A u \in Spaces, q \in Pages : u # t => Seen(u, q)' = Seen(u, q)
  BY <1>2, <1>9, <1>14, <1>16, SeenBut, Zenon
<1>18. ASSUME NEW q \in Pages PROVE Seen(t, q)' = Seen(s, q)
  <2>1. CASE q = Scratch
    <3>1. leaf'[t][q].frame # 0 /\ leaf[s][q].frame # 0
      BY <1>0, <1>2, <1>7, <2>1, InvParts, Zenon
    <3>2. data'[leaf'[t][q].frame] = data[leaf[s][q].frame]
      BY <1>0, <1>7, <1>14, <2>1, Zenon
    <3> QED BY <1>9, <3>1, <3>2, SeenAs, Zenon
  <2>2. CASE q # Scratch
    <3>1. leaf'[t][q].frame = leaf[s][q].frame
      BY <1>15, <2>2, Zenon
    <3>2. leaf[s][q].frame # 0 => leaf[s][q].frame \in Frames /\ leaf[s][q].frame # new
      BY <1>2, InvParts, LeafTypes, FreeUnmapped, Zenon
    <3> QED BY <1>9, <1>14, <3>1, <3>2, SeenAs, ZenonT(40)
  <2> QED BY <2>1, <2>2, Zenon
<1>19. \A q \in Pages : Seen(t, q) = Absent
  <2>1. \A q \in Pages : leaf[t][q] = NoLeaf
    BY <1>1, SpacesAre, Zenon DEF SpaceOK
  <2> QED BY <2>1, SeenIs, Zenon
<1>20. MemStep
  BY <1>17, <1>18, <1>19, ChangesSpace, Zenon
<1> QED BY <1>13, <1>20, Zenon

-----------------------------------------------------------------------------
(* The theorems.                                                           *)

\* The invariant holds at boot.
LEMMA InvInit == CowInit => CowInv
<1> SUFFICES ASSUME CowInit PROVE CowInv
  BY Zenon
<1>1. /\ alive = {} /\ free = Frames /\ refs = [f \in Frames |-> 0]
      /\ data = [f \in Frames |-> Zero]
      /\ \A s \in Spaces, p \in Pages : leaf[s][p] = NoLeaf /\ prot[s][p] = "rw"
  BY Zenon DEF CowInit
<1>2. NoLeaf \in Leaf /\ NoLeaf.frame = 0 /\ ~NoLeaf.write /\ 0 \notin Frames /\ Scratch \in Pages
  BY FrameAssumption, SpaceAssumption DEF NoLeaf, Leaf
<1>3. CowTypeOK
  <2>1. leaf \in [Spaces -> [Pages -> Leaf]] /\ prot \in [Spaces -> [Pages -> Accesses]]
    BY <1>2, ValueAssumption, Zenon DEF CowInit
  <2>2. refs \in [Frames -> 0..MaxRefs] /\ data \in [Frames -> Values \cup {Zero}]
    BY <1>1, FrameAssumption
  <2> QED BY <1>1, <2>1, <2>2, Zenon DEF CowTypeOK
<1>4. RefsExact
  <2>1. \A f \in Frames : Mappers(f) = {}
    BY <1>1, <1>2 DEF Mappers
  <2> QED BY <1>1, <2>1, Zenon DEF RefsExact
<1>5. HasFrame /\ MapsOnce /\ WriterAlone
  BY <1>1, <1>2, Zenon DEF HasFrame, MapsOnce, WriterAlone
<1>6. SpacesSound /\ WriteAllowed /\ ScratchNeedsNoFrame
  BY <1>1, <1>2, Zenon DEF SpacesSound, WriteAllowed, ScratchNeedsNoFrame
<1> QED BY <1>3, <1>4, <1>5, <1>6, Zenon DEF CowInv

\* Every step keeps it, and is a step of PrivateMemory or changes nothing there.
LEMMA InvStep == CowInv /\ [CowNext]_cowVars => CowInv' /\ MemStep
<1> SUFFICES ASSUME CowInv, [CowNext]_cowVars PROVE CowInv' /\ MemStep
  BY Zenon
<1>1. CASE UNCHANGED cowVars
  <2>1. alive' = alive /\ leaf' = leaf /\ prot' = prot /\ refs' = refs /\ free' = free /\ data' = data
    BY <1>1, Zenon DEF cowVars
  <2>2. RefsExact' /\ MapsOnce'
    BY <2>1, InvParts, SameFrames, Zenon
  <2>3. CowTypeOK' /\ HasFrame' /\ WriterAlone' /\ SpacesSound'
    BY <2>1, ZenonT(40) DEF CowInv, CowTypeOK, HasFrame, WriterAlone, SpacesSound
  <2>4. WriteAllowed' /\ ScratchNeedsNoFrame'
    BY <2>1, Zenon DEF CowInv, WriteAllowed, ScratchNeedsNoFrame, sole_owner
  <2>5. MemStep
    BY <2>1, Zenon DEF MemStep, mem
  <2> QED BY <2>2, <2>3, <2>4, <2>5, Zenon DEF CowInv
<1>2. CASE CowNext
  <2>1. PICK s \in Spaces :
          \/ \E p \in Pages :
               \/ try_fill_anon(s, p) \/ try_resolve_cow(s, p) \/ munmap(s, p)
               \/ \E v \in Values : Store(s, p, v)
               \/ \E new \in Accesses : do_mprotect(s, p, new)
          \/ \E t \in Spaces : fork(s, t)
          \/ forkFails(s) \/ teardown(s) \/ exec(s)
    BY <1>2, Zenon DEF CowNext
  <2>2. CASE \E p \in Pages : try_fill_anon(s, p) \/ try_resolve_cow(s, p) \/ munmap(s, p)
    BY <2>2, FillKept, ResolveKept, MunmapKept, Zenon
  <2>3. CASE \E p \in Pages, v \in Values : Store(s, p, v)
    BY <2>3, StoreKept, Zenon
  <2>4. CASE \E p \in Pages, new \in Accesses : do_mprotect(s, p, new)
    BY <2>4, MprotectKept, Zenon
  <2>5. CASE \E t \in Spaces : fork(s, t)
    BY <2>5, ForkKept, Zenon
  <2>6. CASE forkFails(s) \/ teardown(s) \/ exec(s)
    BY <2>6, ForkFailsKept, TeardownKept, ExecKept, Zenon
  <2> QED BY <2>1, <2>2, <2>3, <2>4, <2>5, <2>6, Zenon
<1> QED BY <1>1, <1>2, Zenon

\* The invariant holds of every reachable state.
THEOREM CowInvariant == CowSpec => []CowInv
<1>1. CowInv /\ [CowNext]_cowVars => CowInv'
  BY InvStep, Zenon
<1> QED BY <1>1, InvInit, PTL DEF CowSpec

\* A frame is free when no leaf maps it, and otherwise counted once less than
\* it is mapped: forks that fail, exits and protections included.
THEOREM FramesAlwaysCounted == CowSpec => []RefsExact
<1>1. CowInv => RefsExact
  BY Zenon DEF CowInv
<1> QED BY <1>1, CowInvariant, PTL

\* A write the map allows goes through or faults to a copy, and that of the
\* scratch page needs no frame.
THEOREM WritesAlwaysGoThrough == CowSpec => []WritesGoThrough
<1>1. CowInv => WritesGoThrough
  BY Zenon DEF CowInv, WritesGoThrough
<1> QED BY <1>1, CowInvariant, PTL

\* PrivateSpec: every address space has memory of its own, which a fork copies;
\* that frames are shared until they are written, and counted, cannot be seen.
THEOREM MemoryAlwaysPrivate == CowSpec => PrivateSpec
<1>1. CowInit => Private!Init
  <2> SUFFICES ASSUME CowInit PROVE Private!Init
    BY Zenon
  <2>1. \A s \in Spaces, p \in Pages : Seen(s, p) = Absent
    BY Zenon DEF CowInit, Seen
  <2>2. mem = [s \in Spaces |-> [p \in Pages |-> Seen(s, p)]]
    BY Zenon DEF mem, Seen
  <2> QED BY <2>1, <2>2 DEF Private!Init
<1>2. CowInv /\ [CowNext]_cowVars => [Private!Next]_mem
  BY InvStep, Zenon DEF MemStep
<1> QED BY <1>1, <1>2, CowInvariant, PTL DEF CowSpec, PrivateSpec, Private!Spec
=============================================================================
