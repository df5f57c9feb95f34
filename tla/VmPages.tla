------------------------------ MODULE VmPages -------------------------------
(***************************************************************************)
(* What the map of a user address space promises: a set of pages, each     *)
(* with what it holds and how it may be used.  contents has a pair <<page, *)
(* attributes>> for each mapped page.                                      *)
(***************************************************************************)
CONSTANTS
    Ranges,     \* the sets of pages an operation may be about
    Prots

VARIABLE contents

PagesIn(C) == {c[1] : c \in C}
Held(S) == {c \in contents : c[1] \in S}

\* Free pages get contents: a new mapping, growth of the heap or the stack.
Map(S) ==
    /\ Held(S) = {} /\ contents \subseteq contents'
    /\ PagesIn(contents' \ contents) = S
    /\ \A c, d \in contents' \ contents : c[1] = d[1] => c = d

\* The pages of a range are given up.
Unmap(S) == contents' = contents \ Held(S)

\* The pages of a range, all of them mapped, change their protection.
Protect(S, prot) ==
    /\ S \subseteq PagesIn(contents)
    /\ \A c \in Held(S) : prot \subseteq c[2].max
    /\ contents' = (contents \ Held(S)) \cup
                   {<<c[1], [c[2] EXCEPT !.prot = prot]>> : c \in Held(S)}

Init == contents = {}

Next ==
    \E S \in Ranges :
        Map(S) \/ Unmap(S) \/ \E prot \in SUBSET Prots : Protect(S, prot)

Spec == Init /\ [][Next]_contents
=============================================================================
