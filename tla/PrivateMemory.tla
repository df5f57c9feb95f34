--------------------------- MODULE PrivateMemory ----------------------------
(***************************************************************************)
(* What fork promises: each address space has memory of its own.  A child  *)
(* begins with a copy of all its parent has, and what one writes no other  *)
(* sees.                                                                   *)
(***************************************************************************)
CONSTANTS Spaces, Pages, Values, Absent, Zero

VARIABLE mem    \* mem[s][p] is a value, or Absent

Empty == [p \in Pages |-> Absent]

Init == mem \in [Spaces -> [Pages -> {Absent}]]

Fill(s, p) == mem[s][p] = Absent /\ mem' = [mem EXCEPT ![s][p] = Zero]
Write(s, p, v) == mem[s][p] # Absent /\ mem' = [mem EXCEPT ![s][p] = v]
Unmap(s, p) == mem' = [mem EXCEPT ![s][p] = Absent]
Fork(s, t) == mem[t] = Empty /\ mem' = [mem EXCEPT ![t] = mem[s]]
Exit(s) == mem' = [mem EXCEPT ![s] = Empty]

Next == \E s \in Spaces :
    \/ \E p \in Pages : Fill(s, p) \/ Unmap(s, p) \/ \E v \in Values : Write(s, p, v)
    \/ \E t \in Spaces : Fork(s, t)
    \/ Exit(s)

Spec == Init /\ [][Next]_mem
=============================================================================
