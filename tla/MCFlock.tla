------------------------------ MODULE MCFlock -------------------------------
(* Three processes with a description of a file each. *)
EXTENDS Flock

Alone == [t \in Pids |-> t]
=============================================================================
