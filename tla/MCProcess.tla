----------------------------- MODULE MCProcess -----------------------------
(* Processes under the workloads of the MCProcess*.cfg files. *)
EXTENDS Process
=============================================================================
