------------------------------ MODULE MCFsLock ------------------------------
(* The filesystem lock with a few processes; see the MCFsLock*.cfg files. *)
EXTENDS FsLock
=============================================================================
