----------------------------- MODULE MCSimDisk -----------------------------
(* One disk with three keys, for TLC. *)
EXTENDS SimDisk
=============================================================================
