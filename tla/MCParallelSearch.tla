-------------------------- MODULE MCParallelSearch --------------------------
(* Instances of ParallelSearch for TLC. *)
EXTENDS ParallelSearch
=============================================================================
