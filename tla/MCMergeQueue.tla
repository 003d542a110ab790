---------------------------- MODULE MCMergeQueue ----------------------------
(* Small instances of MergeQueue for TLC. *)
EXTENDS MergeQueue
=============================================================================
