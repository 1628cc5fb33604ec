---------------------------- MODULE MCTmThreads ----------------------------
(* Instances of TmThreads for TLC.                                         *)
EXTENDS TmThreads
=============================================================================
