---------------------------- MODULE MCTrxClient ----------------------------
(* Instances of TrxClient for TLC.                                         *)
EXTENDS TrxClient, TLC

MCCallerTM == {"TM"}
MCCallerAll == {"TM", "tryCommit"}

\* Regions are interchangeable.
RegionSymmetry == Permutations(Region)
=============================================================================
