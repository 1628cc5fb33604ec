--------------------------- MODULE MCDtmRecovery ---------------------------
(***************************************************************************)
(* Instances of DtmRecovery: one TM, and transactions with a branch in     *)
(* every region.                                                           *)
(***************************************************************************)
EXTENDS DtmRecovery, TLC

CONSTANTS a, b   \* transactions

MCTmOf == [t \in Txns |-> CHOOSE m \in TMs : TRUE]
MCBranches == [t \in Txns |-> Regions]

\* Nothing tells two transactions of the same TM apart.
TransactionSymmetry == Permutations(Txns)
============================================================================
