---------------------------- MODULE MCTrxRegion ----------------------------
(* Two transactions of one TM.                                             *)
EXTENDS TrxRegion, TLC

CONSTANTS a, b, tm1, a1, b1

MCTid == {a, b}
MCTidOne == {a}
MCTm == {tm1}
MCTSOnce == {a1, b1}
MCTSOne == {a1}
MCTxIdOnce == (a1 :> a) @@ (b1 :> b)
MCTxIdOne == a1 :> a
MCTmId == (a :> tm1) @@ (b :> tm1)
MCTmIdOne == a :> tm1
MCRow == {1, 2}
MCOneRow == {1}

\* The transactions are interchangeable when each has one object.
TransactionSymmetry ==
    {f \in Permutations({a, b, a1, b1}) :
        \A h \in MCTSOnce : /\ f[h] \in MCTSOnce
                            /\ MCTxIdOnce[f[h]] = f[MCTxIdOnce[h]]}
=============================================================================
