------------------------------ MODULE MCTmTxn ------------------------------
\* Instances of TmTxn for TLC: one transaction and the requests around it.
EXTENDS TmTxn
=============================================================================
