----------------------------- MODULE TxnOutcome -----------------------------
(***************************************************************************)
(* What a transaction promises to the application and to the regions that  *)
(* take part in it: one decision, a commit only after every region has     *)
(* prepared, regions that are told nothing but the decision, and an answer *)
(* to ENDTRANSACTION that agrees with it.                                  *)
(***************************************************************************)
CONSTANTS Answers,          \* the codes ENDTRANSACTION can be answered with
          MeansCommit(_),   \* the code says that the transaction committed
          MeansAbort(_)     \* the code says that it was aborted

VARIABLES prepared,   \* every region has voted to commit
          decision,   \* "none", "commit" or "abort"
          told,       \* what the regions have been told: a subset of decisions
          answers     \* the codes that have been returned

Decisions == {"commit", "abort"}

\* A code that may be returned once the decision is d.
Agrees(code, d) ==
    /\ MeansCommit(code) => d = "commit"
    /\ MeansAbort(code) => d = "abort"

Init ==
    /\ prepared = FALSE
    /\ decision = "none"
    /\ told = {}
    /\ answers = {}

Prepare ==
    /\ decision = "none"
    /\ prepared' = TRUE
    /\ UNCHANGED <<decision, told, answers>>

\* The decision falls once.  The answer may go out with it.
Decide ==
    /\ decision = "none"
    /\ decision' \in (IF prepared THEN Decisions ELSE {"abort"})
    /\ \/ UNCHANGED answers
       \/ \E code \in Answers :
             Agrees(code, decision') /\ answers' = answers \cup {code}
    /\ UNCHANGED <<prepared, told>>

\* The regions are told the decision, for the first time or again, and the
\* answer may go out with it.
Tell ==
    /\ decision # "none"
    /\ told' = told \cup {decision}
    /\ \/ UNCHANGED answers
       \/ \E code \in Answers :
             Agrees(code, decision) /\ answers' = answers \cup {code}
    /\ UNCHANGED <<prepared, decision>>

\* An answer without telling the regions: there may be none to tell.
Answer ==
    /\ \E code \in Answers :
          /\ Agrees(code, decision)
          /\ answers' = answers \cup {code}
    /\ UNCHANGED <<prepared, decision, told>>

Next == Prepare \/ Decide \/ Tell \/ Answer

vars == <<prepared, decision, told, answers>>

Spec == Init /\ [][Next]_vars
=============================================================================
