-------------------------- MODULE TrxClientProofs --------------------------
(***************************************************************************)
(* Theorems about module TrxClient, for every finite set of regions and    *)
(* every value of RETRY_ATTEMPTS and of the bounds: the type invariant,    *)
(* that phase two needs every vote, that a region left out of it has       *)
(* forgotten the transaction, and that completeRequest returns normally    *)
(* only after every reply.                                                 *)
(*                                                                         *)
(* The last one is about counters.  Workers count their replies while the  *)
(* TM thread still sends requests, so CountInv relates the counters to the *)
(* sets of requests sent and replies counted by their cardinalities, and   *)
(* WaitInv follows the TM thread: the number of requests is recorded       *)
(* before it waits, and it is woken by an error or by the last reply.      *)
(***************************************************************************)
EXTENDS TrxClient, FiniteSetTheorems, TLAPS

\* A worker publishes its vote when it returns; prepareCommit has taken
\* published votes only, and what it remembers of them is right.
VoteInv ==
    /\ pc = "working" => \A r \in Region : prepare[r] = "no"
    /\ \A r \in Region : vote[r] # "none" => prepare[r] = "returned"
    /\ \A r \in taken : vote[r] \in Vote
    /\ commitError = "none" => \A r \in taken : vote[r] \in {"OK", "READ_ONLY"}
    /\ ~allReadOnly => \E r \in taken : vote[r] = "OK"
    /\ pc = "commit" \/ command = "COMMIT" =>
           taken = Region /\ commitError = "none" /\ ~allReadOnly

\* Forgotten transactions stay forgotten, and every answer that leads to
\* addRegionToIgnore comes from a region that has forgotten it.
IgnoreInv ==
    \A r \in Region :
        r \in regionsToIgnore \/ prepare[r] \in Vote \ {"OK"} =>
            region[r] \in {"COMMITED", "ABORTED"}

\* The regions with a request of the first drive, and those whose reply has
\* been counted.
Sent == {r \in Region : request[<<1, r>>] # "no"}
Counted == {r \in Region : request[<<1, r>>] \in {"replied", "failed"}}

CountInv ==
    /\ drive = 0 =>
           /\ requestReceivedCount = 0
           /\ \A q \in Request : request[q] = "no"
    /\ drive = 1 =>
           /\ requestReceivedCount = Cardinality(Counted)
           /\ loopCount = Cardinality(Sent)
           /\ \A q \in Request : request[q] # "no" => q[1] = 1
           /\ pc = "send" => \A r \in remaining : request[<<1, r>>] = "no"

WaitInv ==
    /\ pc \in {"working", "collect"} => drive = 0
    /\ pc = "send" => drive # 0
    /\ outcome # "none" => pc = "done"
    /\ caller = "TM" =>
           /\ commitSendDone => drive # 0
           /\ drive = 1 /\ commitSendDone =>
                  pc # "send" /\ requestPendingCount = loopCount
           /\ pc \in {"waiting", "woken"} => commitSendDone
           /\ pc = "woken" =>
                  hasError \/ requestReceivedCount >= requestPendingCount
           /\ drive = 1 /\ outcome = "returned" =>
                  commitSendDone /\ requestReceivedCount >= requestPendingCount

IInv == TypeOK /\ VoteInv /\ IgnoreInv /\ CountInv /\ WaitInv

----------------------------------------------------------------------------
\* What commitRequest may answer, and the status it leaves.
LEMMA VotesFacts ==
    ASSUME TypeOK, NEW r \in Region, NEW v \in Votes(r)
    PROVE  /\ v[1] \in Vote
           /\ v[2] \in {"PENDING", "COMMIT_PENDING", "COMMITED", "ABORTED"}
           /\ v[1] # "OK" => v[2] \in {"COMMITED", "ABORTED"}
           /\ region[r] \in {"COMMITED", "ABORTED"} => v[2] = region[r]
  BY DEF Votes, Vote, TypeOK

\* A bounded event is counted.
LEMMA UseType ==
    ASSUME TypeOK, NEW b \in Bounded, Use(b)
    PROVE  used' \in [Bounded -> Nat]
  BY DEF Use, TypeOK

\* requestPendingCountDec keeps the types of the variables.
LEMMA RequestPendingCountDecType ==
    ASSUME TypeOK, NEW q \in Request, NEW s \in {"replied", "failed"},
           NEW w \in BOOLEAN, RequestPendingCountDec(q, s, w), UNCHANGED used
    PROVE  TypeOK'
<1>1. hasError' \in BOOLEAN
  BY Zenon DEF RequestPendingCountDec, TypeOK
<1>2. pc' \in {pc, "woken"}
  BY DEF RequestPendingCountDec
<1>. QED
  BY <1>1, <1>2 DEF RequestPendingCountDec, TypeOK, prepareVars, collectVars

\* Every operation of the client keeps the types of the variables.
LEMMA TypeStep == TypeOK /\ [Next]_vars => TypeOK'
<1> SUFFICES ASSUME TypeOK, [Next]_vars PROVE TypeOK'
  OBVIOUS
<1> USE BoundAssumption DEF TypeOK, Vote

<1>1. CASE PrepareCommit
  BY <1>1 DEF PrepareCommit, callerVars, prepareVars, collectVars,
         workerVars, countVars
<1>2. CASE Rollback
  BY <1>2 DEF Rollback, callerVars, prepareVars, collectVars,
         workerVars, countVars
<1>3. CASE PrepareCommitReturn
  <2>1. commitSendDone' \in BOOLEAN /\ known' \in BOOLEAN
    BY <1>3 DEF PrepareCommitReturn
  <2>2. /\ pc' \in {"commit", "abort", "done"}
        /\ outcome' \in {"none", "returned", "threw"}
    BY <1>3 DEF PrepareCommitReturn
  <2>. QED
    BY <1>3, <2>1, <2>2 DEF PrepareCommitReturn, prepareVars, collectVars,
       workerVars, countVars
<1>4. ASSUME NEW r \in Region, PrepareCommitTake(r)
      PROVE  TypeOK'
  BY <1>4 DEF PrepareCommitTake, callerVars, prepareVars, collectVars,
         workerVars, countVars
<1>5. ASSUME NEW r \in Region, PrepareCommitThrow(r)
      PROVE  TypeOK'
  BY <1>5 DEF PrepareCommitThrow, callerVars, prepareVars, collectVars,
         workerVars, countVars
<1>6. ASSUME NEW r \in Region, Submit(r)
      PROVE  TypeOK'
  BY <1>6 DEF Submit, callerVars, prepareVars, collectVars,
         workerVars, countVars
<1>7. CASE DoCommit
  BY <1>7 DEF DoCommit, StartSending, callerVars, prepareVars, collectVars,
         workerVars, countVars
<1>8. CASE AbortTransaction
  BY <1>8 DEF AbortTransaction, StartSending, callerVars, prepareVars, collectVars,
         workerVars, countVars
<1>9. CASE TlogFault
  <2>1. "tlog" \in Bounded /\ Use("tlog")
    BY <1>9 DEF TlogFault, Bounded
  <2>2. used' \in [Bounded -> Nat]
    BY <2>1, UseType
  <2>. QED
    BY <1>9, <2>2 DEF TlogFault, callerVars, prepareVars, collectVars,
       workerVars, countVars
<1>10. CASE CompleteSendInvoke
  BY <1>10 DEF CompleteSendInvoke, callerVars, prepareVars, collectVars,
         workerVars, countVars
<1>11. CASE ForgottenFault
  <2>1. "tlog" \in Bounded /\ Use("tlog")
    BY <1>11 DEF ForgottenFault, Bounded
  <2>2. used' \in [Bounded -> Nat]
    BY <2>1, UseType
  <2>. QED
    BY <1>11, <2>2 DEF ForgottenFault, callerVars, prepareVars, collectVars,
       workerVars, countVars
<1>12. CASE CompleteRequest
  BY <1>12 DEF CompleteRequest, callerVars, prepareVars, collectVars,
         workerVars, countVars
<1>13. CASE CompleteRequestReturn
  BY <1>13 DEF CompleteRequestReturn, callerVars, prepareVars, collectVars,
         workerVars, countVars
<1>14. ASSUME NEW r \in Region, CommitRequest(r)
      PROVE  TypeOK'
  <2>1. PICK v \in Votes(r) :
            /\ region' = [region EXCEPT ![r] = v[2]]
            /\ prepare' \in {[prepare EXCEPT ![r] = v[1]],
                             [prepare EXCEPT ![r] = "ERROR"]}
    BY <1>14 DEF CommitRequest
  <2>2. used' \in [Bounded -> Nat]
    BY <1>14 DEF CommitRequest, Use
  <2>. QED
    BY <1>14, <2>1, <2>2, VotesFacts DEF CommitRequest, callerVars, collectVars,
       workerVars, countVars
<1>15. ASSUME NEW r \in Region, CommitRequestFault(r)
      PROVE  TypeOK'
  <2>1. "call" \in Bounded /\ Use("call")
    BY <1>15 DEF CommitRequestFault, Bounded
  <2>2. used' \in [Bounded -> Nat]
    BY <2>1, UseType
  <2>. QED
    BY <1>15, <2>2 DEF CommitRequestFault, callerVars, prepareVars, collectVars,
       workerVars, countVars
<1>16. ASSUME NEW r \in Region, DoPrepareXRetry(r)
      PROVE  TypeOK'
  BY <1>16 DEF DoPrepareXRetry, callerVars, prepareVars, collectVars,
         workerVars, countVars
<1>17. ASSUME NEW r \in Region, DoPrepareXFails(r)
      PROVE  TypeOK'
  BY <1>17 DEF DoPrepareXFails, Use, callerVars, prepareVars, collectVars,
         workerVars, countVars
<1>18. ASSUME NEW r \in Region, DoPrepareXVote(r)
      PROVE  TypeOK'
  BY <1>18 DEF DoPrepareXVote, callerVars, prepareVars, collectVars,
         workerVars, countVars
<1>19. ASSUME NEW r \in Region, LeaseExpired(r)
      PROVE  TypeOK'
  <2>1. "lapse" \in Bounded /\ Use("lapse")
    BY <1>19 DEF LeaseExpired, Bounded
  <2>2. used' \in [Bounded -> Nat]
    BY <2>1, UseType
  <2>. QED
    BY <1>19, <2>2 DEF LeaseExpired, callerVars, prepareVars, collectVars,
       workerVars, countVars
<1>20. ASSUME NEW q \in Request, Commit(q)
      PROVE  TypeOK'
  BY <1>20 DEF Commit, Execute, Use, callerVars, prepareVars, collectVars,
         workerVars, countVars
<1>21. ASSUME NEW q \in Request, CommitRefused(q)
      PROVE  TypeOK'
  <2>1. "refused" \in Bounded /\ Use("refused")
    BY <1>21 DEF CommitRefused, Bounded
  <2>2. used' \in [Bounded -> Nat]
    BY <2>1, UseType
  <2>3. region' \in [Region -> {"PENDING", "COMMIT_PENDING", "COMMITED", "ABORTED"}]
    BY <1>21 DEF CommitRefused, Request
  <2>. QED
    BY <1>21, <2>2, <2>3 DEF CommitRefused, callerVars, prepareVars, collectVars,
       workerVars, countVars
<1>22. ASSUME NEW q \in Request, Abort(q)
      PROVE  TypeOK'
  BY <1>22 DEF Abort, Execute, Use, callerVars, prepareVars, collectVars,
         workerVars, countVars
<1>23. ASSUME NEW q \in Request, CallFault(q)
      PROVE  TypeOK'
  <2>1. "call" \in Bounded /\ Use("call")
    BY <1>23 DEF CallFault, Bounded
  <2>2. used' \in [Bounded -> Nat]
    BY <2>1, UseType
  <2>. QED
    BY <1>23, <2>2 DEF CallFault, callerVars, prepareVars, collectVars,
       workerVars, countVars
<1>24. ASSUME NEW q \in Request, Retry(q)
      PROVE  TypeOK'
  BY <1>24 DEF Retry, callerVars, prepareVars, collectVars,
         workerVars, countVars
<1>25. ASSUME NEW q \in Request, WorkerDies(q)
      PROVE  TypeOK'
  <2>1. "locate" \in Bounded /\ Use("locate")
    BY <1>25 DEF WorkerDies, Bounded
  <2>2. used' \in [Bounded -> Nat]
    BY <2>1, UseType
  <2>. QED
    BY <1>25, <2>2 DEF WorkerDies, callerVars, prepareVars, collectVars,
       workerVars, countVars
<1>26. ASSUME NEW q \in Request, DoCommitXReply(q)
      PROVE  TypeOK'
  BY <1>26, RequestPendingCountDecType DEF DoCommitXReply
<1>27. ASSUME NEW q \in Request, DoAbortXReply(q)
      PROVE  TypeOK'
  BY <1>27, RequestPendingCountDecType DEF DoAbortXReply
<1>28. ASSUME NEW q \in Request, DoAbortXIgnores(q)
      PROVE  TypeOK'
  BY <1>28 DEF DoAbortXIgnores, callerVars, prepareVars, collectVars,
         workerVars, countVars
<1>29. CASE UNCHANGED vars
  BY <1>29 DEF vars, callerVars, prepareVars, collectVars,
         workerVars, countVars
<1>. QED
  BY <1>1, <1>2, <1>3, <1>4, <1>5, <1>6, <1>7, <1>8, <1>9, <1>10, <1>11,
     <1>12, <1>13, <1>14, <1>15, <1>16, <1>17, <1>18, <1>19, <1>20, <1>21,
     <1>22, <1>23, <1>24, <1>25, <1>26, <1>27, <1>28, <1>29
  DEF Next, TmThread, PrepareWorker, Worker

----------------------------------------------------------------------------
\* What the workers of phase two leave alone; a region that has forgotten
\* the transaction does not change any more.
LEMMA WorkerFrame ==
    ASSUME TypeOK, NEW q \in Request, Worker(q)
    PROVE  /\ UNCHANGED <<caller, drive, command, remaining, loopCount, outcome,
                          prepareVars, collectVars, requestPendingCount,
                          commitSendDone, regionsToIgnore>>
           /\ pc' \in {pc, "woken"}
           /\ \A r \in Region : region[r] \in {"COMMITED", "ABORTED"} =>
                                    region'[r] = region[r]
<1>1. CASE Commit(q) \/ Abort(q)
  BY <1>1 DEF Commit, Abort, Execute, TypeOK, Request, callerVars, countVars
<1>2. CASE CommitRefused(q)
  BY <1>2 DEF CommitRefused, TypeOK, Request, callerVars, countVars
<1>3. CASE CallFault(q) \/ Retry(q) \/ WorkerDies(q) \/ DoAbortXIgnores(q)
  BY <1>3 DEF CallFault, Retry, WorkerDies, DoAbortXIgnores, callerVars, countVars
<1>4. CASE DoCommitXReply(q) \/ DoAbortXReply(q)
  BY <1>4 DEF DoCommitXReply, DoAbortXReply, RequestPendingCountDec
<1>. QED
  BY <1>1, <1>2, <1>3, <1>4 DEF Worker

\* What the workers of prepareCommit leave alone.
LEMMA PrepareWorkerFrame ==
    ASSUME NEW r \in Region, PrepareWorker(r)
    PROVE  UNCHANGED <<callerVars, collectVars, workerVars, countVars,
                       commitSendDone>>
  BY DEF PrepareWorker, CommitRequest, CommitRequestFault, DoPrepareXRetry,
         DoPrepareXFails, DoPrepareXVote

\* The votes that prepareCommit remembers are right in every step, in
\* whichever order the workers return.
LEMMA VoteStep == TypeOK /\ VoteInv /\ [Next]_vars => VoteInv'
<1> SUFFICES ASSUME TypeOK, VoteInv, [Next]_vars PROVE VoteInv'
  OBVIOUS
<1> USE DEF TypeOK, VoteInv, Vote
<1>1. CASE PrepareCommit
  BY <1>1 DEF PrepareCommit, callerVars, prepareVars,
         collectVars
<1>2. CASE Rollback
  BY <1>2 DEF Rollback, callerVars, prepareVars,
         collectVars
<1>3. CASE PrepareCommitReturn
  BY <1>3 DEF PrepareCommitReturn, callerVars, prepareVars,
         collectVars
<1>4. ASSUME NEW r \in Region, PrepareCommitTake(r)
      PROVE  VoteInv'
  BY <1>4 DEF PrepareCommitTake, callerVars, prepareVars,
         collectVars
<1>5. ASSUME NEW r \in Region, PrepareCommitThrow(r)
      PROVE  VoteInv'
  BY <1>5 DEF PrepareCommitThrow, callerVars, prepareVars,
         collectVars
<1>6. ASSUME NEW r \in Region, Submit(r)
      PROVE  VoteInv'
  BY <1>6 DEF Submit, callerVars, prepareVars,
         collectVars
<1>7. CASE DoCommit
  BY <1>7 DEF DoCommit, StartSending, callerVars, prepareVars,
         collectVars
<1>8. CASE AbortTransaction
  BY <1>8 DEF AbortTransaction, StartSending, callerVars, prepareVars,
         collectVars
<1>9. CASE TlogFault
  BY <1>9 DEF TlogFault, Use, callerVars, prepareVars,
         collectVars
<1>10. CASE CompleteSendInvoke
  BY <1>10 DEF CompleteSendInvoke, callerVars, prepareVars,
         collectVars
<1>11. CASE ForgottenFault
  BY <1>11 DEF ForgottenFault, Use, callerVars, prepareVars,
         collectVars
<1>12. CASE CompleteRequest
  BY <1>12 DEF CompleteRequest, callerVars, prepareVars,
         collectVars
<1>13. CASE CompleteRequestReturn
  BY <1>13 DEF CompleteRequestReturn, callerVars, prepareVars,
         collectVars
<1>14. ASSUME NEW r \in Region, CommitRequest(r)
      PROVE  VoteInv'
  <2>1. PICK v \in Votes(r) :
            prepare' \in {[prepare EXCEPT ![r] = v[1]],
                         [prepare EXCEPT ![r] = "ERROR"]}
    BY <1>14 DEF CommitRequest
  <2>. QED
    BY <1>14, <2>1, VotesFacts DEF CommitRequest, callerVars, collectVars
<1>15. ASSUME NEW r \in Region, CommitRequestFault(r)
      PROVE  VoteInv'
  BY <1>15 DEF CommitRequestFault, Use, callerVars, prepareVars,
         collectVars
<1>16. ASSUME NEW r \in Region, DoPrepareXRetry(r)
      PROVE  VoteInv'
  BY <1>16 DEF DoPrepareXRetry, callerVars, prepareVars,
         collectVars
<1>17. ASSUME NEW r \in Region, DoPrepareXFails(r)
      PROVE  VoteInv'
  BY <1>17 DEF DoPrepareXFails, Use, callerVars, prepareVars,
         collectVars
<1>18. ASSUME NEW r \in Region, DoPrepareXVote(r)
      PROVE  VoteInv'
  BY <1>18 DEF DoPrepareXVote, callerVars, prepareVars,
         collectVars
<1>19. ASSUME NEW r \in Region, LeaseExpired(r)
      PROVE  VoteInv'
  BY <1>19 DEF LeaseExpired, callerVars, prepareVars,
         collectVars
<1>20. ASSUME NEW q \in Request, Worker(q)
      PROVE  VoteInv'
  BY <1>20, WorkerFrame DEF prepareVars, collectVars
<1>21. CASE UNCHANGED vars
  BY <1>21 DEF vars, callerVars, prepareVars,
         collectVars
<1>. QED
  BY <1>1, <1>2, <1>3, <1>4, <1>5, <1>6, <1>7, <1>8, <1>9, <1>10, <1>11,
     <1>12, <1>13, <1>14, <1>15, <1>16, <1>17, <1>18, <1>19, <1>20, <1>21
  DEF Next, TmThread, PrepareWorker

\* A region is left out of phase two only after it has forgotten the
\* transaction.
LEMMA IgnoreStep == TypeOK /\ IgnoreInv /\ [Next]_vars => IgnoreInv'
<1> SUFFICES ASSUME TypeOK, IgnoreInv, [Next]_vars PROVE IgnoreInv'
  OBVIOUS
<1> USE DEF TypeOK, IgnoreInv, Vote
<1>1. CASE TmThread
  <2>1. UNCHANGED <<regionsToIgnore, region>>
    BY <1>1 DEF TmThread, PrepareCommit, Rollback, PrepareCommitReturn,
       PrepareCommitTake, PrepareCommitThrow, Submit, DoCommit,
       AbortTransaction, StartSending, TlogFault, CompleteSendInvoke,
       ForgottenFault, CompleteRequest, CompleteRequestReturn
  <2>2. UNCHANGED prepare \/ PrepareCommit
    BY <1>1 DEF TmThread, Rollback, PrepareCommitReturn,
       PrepareCommitTake, PrepareCommitThrow, Submit, DoCommit,
       AbortTransaction, StartSending, TlogFault, CompleteSendInvoke,
       ForgottenFault, CompleteRequest, CompleteRequestReturn, prepareVars
  <2>. QED
    BY <2>1, <2>2 DEF PrepareCommit
<1>2. ASSUME NEW r \in Region, CommitRequest(r)
      PROVE  IgnoreInv'
  <2>1. PICK v \in Votes(r) :
            /\ region' = [region EXCEPT ![r] = v[2]]
            /\ prepare' \in {[prepare EXCEPT ![r] = v[1]],
                             [prepare EXCEPT ![r] = "ERROR"]}
    BY <1>2 DEF CommitRequest
  <2>. QED
    BY <1>2, <2>1, VotesFacts DEF CommitRequest
<1>3. ASSUME NEW r \in Region,
             CommitRequestFault(r) \/ DoPrepareXRetry(r) \/ DoPrepareXFails(r)
      PROVE  IgnoreInv'
  BY <1>3 DEF CommitRequestFault, DoPrepareXRetry, DoPrepareXFails
<1>4. ASSUME NEW r \in Region, DoPrepareXVote(r)
      PROVE  IgnoreInv'
  BY <1>4 DEF DoPrepareXVote
<1>5. ASSUME NEW r \in Region, LeaseExpired(r)
      PROVE  IgnoreInv'
  BY <1>5 DEF LeaseExpired, prepareVars
<1>6. ASSUME NEW q \in Request, Worker(q)
      PROVE  IgnoreInv'
  BY <1>6, WorkerFrame DEF prepareVars
<1>7. CASE UNCHANGED vars
  BY <1>7 DEF vars, prepareVars
<1>. QED
  BY <1>1, <1>2, <1>3, <1>4, <1>5, <1>6, <1>7 DEF Next, PrepareWorker

----------------------------------------------------------------------------
\* The two sets are finite.
LEMMA SetsFinite ==
    /\ IsFiniteSet(Sent) /\ Cardinality(Sent) \in Nat
    /\ IsFiniteSet(Counted) /\ Cardinality(Counted) \in Nat
    /\ IsFiniteSet(Sent') /\ IsFiniteSet(Counted')
<1>1. /\ Sent \in SUBSET Region /\ Counted \in SUBSET Region
      /\ Sent' \in SUBSET Region /\ Counted' \in SUBSET Region
  BY DEF Sent, Counted
<1>. QED
  BY <1>1, RegionAssumption, FS_Subset, FS_CardinalityType

\* A worker that goes on working is in the same sets as before.
LEMMA WorkerGoesOn ==
    ASSUME TypeOK, CountInv, WaitInv, NEW q \in Request,
           \/ Commit(q) \/ CommitRefused(q) \/ Abort(q) \/ CallFault(q)
           \/ Retry(q) \/ WorkerDies(q) \/ DoAbortXIgnores(q)
    PROVE  CountInv' /\ WaitInv'
<1>1. PICK s \in {"calling", "OK", "UNKNOWN", "ERROR", "died"} :
          request' = [request EXCEPT ![q] = s]
  BY DEF Commit, CommitRefused, Abort, Execute, CallFault, Retry, WorkerDies,
         DoAbortXIgnores
<1>2. request[q] \in {"calling", "ERROR", "UNKNOWN"}
  BY DEF Commit, CommitRefused, Abort, CallFault, Retry, WorkerDies,
         DoAbortXIgnores
<1>3. UNCHANGED <<callerVars, countVars, commitSendDone>>
  BY DEF Commit, CommitRefused, Abort, Execute, CallFault, Retry, WorkerDies,
         DoAbortXIgnores
<1>4. Sent' = Sent /\ Counted' = Counted
  BY <1>1, <1>2 DEF Sent, Counted, TypeOK
<1>5. CountInv'
  BY <1>1, <1>2, <1>3, <1>4 DEF CountInv, TypeOK, callerVars, countVars
<1>6. WaitInv'
  BY <1>3 DEF WaitInv, callerVars, countVars
<1>. QED
  BY <1>5, <1>6

\* A worker that has got its reply joins the ones that are counted.
LEMMA WorkerReplies ==
    ASSUME TypeOK, CountInv, WaitInv, NEW q \in Request,
           NEW s \in {"replied", "failed"}, NEW w \in BOOLEAN,
           RequestPendingCountDec(q, s, w),
           request[q] \in {"OK", "UNKNOWN", "ERROR"}
    PROVE  CountInv' /\ WaitInv'
<1>1. /\ request' = [request EXCEPT ![q] = s]
      /\ requestReceivedCount' = requestReceivedCount + 1
      /\ hasError' = (hasError \/ w)
      /\ pc' = IF pc = "waiting" /\ (w \/ requestReceivedCount' = requestPendingCount)
               THEN "woken" ELSE pc
      /\ UNCHANGED <<caller, drive, command, remaining, loopCount, outcome,
                     requestPendingCount, commitSendDone>>
  BY DEF RequestPendingCountDec
<1>2. CountInv'
  <2>1. CASE drive = 1
    <3>1. q = <<1, q[2]>> /\ q[2] \in Region
      BY <2>1 DEF CountInv, Request
    <3>2. Counted' = Counted \cup {q[2]} /\ q[2] \notin Counted
      BY <1>1, <3>1 DEF Counted, TypeOK, Request
    <3>3. Cardinality(Counted') = Cardinality(Counted) + 1
      BY <3>2, SetsFinite, FS_AddElement
    <3>4. Sent' = Sent
      BY <1>1, <3>1 DEF Sent, TypeOK, Request
    <3>5. pc' = "send" => pc = "send"
      BY <1>1
    <3>6. \A r \in remaining : r \in Region /\ request[<<1, r>>] = "no" =>
              request'[<<1, r>>] = "no"
      BY <1>1, <3>1 DEF TypeOK, Request
    <3>. QED
      BY <1>1, <2>1, <3>1, <3>3, <3>4, <3>5, <3>6 DEF CountInv, TypeOK
  <2>. QED
    BY <1>1, <2>1 DEF CountInv
<1>3. WaitInv'
  <2>1. pc' = pc \/ (pc = "waiting" /\ pc' = "woken")
    BY <1>1
  <2>2. requestReceivedCount' >= requestReceivedCount
    BY <1>1 DEF TypeOK
  <2>3. pc' = "woken" =>
            \/ pc = "woken" /\ (hasError => hasError')
            \/ hasError' \/ requestReceivedCount' = requestPendingCount
    BY <1>1, Zenon
  <2>. QED
    BY <1>1, <2>1, <2>2, <2>3 DEF WaitInv, TypeOK
<1>. QED
  BY <1>2, <1>3

\* A loop over the regions starts with nothing sent.
LEMMA StartSendingCounts ==
    ASSUME TypeOK, CountInv, WaitInv, NEW c, StartSending(c),
           pc \in {"commit", "abort"}
    PROVE  CountInv' /\ WaitInv'
<1>1. /\ drive' = drive + 1 /\ pc' = "send" /\ loopCount' = 0
      /\ UNCHANGED <<caller, outcome, request, requestPendingCount,
                     requestReceivedCount, hasError, commitSendDone>>
      /\ remaining' = Region
  BY DEF StartSending, workerVars, countVars
<1>2. CountInv'
  <2>1. CASE drive = 0
    <3>1. MaxDrives >= 1
      BY <2>1, BoundAssumption DEF StartSending
    <3>2. \A r \in Region : <<1, r>> \in Request
      BY <3>1, BoundAssumption DEF Request
    <3>3. Sent' = {} /\ Counted' = {}
      BY <1>1, <2>1, <3>2 DEF Sent, Counted, CountInv
    <3>. QED
      BY <1>1, <2>1, <3>2, <3>3, FS_EmptySet DEF CountInv
  <2>2. CASE drive # 0
    BY <1>1, <2>2 DEF CountInv, TypeOK
  <2>. QED
    BY <2>1, <2>2
<1>3. WaitInv'
  BY <1>1 DEF WaitInv, TypeOK
<1>. QED
  BY <1>2, <1>3

\* The counters and the TM thread keep step.
LEMMA CountStep ==
    TypeOK /\ CountInv /\ WaitInv /\ [Next]_vars => CountInv' /\ WaitInv'
<1> SUFFICES ASSUME TypeOK, CountInv, WaitInv, [Next]_vars
             PROVE  CountInv' /\ WaitInv'
  OBVIOUS
\* Steps that leave the requests and the loop alone and do not begin to send.
<1> DEFINE Beside == /\ UNCHANGED <<drive, loopCount, remaining, request,
                                    requestReceivedCount>>
                     /\ pc' = "send" => pc = "send"
<1>0. Beside => CountInv'
  BY DEF CountInv, Sent, Counted
<1>1. CASE PrepareCommit
  <2>1. Beside
    BY <1>1 DEF PrepareCommit, callerVars, prepareVars, collectVars, workerVars,
       countVars
  <2>2. WaitInv'
    BY <1>1 DEF PrepareCommit, WaitInv, TypeOK, callerVars,
       prepareVars, collectVars, workerVars, countVars
  <2>. QED
    BY <2>1, <2>2, <1>0
<1>2. CASE Rollback
  <2>1. Beside
    BY <1>2 DEF Rollback, callerVars, prepareVars, collectVars, workerVars,
       countVars
  <2>2. WaitInv'
    BY <1>2 DEF Rollback, WaitInv, TypeOK, callerVars,
       prepareVars, collectVars, workerVars, countVars
  <2>. QED
    BY <2>1, <2>2, <1>0
<1>3. CASE PrepareCommitReturn
  <2>1. Beside
    BY <1>3 DEF PrepareCommitReturn, callerVars, prepareVars, collectVars,
       workerVars, countVars
  <2>2. WaitInv'
    BY <1>3 DEF PrepareCommitReturn, WaitInv, TypeOK, callerVars,
       prepareVars, collectVars, workerVars, countVars
  <2>. QED
    BY <2>1, <2>2, <1>0
<1>4. ASSUME NEW r \in Region, PrepareCommitTake(r)
      PROVE  CountInv' /\ WaitInv'
  <2>1. Beside
    BY <1>4 DEF PrepareCommitTake, callerVars, prepareVars, collectVars,
       workerVars, countVars
  <2>2. WaitInv'
    BY <1>4 DEF PrepareCommitTake, WaitInv, TypeOK, callerVars,
       prepareVars, collectVars, workerVars, countVars
  <2>. QED
    BY <2>1, <2>2, <1>0
<1>5. ASSUME NEW r \in Region, PrepareCommitThrow(r)
      PROVE  CountInv' /\ WaitInv'
  <2>1. Beside
    BY <1>5 DEF PrepareCommitThrow, callerVars, prepareVars, collectVars,
       workerVars, countVars
  <2>2. WaitInv'
    BY <1>5 DEF PrepareCommitThrow, WaitInv, TypeOK, callerVars,
       prepareVars, collectVars, workerVars, countVars
  <2>. QED
    BY <2>1, <2>2, <1>0
<1>6. ASSUME NEW r \in Region, Submit(r)
      PROVE  CountInv' /\ WaitInv'
  <2>1. WaitInv'
    BY <1>6 DEF Submit, WaitInv, countVars
  <2>2. CASE r \in regionsToIgnore
    BY <1>6, <2>1, <2>2 DEF Submit, CountInv, Sent, Counted, countVars
  <2>3. CASE r \notin regionsToIgnore /\ drive = 1
    <3>1. /\ request' = [request EXCEPT ![<<1, r>>] = "calling"]
          /\ loopCount' = loopCount + 1
          /\ remaining' = remaining \ {r}
          /\ UNCHANGED <<drive, pc, requestReceivedCount>>
      BY <1>6, <2>3 DEF Submit, countVars
    <3>2. <<1, r>> \in Request /\ request[<<1, r>>] = "no"
      BY <1>6, <2>3 DEF Submit, CountInv, TypeOK, Request
    <3>3. Sent' = Sent \cup {r} /\ r \notin Sent /\ Counted' = Counted
      BY <3>1, <3>2 DEF Sent, Counted, TypeOK
    <3>4. Cardinality(Sent') = Cardinality(Sent) + 1
      BY <3>3, SetsFinite, FS_AddElement
    <3>. QED
      BY <2>1, <2>3, <3>1, <3>2, <3>3, <3>4 DEF CountInv, TypeOK
  <2>4. CASE r \notin regionsToIgnore /\ drive # 1
    <3>1. drive # 0
      BY <1>6 DEF Submit, WaitInv
    <3>. QED
      BY <1>6, <2>1, <2>4, <3>1 DEF Submit, CountInv
  <2>. QED
    BY <2>1, <2>2, <2>3, <2>4
<1>7. CASE DoCommit
  BY <1>7, StartSendingCounts DEF DoCommit
<1>8. CASE AbortTransaction
  BY <1>8, StartSendingCounts DEF AbortTransaction
<1>9. CASE TlogFault
  <2>1. Beside
    BY <1>9 DEF TlogFault, callerVars, prepareVars, collectVars, workerVars,
       countVars
  <2>2. WaitInv'
    BY <1>9 DEF TlogFault, WaitInv, TypeOK, callerVars,
       prepareVars, collectVars, workerVars, countVars
  <2>. QED
    BY <2>1, <2>2, <1>0
<1>10. CASE CompleteSendInvoke
  <2>1. Beside
    BY <1>10 DEF CompleteSendInvoke, callerVars, prepareVars, collectVars,
       workerVars, countVars
  <2>2. WaitInv'
    BY <1>10 DEF CompleteSendInvoke, WaitInv, TypeOK, callerVars,
       prepareVars, collectVars, workerVars, countVars
  <2>. QED
    BY <2>1, <2>2, <1>0
<1>11. CASE ForgottenFault
  <2>1. Beside
    BY <1>11 DEF ForgottenFault, callerVars, prepareVars, collectVars, workerVars,
       countVars
  <2>2. WaitInv'
    BY <1>11 DEF ForgottenFault, WaitInv, TypeOK, callerVars,
       prepareVars, collectVars, workerVars, countVars
  <2>. QED
    BY <2>1, <2>2, <1>0
<1>12. CASE CompleteRequest
  <2>1. Beside
    BY <1>12 DEF CompleteRequest, callerVars, prepareVars, collectVars,
       workerVars, countVars
  <2>2. WaitInv'
    BY <1>12 DEF CompleteRequest, WaitInv, TypeOK, callerVars,
       prepareVars, collectVars, workerVars, countVars
  <2>. QED
    BY <2>1, <2>2, <1>0
<1>13. CASE CompleteRequestReturn
  <2>1. Beside
    BY <1>13 DEF CompleteRequestReturn, callerVars, prepareVars, collectVars,
       workerVars, countVars
  <2>2. WaitInv'
    BY <1>13 DEF CompleteRequestReturn, WaitInv, TypeOK, callerVars,
       prepareVars, collectVars, workerVars, countVars
  <2>. QED
    BY <2>1, <2>2, <1>0
<1>14. ASSUME NEW r \in Region, PrepareWorker(r) \/ LeaseExpired(r)
      PROVE  CountInv' /\ WaitInv'
  <2>1. UNCHANGED <<callerVars, workerVars, countVars, commitSendDone>>
    BY <1>14, PrepareWorkerFrame DEF LeaseExpired
  <2>. QED
    BY <2>1, <1>0 DEF WaitInv, callerVars, workerVars, countVars
<1>15. ASSUME NEW q \in Request, Worker(q)
      PROVE  CountInv' /\ WaitInv'
  <2>1. CASE DoCommitXReply(q)
    BY <2>1, WorkerReplies DEF DoCommitXReply
  <2>2. CASE DoAbortXReply(q)
    BY <2>2, WorkerReplies DEF DoAbortXReply
  <2>. QED
    BY <1>15, <2>1, <2>2, WorkerGoesOn DEF Worker
<1>16. CASE UNCHANGED vars
  BY <1>16, <1>0 DEF WaitInv, vars, callerVars, workerVars, countVars
<1>. QED
  BY <1>1, <1>2, <1>3, <1>4, <1>5, <1>6, <1>7, <1>8, <1>9, <1>10, <1>11,
     <1>12, <1>13, <1>14, <1>15, <1>16
  DEF Next, TmThread

----------------------------------------------------------------------------
LEMMA InvInit == Init => IInv
<1> SUFFICES ASSUME Init PROVE IInv
  OBVIOUS
<1>1. TypeOK
  <2>1. 0 \in 0 .. MaxDrives /\ 0 \in 0 .. (RETRY_ATTEMPTS - 1)
    BY BoundAssumption
  <2>. QED
    BY <2>1 DEF Init, TypeOK
<1>2. VoteInv /\ IgnoreInv
  BY DEF Init, VoteInv, IgnoreInv, Vote
<1>3. CountInv /\ WaitInv
  BY DEF Init, CountInv, WaitInv
<1>. QED
  BY <1>1, <1>2, <1>3 DEF IInv

\* The invariant the theorems below rest on.
THEOREM Invariance == Spec => []IInv
<1>1. IInv /\ [Next]_vars => IInv'
  BY TypeStep, VoteStep, IgnoreStep, CountStep DEF IInv
<1>. QED
  BY InvInit, <1>1, PTL DEF Spec

\* The variables have their types: in particular no worker of either phase
\* makes more than RETRY_ATTEMPTS calls that end in an exception.
THEOREM ClientTypeCorrect == Spec => []TypeOK
<1>1. IInv => TypeOK
  BY DEF IInv
<1>. QED
  BY Invariance, <1>1, PTL

\* doCommit is not called before every region has voted for it, in whichever
\* order the votes come and whichever workers fail.
THEOREM CommitNeedsVotesAlways == Spec => []CommitNeedsVotes
<1>1. IInv => CommitNeedsVotes
  BY DEF IInv, VoteInv, CommitNeedsVotes
<1>. QED
  BY Invariance, <1>1, PTL

\* A region that doCommit and abort leave out has forgotten the transaction.
THEOREM IgnoredForgotten == Spec => []IgnoredIsForgotten
<1>1. IInv => IgnoredIsForgotten
  BY DEF IInv, TypeOK, IgnoreInv, IgnoredIsForgotten
<1>. QED
  BY Invariance, <1>1, PTL

\* completeRequest returns normally only when the worker of every region has
\* got its reply, for any number of regions and any order of the replies.
THEOREM CompleteSafe == Spec => []CompleteMeansReplied
<1>1. IInv => CompleteMeansReplied
  <2> SUFFICES ASSUME IInv, caller = "TM", drive = 1, outcome = "returned",
                      NEW r \in Region
               PROVE  request[<<1, r>>] \in {"no", "replied", "failed"}
    BY DEF CompleteMeansReplied
  <2>1. Cardinality(Counted) >= Cardinality(Sent)
    BY DEF IInv, CountInv, WaitInv
  <2>2. Counted \in SUBSET Sent
    BY DEF Counted, Sent
  <2>3. Counted = Sent
    BY <2>1, <2>2, SetsFinite, FS_Subset
  <2>. QED
    BY <2>3 DEF Counted, Sent
<1>. QED
  BY Invariance, <1>1, PTL
=============================================================================
