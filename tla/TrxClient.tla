----------------------------- MODULE TrxClient -----------------------------
(***************************************************************************)
(* The client side of one transaction: TransactionManager with its worker  *)
(* threads, the TransactionState that counts their replies, and the TM     *)
(* thread that goes through HBaseTxClient (prepareCommit, then doCommit or *)
(* abortTransaction, then completeRequest), or through tryCommit.          *)
(*                                                                         *)
(* prepareCommit and doCommit hand one call per region to a pool of        *)
(* threads.  doCommit and abort do not wait: every worker counts its reply *)
(* in the TransactionState, and completeRequest waits for the counter.     *)
(* The workers run while the TM thread is still submitting, and workers of *)
(* prepareCommit can outlive it.                                           *)
(*                                                                         *)
(* A region is reduced to the status of the transaction in it (module      *)
(* TrxRegion has the rest): PENDING and COMMIT_PENDING, or forgotten after *)
(* COMMITED or ABORTED.                                                    *)
(***************************************************************************)
EXTENDS Integers, FiniteSets

CONSTANTS
    Region,         \* the participating regions
    Caller,         \* who drives the transaction: "TM", "tryCommit"
    RETRY_ATTEMPTS,
    \* Bounds of the model, not of the code:
    MaxDrives,      \* how often doCommit is driven
    MaxCallFaults,  \* calls that fail before they reach the region
    MaxLost,        \* replies that are lost
    MaxRefused,     \* exceptions of a region in phase two
    MaxLapses,      \* leases that expire in a region
    MaxTlogFaults,  \* exceptions of the append to the transaction log
    MaxLocateFaults,\* exceptions of getRegionLocation in an error path
    MaxFaults       \* all of these together

ASSUME RegionAssumption == IsFiniteSet(Region)
ASSUME CallerAssumption == Caller \subseteq {"TM", "tryCommit"}
ASSUME BoundAssumption ==
    /\ RETRY_ATTEMPTS \in Nat \ {0}
    /\ {MaxDrives, MaxCallFaults, MaxLost, MaxRefused, MaxLapses,
        MaxTlogFaults, MaxLocateFaults, MaxFaults} \subseteq Nat

VARIABLES
    \* the thread of the TM
    caller,
    pc,
    drive,               \* calls of doCommit or abort that have sent requests
    command,             \* what phase two asks for
    remaining,           \* regions the loop of doCommit or abort has to visit
    loopCount,
    outcome,             \* how the TM thread came back
    \* prepareCommit and its workers
    prepare,             \* what each worker of prepareCommit is doing
    prepareRetries,
    vote,
    taken,               \* votes taken from the completion service
    commitError,
    allReadOnly,
    \* workers of phase two, one for each drive and region
    request,
    retryCount,
    \* fields of TransactionState
    requestPendingCount,
    requestReceivedCount,
    hasError,
    commitSendDone,
    regionsToIgnore,
    \* the rest
    known,               \* mapTransactionStates has the transaction
    logged,              \* the state in the transaction log
    region,              \* status of the transaction in each region
    used                 \* how much of each bound is used up

callerVars  == <<caller, pc, drive, command, remaining, loopCount, outcome>>
prepareVars == <<prepare, prepareRetries, vote>>
collectVars == <<taken, commitError, allReadOnly>>
workerVars  == <<request, retryCount>>
countVars   == <<requestPendingCount, requestReceivedCount, hasError>>
vars == <<callerVars, prepareVars, collectVars, workerVars, countVars,
          commitSendDone, regionsToIgnore, known, logged, region, used>>

Vote == {"OK", "READ_ONLY", "CONFLICT", "UNSUCCESSFUL"}
Request == (1 .. MaxDrives) \X Region
Bounded == {"call", "lost", "refused", "lapse", "tlog", "locate"}
Limit == [b \in Bounded |-> CASE b = "call"    -> MaxCallFaults
                              [] b = "lost"    -> MaxLost
                              [] b = "refused" -> MaxRefused
                              [] b = "lapse"   -> MaxLapses
                              [] b = "tlog"    -> MaxTlogFaults
                              [] b = "locate"  -> MaxLocateFaults]
Total == used["call"] + used["lost"] + used["refused"] + used["lapse"] +
         used["tlog"] + used["locate"]
Use(b) == /\ used[b] < Limit[b]
          /\ Total < MaxFaults
          /\ used' = [used EXCEPT ![b] = @ + 1]

TypeOK ==
    /\ caller \in Caller
    /\ pc \in {"working", "collect", "commit", "abort", "send", "complete",
               "waiting", "woken", "done"}
    /\ drive \in 0 .. MaxDrives
    /\ command \in {"none", "COMMIT", "ABORT"}
    /\ remaining \subseteq Region
    /\ loopCount \in Nat
    /\ outcome \in {"none", "returned", "threw"}
    /\ prepare \in [Region -> {"no", "calling", "ERROR", "returned"} \cup Vote]
    /\ prepareRetries \in [Region -> 0 .. (RETRY_ATTEMPTS - 1)]
    /\ vote \in [Region -> {"none", "EXCEPTION"} \cup Vote]
    /\ taken \subseteq Region
    /\ commitError \in {"none", "UNSUCCESSFUL", "CONFLICT"}
    /\ allReadOnly \in BOOLEAN
    /\ request \in [Request -> {"no", "calling", "OK", "UNKNOWN", "ERROR",
                                "replied", "failed", "died"}]
    /\ retryCount \in [Request -> 0 .. (RETRY_ATTEMPTS - 1)]
    /\ requestPendingCount \in Nat
    /\ requestReceivedCount \in Nat
    /\ hasError \in BOOLEAN
    /\ commitSendDone \in BOOLEAN
    /\ regionsToIgnore \subseteq Region
    /\ known \in BOOLEAN
    /\ logged \in {"none", "COMMITTED", "ABORTED", "FORGOTTEN"}
    /\ region \in [Region -> {"PENDING", "COMMIT_PENDING", "COMMITED", "ABORTED"}]
    /\ used \in [Bounded -> Nat]

Init ==
    /\ caller \in Caller
    /\ pc = "working"
    /\ drive = 0
    /\ command = "none"
    /\ remaining = {}
    /\ loopCount = 0
    /\ outcome = "none"
    /\ prepare = [r \in Region |-> "no"]
    /\ prepareRetries = [r \in Region |-> 0]
    /\ vote = [r \in Region |-> "none"]
    /\ taken = {}
    /\ commitError = "none"
    /\ allReadOnly = TRUE
    /\ request = [q \in Request |-> "no"]
    /\ retryCount = [q \in Request |-> 0]
    /\ requestPendingCount = 0
    /\ requestReceivedCount = 0
    /\ hasError = FALSE
    /\ commitSendDone = FALSE
    /\ regionsToIgnore = {}
    /\ known = TRUE
    /\ logged = "none"
    /\ region = [r \in Region |-> "PENDING"]
    /\ used = [b \in Bounded |-> 0]

----------------------------------------------------------------------------
(* prepareCommit: one worker per participating region, whose result comes  *)
(* back through a completion service.                                      *)

PrepareCommit ==
    /\ pc = "working"
    /\ pc' = "collect"
    /\ prepare' = [r \in Region |-> "calling"]
    /\ UNCHANGED <<caller, drive, command, remaining, loopCount, outcome,
                   prepareRetries, vote, collectVars, workerVars, countVars,
                   commitSendDone, regionsToIgnore, known, logged, region, used>>

\* What commitRequest of region r answers, and the status it leaves behind.
\* A repeated commitRequest may meet a conflict; a transaction the region does
\* not know is COMMIT_UNSUCCESSFUL.  COMMIT_OK_READ_ONLY is the answer if the
\* transaction has no writes in the region, if it has lost them because it began
\* anew after a lapse, and if the lapse has emptied it after the commitRequest
\* had looked it up.
Votes(r) ==
    CASE region[r] = "PENDING" ->
            {<<"OK", "COMMIT_PENDING">>, <<"READ_ONLY", "COMMITED">>,
             <<"CONFLICT", "ABORTED">>}
      [] region[r] = "COMMIT_PENDING" ->
            {<<"OK", "COMMIT_PENDING">>, <<"CONFLICT", "ABORTED">>}
      [] OTHER ->
            {<<"UNSUCCESSFUL", region[r]>>} \cup
            {<<v, region[r]>> : v \in IF used["lapse"] > 0 THEN {"READ_ONLY"} ELSE {}}

\* The region executes commitRequest; the answer reaches the worker, or the
\* worker gets an exception instead.
CommitRequest(r) ==
    /\ prepare[r] = "calling"
    /\ \E v \in Votes(r) :
           /\ region' = [region EXCEPT ![r] = v[2]]
           /\ \/ /\ prepare' = [prepare EXCEPT ![r] = v[1]]
                 /\ UNCHANGED used
              \/ /\ prepare' = [prepare EXCEPT ![r] = "ERROR"]
                 /\ Use("lost")
    /\ UNCHANGED <<callerVars, prepareRetries, vote, collectVars, workerVars,
                   countVars, commitSendDone, regionsToIgnore, known, logged>>

\* The call fails before it reaches the region.
CommitRequestFault(r) ==
    /\ prepare[r] = "calling"
    /\ prepare' = [prepare EXCEPT ![r] = "ERROR"]
    /\ Use("call")
    /\ UNCHANGED <<callerVars, prepareRetries, vote, collectVars, workerVars,
                   countVars, commitSendDone, regionsToIgnore, known, logged,
                   region>>

\* Mutant: one attempt too many.
PrepareRetryOnceMore(r) ==
    /\ prepare[r] = "ERROR"
    /\ prepareRetries[r] + 1 <= RETRY_ATTEMPTS
    /\ prepareRetries' = [prepareRetries EXCEPT ![r] = @ + 1]
    /\ prepare' = [prepare EXCEPT ![r] = "calling"]
    /\ UNCHANGED <<callerVars, vote, collectVars, workerVars, countVars,
                   commitSendDone, regionsToIgnore, known, logged, region, used>>

\* doPrepareX after an exception: try again ...
DoPrepareXRetry(r) ==
    /\ prepare[r] = "ERROR"
    /\ prepareRetries[r] + 1 < RETRY_ATTEMPTS
    /\ prepareRetries' = [prepareRetries EXCEPT ![r] = @ + 1]
    /\ prepare' = [prepare EXCEPT ![r] = "calling"]
    /\ UNCHANGED <<callerVars, vote, collectVars, workerVars, countVars,
                   commitSendDone, regionsToIgnore, known, logged, region, used>>

\* ... or give up with an exception, after the last attempt or because the
\* region cannot be located.
DoPrepareXFails(r) ==
    /\ prepare[r] = "ERROR"
    /\ \/ prepareRetries[r] + 1 = RETRY_ATTEMPTS /\ UNCHANGED used
       \/ Use("locate")
    /\ vote' = [vote EXCEPT ![r] = "EXCEPTION"]
    /\ prepare' = [prepare EXCEPT ![r] = "returned"]
    /\ UNCHANGED <<callerVars, prepareRetries, collectVars, workerVars,
                   countVars, commitSendDone, regionsToIgnore, known, logged,
                   region>>

\* Mutant: the case of COMMIT_OK falls through to the one of read-only regions.
VoteOkIgnored(r) ==
    /\ prepare[r] \in Vote
    /\ vote' = [vote EXCEPT ![r] = prepare[r]]
    /\ regionsToIgnore' = regionsToIgnore \cup {r}
    /\ prepare' = [prepare EXCEPT ![r] = "returned"]
    /\ UNCHANGED <<callerVars, prepareRetries, collectVars, workerVars,
                   countVars, commitSendDone, known, logged, region, used>>

\* A region that voted read-only or no is left out of phase two.
DoPrepareXVote(r) ==
    /\ prepare[r] \in Vote
    /\ vote' = [vote EXCEPT ![r] = prepare[r]]
    /\ regionsToIgnore' = IF prepare[r] = "OK" THEN regionsToIgnore
                                               ELSE regionsToIgnore \cup {r}
    /\ prepare' = [prepare EXCEPT ![r] = "returned"]
    /\ UNCHANGED <<callerVars, prepareRetries, collectVars, workerVars,
                   countVars, commitSendDone, known, logged, region, used>>

\* Mutant: a later vote replaces the error of an earlier one.
TakeLastVote(r) ==
    /\ pc = "collect"
    /\ r \notin taken
    /\ vote[r] \in Vote
    /\ taken' = taken \cup {r}
    /\ commitError' = IF vote[r] \in {"OK", "READ_ONLY"} THEN "none" ELSE vote[r]
    /\ allReadOnly' = (allReadOnly /\ vote[r] # "OK")
    /\ UNCHANGED <<callerVars, prepareVars, workerVars, countVars,
                   commitSendDone, regionsToIgnore, known, logged, region, used>>

\* The votes are taken in the order in which they arrive; a conflict takes
\* precedence over other refusals.
PrepareCommitTake(r) ==
    /\ pc = "collect"
    /\ r \notin taken
    /\ vote[r] \in Vote
    /\ taken' = taken \cup {r}
    /\ commitError' = IF commitError = "CONFLICT" \/ vote[r] \in {"OK", "READ_ONLY"}
                      THEN commitError ELSE vote[r]
    /\ allReadOnly' = (allReadOnly /\ vote[r] # "OK")
    /\ UNCHANGED <<callerVars, prepareVars, workerVars, countVars,
                   commitSendDone, regionsToIgnore, known, logged, region, used>>

\* The TM commits or aborts after the last vote; nobody has to hear of a
\* transaction that was read-only everywhere.  tryCommit gives up after a
\* refusal, by an exception or, after a conflict, without one.
PrepareCommitReturn ==
    /\ pc = "collect"
    /\ taken = Region
    /\ \/ /\ commitError = "none" /\ ~allReadOnly
          /\ pc' = "commit"
          /\ UNCHANGED <<outcome, commitSendDone, known>>
       \/ /\ commitError = "none" /\ allReadOnly
          /\ pc' = "done"
          /\ outcome' = "returned"
          /\ IF caller = "TM" THEN known' = FALSE /\ UNCHANGED commitSendDone
                              ELSE commitSendDone' = TRUE /\ UNCHANGED known
       \/ /\ commitError # "none" /\ caller = "TM"
          /\ pc' = "abort"
          /\ UNCHANGED <<outcome, commitSendDone, known>>
       \/ /\ commitError # "none" /\ caller = "tryCommit"
          /\ pc' = "done"
          /\ outcome' = IF commitError = "CONFLICT" THEN "returned" ELSE "threw"
          /\ UNCHANGED <<commitSendDone, known>>
    /\ UNCHANGED <<caller, drive, command, remaining, loopCount, prepareVars,
                   collectVars, workerVars, countVars, regionsToIgnore,
                   logged, region, used>>

\* The first exception ends prepareCommit; the other workers go on.
PrepareCommitThrow(r) ==
    /\ pc = "collect"
    /\ r \notin taken
    /\ vote[r] = "EXCEPTION"
    /\ IF caller = "TM" THEN pc' = "abort" /\ UNCHANGED outcome
                        ELSE pc' = "done" /\ outcome' = "threw"
    /\ UNCHANGED <<caller, drive, command, remaining, loopCount, prepareVars,
                   collectVars, workerVars, countVars, commitSendDone,
                   regionsToIgnore, known, logged, region, used>>

\* The application asks for a rollback instead.
Rollback ==
    /\ pc = "working"
    /\ caller = "TM"
    /\ pc' = "abort"
    /\ UNCHANGED <<caller, drive, command, remaining, loopCount, outcome,
                   prepareVars, collectVars, workerVars, countVars,
                   commitSendDone, regionsToIgnore, known, logged, region, used>>

----------------------------------------------------------------------------
(* doCommit and abortTransaction of HBaseTxClient: the decision is logged  *)
(* and a loop over the regions submits one worker for each.                *)

StartSending(c) ==
    /\ drive < MaxDrives
    /\ drive' = drive + 1
    /\ pc' = "send"
    /\ command' = c
    /\ remaining' = Region
    /\ loopCount' = 0
    /\ UNCHANGED <<caller, outcome, prepareVars, collectVars, workerVars,
                   countVars, commitSendDone, regionsToIgnore, known, region>>

DoCommit ==
    /\ pc = "commit"
    /\ StartSending("COMMIT")
    /\ logged' = IF caller = "TM" THEN "COMMITTED" ELSE logged
    /\ UNCHANGED used

AbortTransaction ==
    /\ pc = "abort"
    /\ StartSending("ABORT")
    /\ logged' = "ABORTED"
    /\ UNCHANGED used

\* The append fails and HBaseTxClient returns RET_EXCEPTION.  CHbaseTM knows
\* the value 1 as an error only, so the TM goes on to completeRequest.
TlogFault ==
    /\ pc \in {"commit", "abort"}
    /\ caller = "TM"
    /\ Use("tlog")
    /\ pc' = "complete"
    /\ UNCHANGED <<caller, drive, command, remaining, loopCount, outcome,
                   prepareVars, collectVars, workerVars, countVars,
                   commitSendDone, regionsToIgnore, known, logged, region>>

\* One round of the loop.
Submit(r) ==
    /\ pc = "send"
    /\ r \in remaining
    /\ remaining' = remaining \ {r}
    /\ IF r \in regionsToIgnore
       THEN UNCHANGED <<loopCount, request>>
       ELSE /\ loopCount' = loopCount + 1
            /\ request' = [request EXCEPT ![<<drive, r>>] = "calling"]
    /\ UNCHANGED <<caller, pc, drive, command, outcome, prepareVars,
                   collectVars, retryCount, countVars, commitSendDone,
                   regionsToIgnore, known, logged, region, used>>

\* completeSendInvoke, where the number of requests is recorded after all of
\* them were handed out and hasError is "reset, just in case".  The record
\* FORGOTTEN is written next; tryCommit just returns.
CompleteSendInvoke ==
    /\ pc = "send"
    /\ remaining = {}
    /\ requestPendingCount' = loopCount
    /\ hasError' = FALSE
    /\ commitSendDone' = TRUE
    /\ IF caller = "TM"
       THEN /\ pc' = "complete"
            /\ logged' = "FORGOTTEN"
            /\ UNCHANGED outcome
       ELSE /\ pc' = "done"
            /\ outcome' = "returned"
            /\ UNCHANGED logged
    /\ UNCHANGED <<caller, drive, command, remaining, loopCount, prepareVars,
                   collectVars, workerVars, requestReceivedCount,
                   regionsToIgnore, known, region, used>>

\* The append of FORGOTTEN throws.  A commit becomes HUNGCOMMITTED and is
\* driven again with the same TransactionState; the result of a rollback is
\* not looked at.
ForgottenFault ==
    /\ pc = "send"
    /\ remaining = {}
    /\ caller = "TM"
    /\ Use("tlog")
    /\ requestPendingCount' = loopCount
    /\ hasError' = FALSE
    /\ commitSendDone' = TRUE
    /\ pc' = IF command = "COMMIT" THEN "commit" ELSE "complete"
    /\ UNCHANGED <<caller, drive, command, remaining, loopCount, outcome,
                   prepareVars, collectVars, workerVars, requestReceivedCount,
                   regionsToIgnore, known, logged, region>>

----------------------------------------------------------------------------
(* The workers of phase two.                                               *)

\* requestPendingCountDec of a worker whose request q ends in state s.
RequestPendingCountDec(q, s, wakeUp) ==
    /\ request' = [request EXCEPT ![q] = s]
    /\ requestReceivedCount' = requestReceivedCount + 1
    /\ hasError' = (hasError \/ wakeUp)
    /\ pc' = IF pc = "waiting" /\ (wakeUp \/ requestReceivedCount' = requestPendingCount)
             THEN "woken" ELSE pc
    /\ UNCHANGED <<caller, drive, command, remaining, loopCount, outcome,
                   prepareVars, collectVars, retryCount, requestPendingCount,
                   commitSendDone, regionsToIgnore, known, logged, region>>

\* The region executes commit or abortTransaction and answers with a; the
\* worker gets the answer or an exception instead.
Execute(q, a, s) ==
    /\ region' = [region EXCEPT ![q[2]] = s]
    /\ \/ request' = [request EXCEPT ![q] = a] /\ UNCHANGED used
       \/ request' = [request EXCEPT ![q] = "ERROR"] /\ Use("lost")
    /\ UNCHANGED <<callerVars, prepareVars, collectVars, retryCount, countVars,
                   commitSendDone, regionsToIgnore, known, logged>>

Commit(q) ==
    /\ request[q] = "calling"
    /\ command = "COMMIT"
    /\ \/ region[q[2]] = "COMMIT_PENDING" /\ Execute(q, "OK", "COMMITED")
       \/ region[q[2]] \in {"COMMITED", "ABORTED"} /\ Execute(q, "UNKNOWN", region[q[2]])

\* A put fails and the region aborts the transaction, or the log of the
\* region fails and it stays COMMIT_PENDING.
CommitRefused(q) ==
    /\ request[q] = "calling"
    /\ command = "COMMIT"
    /\ region[q[2]] = "COMMIT_PENDING"
    /\ \E s \in {"COMMIT_PENDING", "ABORTED"} :
           region' = [region EXCEPT ![q[2]] = s]
    /\ request' = [request EXCEPT ![q] = "ERROR"]
    /\ Use("refused")
    /\ UNCHANGED <<callerVars, prepareVars, collectVars, retryCount, countVars,
                   commitSendDone, regionsToIgnore, known, logged>>

Abort(q) ==
    /\ request[q] = "calling"
    /\ command = "ABORT"
    /\ \/ region[q[2]] \in {"PENDING", "COMMIT_PENDING"} /\ Execute(q, "OK", "ABORTED")
       \/ region[q[2]] \in {"COMMITED", "ABORTED"} /\ Execute(q, "UNKNOWN", region[q[2]])

CallFault(q) ==
    /\ request[q] = "calling"
    /\ request' = [request EXCEPT ![q] = "ERROR"]
    /\ Use("call")
    /\ UNCHANGED <<callerVars, prepareVars, collectVars, retryCount, countVars,
                   commitSendDone, regionsToIgnore, known, logged, region>>

\* Mutant: the reply is counted before the call is repeated.
RetryCounted(q) ==
    /\ request[q] = "ERROR"
    /\ retryCount[q] + 1 < RETRY_ATTEMPTS
    /\ retryCount' = [retryCount EXCEPT ![q] = @ + 1]
    /\ request' = [request EXCEPT ![q] = "calling"]
    /\ requestReceivedCount' = requestReceivedCount + 1
    /\ pc' = IF pc = "waiting" /\ requestReceivedCount' = requestPendingCount
             THEN "woken" ELSE pc
    /\ UNCHANGED <<caller, drive, command, remaining, loopCount, outcome,
                   prepareVars, collectVars, requestPendingCount, hasError,
                   commitSendDone, regionsToIgnore, known, logged, region, used>>

\* doCommitX and doAbortX after an exception, not the last one.
Retry(q) ==
    /\ request[q] = "ERROR"
    /\ retryCount[q] + 1 < RETRY_ATTEMPTS
    /\ retryCount' = [retryCount EXCEPT ![q] = @ + 1]
    /\ request' = [request EXCEPT ![q] = "calling"]
    /\ UNCHANGED <<callerVars, prepareVars, collectVars, countVars,
                   commitSendDone, regionsToIgnore, known, logged, region, used>>

\* The region cannot be located either: the exception leaves the worker and
\* the reply is not counted.
WorkerDies(q) ==
    /\ request[q] = "ERROR"
    /\ Use("locate")
    /\ request' = [request EXCEPT ![q] = "died"]
    /\ UNCHANGED <<callerVars, prepareVars, collectVars, retryCount, countVars,
                   commitSendDone, regionsToIgnore, known, logged, region>>

\* Mutant: the last exception of doCommitX is not counted as a reply.
GiveUpUncounted(q) ==
    /\ command = "COMMIT"
    /\ \/ request[q] = "OK" /\ RequestPendingCountDec(q, "replied", FALSE)
       \/ request[q] = "UNKNOWN" /\ RequestPendingCountDec(q, "failed", TRUE)
       \/ /\ request[q] = "ERROR"
          /\ retryCount[q] + 1 = RETRY_ATTEMPTS
          /\ request' = [request EXCEPT ![q] = "failed"]
          /\ UNCHANGED <<callerVars, prepareVars, collectVars, retryCount,
                         countVars, commitSendDone, regionsToIgnore, known,
                         logged, region>>
    /\ UNCHANGED used

\* doCommitX: an unknown transaction is an error and is not tried again.
DoCommitXReply(q) ==
    /\ command = "COMMIT"
    /\ \/ request[q] = "OK" /\ RequestPendingCountDec(q, "replied", FALSE)
       \/ request[q] = "UNKNOWN" /\ RequestPendingCountDec(q, "failed", TRUE)
       \/ /\ request[q] = "ERROR"
          /\ retryCount[q] + 1 = RETRY_ATTEMPTS
          /\ RequestPendingCountDec(q, "failed", TRUE)
    /\ UNCHANGED used

\* doAbortX: every end is a normal reply.
DoAbortXReply(q) ==
    /\ command = "ABORT"
    /\ \/ request[q] = "OK"
       \/ request[q] = "UNKNOWN" /\ retryCount[q] = 0
       \/ request[q] = "ERROR" /\ retryCount[q] + 1 = RETRY_ATTEMPTS
    /\ RequestPendingCountDec(q, "replied", FALSE)
    /\ UNCHANGED used

\* "UnknownTransactionException in doAbortX (ignoring)": retry is still set
\* from an earlier exception, so the loop goes round again.
DoAbortXIgnores(q) ==
    /\ command = "ABORT"
    /\ request[q] = "UNKNOWN"
    /\ retryCount[q] > 0
    /\ request' = [request EXCEPT ![q] = "calling"]
    /\ UNCHANGED <<callerVars, prepareVars, collectVars, retryCount, countVars,
                   commitSendDone, regionsToIgnore, known, logged, region, used>>

\* A lease expires in a region: a working transaction is thrown away, and begins
\* anew, without its writes, if the application comes back to the region; a
\* prepared one is in the end committed.
LeaseExpired(r) ==
    /\ Use("lapse")
    /\ \/ region[r] = "PENDING" /\ region' = [region EXCEPT ![r] = "ABORTED"]
       \/ region[r] = "PENDING" /\ pc = "working" /\ UNCHANGED region
       \/ region[r] = "COMMIT_PENDING" /\ region' = [region EXCEPT ![r] = "COMMITED"]
    /\ UNCHANGED <<callerVars, prepareVars, collectVars, workerVars, countVars,
                   commitSendDone, regionsToIgnore, known, logged>>

----------------------------------------------------------------------------
(* completeRequest.  Both waits are under an IF, not in a loop.            *)

CompleteRequest ==
    /\ pc = "complete"
    /\ commitSendDone
    /\ pc' = IF requestPendingCount > requestReceivedCount THEN "waiting" ELSE "woken"
    /\ UNCHANGED <<caller, drive, command, remaining, loopCount, outcome,
                   prepareVars, collectVars, workerVars, countVars,
                   commitSendDone, regionsToIgnore, known, logged, region, used>>

CompleteRequestReturn ==
    /\ pc = "woken"
    /\ pc' = "done"
    /\ outcome' = IF hasError THEN "threw" ELSE "returned"
    /\ known' = hasError
    /\ UNCHANGED <<caller, drive, command, remaining, loopCount, prepareVars,
                   collectVars, workerVars, countVars, commitSendDone,
                   regionsToIgnore, logged, region, used>>

----------------------------------------------------------------------------
PrepareWorker(r) ==
    \/ CommitRequest(r) \/ CommitRequestFault(r) \/ DoPrepareXRetry(r)
    \/ DoPrepareXFails(r) \/ DoPrepareXVote(r)

Worker(q) ==
    \/ Commit(q) \/ CommitRefused(q) \/ Abort(q) \/ CallFault(q)
    \/ Retry(q) \/ WorkerDies(q) \/ DoCommitXReply(q) \/ DoAbortXReply(q)
    \/ DoAbortXIgnores(q)

TmThread ==
    \/ PrepareCommit \/ Rollback \/ PrepareCommitReturn
    \/ \E r \in Region : PrepareCommitTake(r) \/ PrepareCommitThrow(r) \/ Submit(r)
    \/ DoCommit \/ AbortTransaction \/ TlogFault \/ CompleteSendInvoke
    \/ ForgottenFault \/ CompleteRequest \/ CompleteRequestReturn

Next ==
    \/ TmThread
    \/ \E r \in Region : PrepareWorker(r) \/ LeaseExpired(r)
    \/ \E q \in Request : Worker(q)

Spec == Init /\ [][Next]_vars

\* The TM thread and the threads of the pool are scheduled.
Fairness ==
    /\ WF_vars(TmThread)
    /\ \A r \in Region : WF_vars(PrepareWorker(r))
    /\ \A q \in Request : WF_vars(Worker(q))

FairSpec == Spec /\ Fairness

----------------------------------------------------------------------------
(* Properties.                                                             *)

\* doCommit runs only after every region has voted, none has refused or
\* failed, and one at least has something to commit, whatever the order in
\* which the votes arrived.
CommitNeedsVotes ==
    command = "COMMIT" =>
        /\ \A r \in Region : vote[r] \in {"OK", "READ_ONLY"}
        /\ \E r \in Region : vote[r] = "OK"

\* "They were read only, or already said to abort": a region that is left out
\* of phase two has forgotten the transaction, also when its answer came from
\* a repeated commitRequest.
IgnoredIsForgotten ==
    \A r \in regionsToIgnore : region[r] \in {"COMMITED", "ABORTED"}

\* When completeRequest returns normally, the worker of every region has got
\* its reply, although workers reply while the requests are still being sent,
\* before their number is recorded, and in any order.
CompleteMeansReplied ==
    caller = "TM" /\ drive = 1 /\ outcome = "returned" =>
        \A r \in Region : request[<<1, r>>] \in {"no", "replied", "failed"}

\* The two ways in which nobody wakes up completeRequest: doCommit has returned
\* before it sent a request, because the decision could not be appended; or the
\* exception of getRegionLocation has ended a worker that was to count a reply.
NeverSent == pc = "complete" /\ ~commitSendDone
ReplyMissing == pc = "waiting" /\ \E q \in Request : request[q] = "died"

\* "to avoid getting hung forever": completeRequest comes back after doCommit,
\* whichever calls fail or are refused, whichever replies are lost and however often
\* the commit is driven, unless it stays for ever in one of those two waits.
CommitCompletes ==
    \/ (caller = "TM" /\ pc = "commit") ~> (pc = "done")
    \/ <>[](NeverSent \/ ReplyMissing)
=============================================================================
