# Verification of the distributed transaction manager

The repository is the core of a SQL-on-HBase database. This project verifies
the part that makes it a *transactional* database: the transactional HBase
coprocessor (`sqf/src/seatrans/hbase-trx`), the transaction client and its log
(`sqf/src/seatrans/tm/hbasetmlib2`) and the C++ transaction manager
(`sqf/src/tm`). The SQL compiler and executor, the drivers and the messaging
layers are outside its scope (last section).

## Inventory

| Component | State | Operations | Talks to |
|---|---|---|---|
| Region endpoint (`TrxRegionEndpoint`, region `TransactionState`, `CleanOldTransactionsChore`) | `transactionsById`, `commitPendingTransactions`, `commitedTransactionsBySequenceNumber`, `nextSequenceId`, leases, control point epoch; per transaction a status, reads, buffered writes, sequence numbers | begin, put, delete, get, scan, commitRequest, commit, abort, lease expiry, chore, recoveryRequest | TM by RPC, HBase's write-ahead log, ZooKeeper |
| Region observer (`TrxRegionObserver`) | in-doubt transactions found in the log, count per TM | log replay at region open, zNode creation | endpoint (shared maps), ZooKeeper |
| Client transaction manager (`TransactionManager`, client `TransactionState`) | participating regions, regions to ignore, counters of pending and received replies | prepareCommit, doCommit, abort, worker callables with retries | endpoint by RPC |
| Transaction client (`HBaseTxClient`, `HBaseTmZK`) | map of transactions, recovery threads | begin, prepare, commit, abort, registerRegion, recovery | client manager, TLOG, ZooKeeper |
| TLOG (`TmAuditTlog`, `HBaseAuditControlPoint`) | state records by transaction, audit sequence number, control points | putRecord, control point, deletion of aged records, getTransactionState | HBase table |
| C++ TM (`tm*.cpp`) | transaction objects, event queues, thread pools, timers | begin/end/abort, join/suspend, recovery, shutdown | TM library in every client process, `HBaseTxClient` by JNI |

The region runs optimistic concurrency control. Every operation of a
transaction is buffered. *Phase one* (`commitRequest`) takes `commitCheckLock`,
compares the rows read with the rows that concurrent transactions write, and
votes; *phase two* (`commit` or `abortTransaction`) moves the buffer into the
table or drops it. The TM collects the votes, forces its decision to the TLOG
and drives phase two; a TM that finds a zNode of a region asks that region for
its in-doubt transactions and resolves them from the TLOG.

What is hard here:

* begin is not covered by the lock of the conflict check; correctness depends
  on the order in which two collections and a counter are read and written;
* the lease thread and the clean-up chore change the same objects as the RPC
  handlers, mostly without their locks;
* RPCs are repeated after a lost reply; objects are looked up before a lock is
  taken and used afterwards;
* single puts and log appends of a sequence fail;
* regions and TMs crash between any two writes of their logs, commit records
  are not synced, and records of the TLOG are deleted with age;
* in the TM process the main thread, the workers and the timer thread meet in
  the objects of transactions, which are taken from a pool and used again.

What makes each component correct:

* endpoint: two transactions prepared at the same time do not conflict; a vote
  is kept; commit and abort take effect once; a prepared transaction does not
  stay for ever;
* observer and log: exactly the prepared, undecided transactions are in doubt
  after a replay, whatever was resolved before;
* client manager: phase two starts only after the last vote, every participant
  learns the decision, retries terminate;
* TLOG: a decision is found as long as a region may ask for it;
* TM process: an object has one worker, an event reaches the transaction it was
  sent to, requests are answered, a transaction has one outcome;
* together: all regions of a transaction end with the same outcome, through
  crashes of regions and TM.

## Modules

| Module | Role |
|---|---|
| `TrxRegion` | one region: endpoint, transaction objects, lease thread and chore, with the properties |
| `TrxRegionProofs` | inductive invariant and theorems about `TrxRegion` |
| `TrxRegionVoteProofs` | a second invariant on top of it, and the theorems about the votes of a region |
| `MCTrxRegion` | two transactions over one or two rows for TLC |
| `TrxClient` | one transaction on the client side: `TransactionManager`, its worker threads, the reply counters, the calls of `HBaseTxClient` and how the TM drives them, with the properties |
| `TrxClientProofs` | inductive invariant and theorems about `TrxClient` |
| `MCTrxClient` | one or two regions for TLC |
| `DtmRecovery` | regions with their logs, the TLOG, the transaction client and its recovery thread composed: crash and recovery of distributed transactions |
| `DtmRecoveryProofs` | inductive invariant and theorems about `DtmRecovery` |
| `MCDtmRecovery` | one region, one or two transactions for TLC |
| `TmThreads` | how the TM process gets a worker thread to the events of a transaction object: pools, association, queues |
| `TmThreadsProofs` | inductive invariant and theorems about `TmThreads` |
| `MCTmThreads` | two threads, three transactions for TLC |
| `TmTxn` | the state machine of one transaction in the TM process, with its requests, timers and branches |
| `TxnOutcome` | abstract specification: what a transaction promises to the application and to the regions; `TmTxn` implements it |
| `TmTxnProofs` | inductive invariant, theorems about `TmTxn` and the refinement of `TxnOutcome` |
| `MCTmTxn` | one transaction and two requests for TLC |

The specifications meet at the calls between the parts. `TrxRegion` has the TM
as an external `phase`; `TrxClient` has a region as the status of the
transaction in it; `TmTxn` has the calls of the HBase library, which `TrxClient`
details, as steps that succeed or fail; `TmThreads` reduces the handlers of
`TmTxn` to whether they end the transaction. `DtmRecovery` composes regions,
client and TLOG, each at the level of its log records.

### TrxRegion

State. The variables have the names of the fields they stand for.
A `TransactionState` object is an element of `TS`, and each of its fields is a
function on `TS`; `TxId` gives the transaction of an object. The distinction
matters: an object whose lease expired is still referenced by other objects'
`transactionsToCheck`, by `commitPendingTransactions` and by waiting handlers,
when the next operation of the same transaction creates another object.
The number of objects, like every other bound, is a constant.
Rows are natural numbers in byte order; what a row contains is left out. A scan
is the set of rows in its range (`ScanRange`, both ends included, as in the
code). Leases are not counted down: a registered object's lease may expire at
any time, `MaxLapses` times.

Threads. An action is what a thread does between two points at which another
thread can see or change what it uses:

| Code | Actions |
|---|---|
| `beginTransaction` | `BeginTransactionCreate` reads the sequence number, `BeginTransactionRegister` copies `commitPendingTransactions` and registers; `beginning` is the holder of the `transactionsById` monitor |
| `put`, `delete`, `get`, `getScanner` | `Put`, `Delete`, `GetScanner` |
| `commitRequest` | `CommitRequestLookup` outside the lock; under the lock `CommitRequestConflict`, `CommitRequestReadOnly`, or `CommitRequestPending` then `CommitRequestSequence`; after the lock `CommitRequestLog`, or `CommitRequestLogEmpty` if the writes are gone; `CommitRequestUnknown` |
| `commit` | `CommitLookup` (status test before the monitor), then `CommitDuplicate`, `CommitFails`, or `CommitApply`, `CommitMark`, `CommitRetire`; `CommitUnknown`. A commit of a registered object that is not COMMIT_PENDING throws and changes nothing |
| `commit(state)` | the parts `CommitStateApply` (rows and commit record), `CommitStateMark` or `CommitStateFailure`, `CommitStateRetire`, with the failures `CommitStatePutFault` and `CommitStateWalFault`; used by the handler of `commit` and by the Leases thread |
| `abortTransaction` | `AbortMark` under the monitor, then `AbortWalFault`, or `AbortRemove` and `AbortRetire`; `AbortDuplicate` |
| `leaseExpired` | `LeaseExpired`, `LeaseSwitch`, then `LeaseAbortMark` and `LeaseAbortRetire`; or `LeaseRenew`; or `LeaseResolve`, `LeaseResolveMark`, `LeaseResolveRetire`, or `LeaseResolveFails`. One thread serves all leases; an exception that escapes, also that of a renewed lease, ends it |
| chore | `ChoreMin`, `ChoreRemove`, `ChoreDetectStale` |
| `recoveryRequest` | `RecoveryRequest` |

The TM is external here and reduced to `phase`: it asks for the vote once the
client has finished, repeats a `commitRequest` whose reply was lost or was an
exception, and decides commit only after COMMIT_OK (`DecideCommit`). It may
decide to abort at any time before (`DecideAbort`), also while this region still
executes the `commitRequest`: `prepareCommit` gives up at the first region that
fails and does not wait for the others. `acked`, `applied`, `overtaken`, `swept` (entries the chore dropped
with the minimum of a region in which nobody was active) and `lapsed` (transactions
that had a lease expire) record history for the properties only.

Abstractions. The two halves of `retireTransaction` (`clearState`, removal from
`transactionsById`) are one step. A transaction has one `commitRequest` handler
and one `commit` handler at a time; a client whose RPC times out while the first handler still runs is
left out. Reading an object's edit while another thread clears it can raise an
exception in the code; these exceptions are left out. `hasConflict` walks the `writeOrdering` of another object that
may be cleared at the same time; the exception this can raise counts as a
conflict in the code and the model leaves this refusal out. `checkAndPut` and
`checkAndDelete` are a read and a write of one row. `closing` (set when the
region closes) is not modelled. `commitIfPossible` is `commitRequest` followed
by `commit`.

### TrxClient

State. `requestPendingCount`, `requestReceivedCount`, `hasError`,
`commitSendDone` and `regionsToIgnore` are the fields of the client's
`TransactionState`. `pc`, `remaining`, `loopCount`, `commitError` and
`allReadOnly` are the TM thread and its local variables; `prepare` and
`request` are what the worker threads do, one for each region in phase one and
one for each region and each call (*drive*) of `doCommit` or `abort` in phase
two. `logged` is the last TLOG record of the transaction, `known` its entry in
`mapTransactionStates`. The set of participating regions is the constant
`Region`.

| Code | Actions |
|---|---|
| `prepareCommit` | `PrepareCommit` submits the workers; `PrepareCommitTake` takes the votes in their order of arrival; `PrepareCommitReturn` with what `HBaseTxClient.prepareCommit` and the TM, or `tryCommit`, make of the result; `PrepareCommitThrow` |
| `doPrepareX` | `CommitRequest` (executed by the region, the answer may be lost), `CommitRequestFault`, `DoPrepareXRetry`, `DoPrepareXFails`, `DoPrepareXVote` |
| `HBaseTxClient.doCommit`, `abortTransaction` | `DoCommit`, `AbortTransaction` (the TLOG record), then the loop `Submit` and `CompleteSendInvoke` with the record FORGOTTEN; `TlogFault` and `ForgottenFault` when an append throws |
| `doCommitX`, `doAbortX` | `Commit`, `CommitRefused`, `Abort` (executed by the region), `CallFault`, `Retry`, `WorkerDies`, `DoCommitXReply`, `DoAbortXReply`, `DoAbortXIgnores` |
| `completeRequest` | `CompleteRequest`, `CompleteRequestReturn`; a worker's `requestPendingCountDec` moves `pc` from `waiting` to `woken` |
| C++ TM | `Rollback`; the redrive of a HUNGCOMMITTED transaction is `ForgottenFault` followed by `DoCommit` |
| region | `Votes` and `LeaseExpired` summarise `TrxRegion`: after a lapse a transaction may begin anew with an empty buffer, and one that was emptied may be answered as read-only |

Two callers are modelled: the TM, which aborts after a refused or failed
`prepareCommit`, and `tryCommit`, which does not and does not wait for replies.

Abstractions. `completeSendInvoke` takes two locks one after the other; it is
one step because the thread that would wait between them is the one that
executes it. `prepareCommit` submits all its workers in one step: nothing it
does before `take` depends on them. Where the code looks a region up again after
an exception, only the failure of the look-up is kept (`MaxLocateFaults`); new
locations are part of the external HBase client. A region executes one call at a
time; overlapping handlers are the subject of `TrxRegion`. The redrive of a
rollback is left out: `completeRequest` never throws after an abort, because
workers of `doAbortX` never report an error. The option
`ignoreUnknownTransactionException` is used by the recovery thread only, which
does not look at errors (`DtmRecovery`). An exception of `threadPool.submit` is left out: the pool is
never shut down and its queue is unbounded. `RETRY_ATTEMPTS` comes from the
environment (default 3) and is assumed to be positive.

### DtmRecovery

State. `reg[r]` is a region: whether it is open (`up`), the status of each
transaction (`pend`), the transactions in doubt (`indoubt`, with `count` of them
by TM), `built` (`reconstructIndoubts`), `state` (`regionState`), `gen`
(`editGenerated`), the write-ahead `log` of which the first `synced` records
survive a crash, and the transactions whose writes are in the region (`store`)
and in its files (`files`). `tlog` has the records of each transaction, `znode`
the recovery zNodes, `phase`, `joined`, `voted`, `todo` and `failed` are the
transaction client, `rec` and `resolve` the recovery thread and its requests.
`decision`, `dropped`, `restored` and `cause` are history.

| Code | Actions and operators |
|---|---|
| `preWALRestore`, `replayCommittedTransaction` | the operators of these names on a log; `PendingAt` says which prepare record a later one refers to |
| `postOpen` | `postOpen`: replay, lists, zNodes; HBase may toss the replayed log out (the comment in the code says so) |
| `constructIndoubtTransactions`, `startRegionAfterRecovery` | operators, called by `beginTransaction` and `recoveryRequest` and at the end of a resolution |
| `commitRequest` | `commitRequest` up to the release of the lock, `LogCommitRequest` (append and sync) |
| `commit`, `abortTransaction` | operators that `Deliver` and `DeliverResolve` apply: commit of a reinstated transaction goes through the log, commit records are not synced, the last transaction in doubt starts the region and deletes the zNode |
| chore | `choreThreadDetectStaleTransactionBranch` |
| HBase | `Flush`, `Crash` (external) |
| TLOG | `putSingleRecord`, `getTransactionState`, `addControlPoint` with `Aged` (`deleteAgedEntries`) |
| `HBaseTxClient` | `prepareCommit`, `doCommit`, `abortOfTM` (`abortTransaction`), `Forget`, `ForgottenFault` (a failed append: the TM drives a commit again), `completeRequest` |
| recovery thread | `checkForRecovery`, `recoveryRequest`, `Resolve`, `DeliverResolve` |
| TM process | `TmCrash`: death and restart in one step |

Assumptions and abstractions. `preWALRestore` ends with `env.complete()` and does
not call `env.bypass()`. Whether HBase then restores the tagged edit as well is
decided in HBase, and is a choice at every `postOpen`: `RestoredEdits` are the
transactions with an edit in the log, and `restored` notes those whose writes this
code would not have brought in. The TM may abort a transaction at any time before
its decision, also when regions have voted. A row of the TLOG has fewer
records than the table keeps versions (five). A zNode is identified by TM and
region; in the code its name has host and port of the region too, so that a
zNode of the old server outlives a move. A zNode that cannot
be created is only logged by the code; here creation succeeds. Conflicts, leases
and epochs are in `TrxRegion`. The append of the decision itself does not fail
here (`TlogFault` of `TrxClient`).

### TmThreads

State. Threads and transaction objects are numbered in the order of
construction. `inUse`, `freeList`, `total` and `objFree`, `objTotal` are the two
pools; `live`, `seq`, `thread`, `pending`, `eventQ`, `cleanup` and `qlock` are
fields of a transaction object (`iv_in_use`, `iv_transid`, `ip_Thread`,
`iv_threadPending`, `iv_eventQ`, `iv_cleanup_sem`, the Qmutex); `disQ` is
`iv_txdisassociatedQ`; `pc`, `threadQ`, `txn` and `msg` are a worker.

| Code | Actions |
|---|---|
| `tm_process_req_begin`, `new_tx` | `new_tx`, with `newElement` of the pool |
| requests | `Request`, then `queueToTransaction` and `eventQ_push` under the Qmutex, in the steps another thread can see: `queueToTransaction`, `TestPending`, `new_thread`, `eventQ_push`, `Signal`, `Park` |
| `txThread_main` | `associate`, `PurgeQueue`, `eventQ_pop`, `TakeEvent`, `Handle`, `req_forget`, `process_eventQ`, `disassociate`, `Cleanup`, `check_for_queued_requests`, `deleteElement` |

`abort()`, and the use of a NULL thread pointer, set `aborted` and stop
everything. A client awaits the reply to a request before it sends the next one, but
the TM queues requests beside the client's: when a timer pops, when a client or a
joiner dies (`tm.cpp:2601`, `2622`), for REGISTERREGION. `Request` allows them all,
and the history variable `overlap` says that one came while another request of its
transaction was under way, or after its end was asked for.

The transaction pool deletes an object above its steady state (`HighObjects`; the
default is 1000 of 5000), and the memory may be used again for the next one. A
pointer to a deleted object that somebody still holds (`Referred`) may bring the
process down. The steady state of the thread pool is its maximum, the default.

`TM_DEQUE::erase` leaves the iterator of the deque invalid, and the loop of
`associate` that purges an object from `txdisassociatedQ` goes on from it. What
happens then is undefined in C++: in `PurgeQueue` a purge that has found an entry
removes some of the entries of its object, at least one, and may bring the process
down.

### TmTxn and TxnOutcome

State. The fields of the transaction object that decide its course (`state`,
`mark`, `flags` for the `iv_..._aborted` flags, `readOnly`, `partic`, `cleanup`,
`live`, `eventQ`, `hungEvent`), the armed timers, the worker (`pc`, the message
and its response code `rsp`, `then` for the call after the state machine), the
main thread in the middle of `doom_txn`, and what the application, the audit
trail and the regions have seen.

| Code | Actions |
|---|---|
| main thread | `Request` (END, END of a process that is not the ender, ABORT, REGISTER), `doom_txn` and `DoomMark`, `req_join`, `req_suspend`, `schedule_abort` |
| timer thread | `AbortTimeout`, `HungTimeout` |
| `process_eventQ` | `req_end`, `ForeignEnd`, `rollback_txn`, `redrivecommit_txn`, `redriverollback_txn`, `req_registerRegion` take a message |
| `state_change(TX_COMMIT)` | one action for one round of its loop: `CommitActive`, `prepare_branches`, `state_change_prepare_helper`, `CommitCommitting`, `state_change_commit_helper`, `CommitComplete`, `CommitForgetting`, `CommitLeave` |
| `state_change(TX_ROLLBACK)` | `RollbackAdvance`, `rollback_branches`, `state_change_abort_helper`, `RollbackLeave` |
| end of a handler | `req_end_complete`, `EndReply`, `req_abort_complete`, `req_forget`, `disassociate`, `Cleanup` |

The state machine calls `abort()` when it is entered in a state its event is not
for; `CommitStates` and `RollbackStates` are the states it accepts. A `doCommit`
whose append to the TLOG fails is reported as a success (`hbasetm.cpp:371-382`), so
that `state_change_commit_helper` may go on though the regions were not told;
`completeRequest` then waits for ever (`CommitComplete` is not enabled). When the
append of FORGOTTEN fails the regions were told, and the commit hangs all the same.

`TxnOutcome` has four variables and four actions: regions prepare, the decision
falls once and for commit only when they have prepared, the regions are told
nothing but the decision, and a code that means commit or abort is returned only
in agreement with it. The mapping reads the decision from the state of the
object, and from what the regions were told once the object has forgotten it;
the answers are those to ENDTRANSACTION. Left out: branches of resource managers
other than HBase and the sync mode, the hand-over of the role of the ender,
statistics.

## Runs

The runs `region_*` use transactions `a` and `b` of one TM. Two transactions are the
conflict the check is about; a third would repeat the pairs.

| Run | Bounds | Shows |
|---|---|---|
| `region_votes` | two rows, one failing log append, after which the TM asks again; the two transactions are interchangeable (symmetry) | `TypeOK`, `PreparedDisjoint`, `VotePromise`, `ReadOnlyVote` under every interleaving without lease expiry and without the chore (one epoch), which are in the theorems |
| `region_silent_tm` | one transaction with one object, one row, `MAX_COMMIT_PENDING_WAITS` 1, four lapses (two renewals, the optimistic commit and one to spare), four epochs (the transaction is stale), one failing put, append and lost reply, so that the optimistic commit of the Leases thread meets `commit` and `abortTransaction` on the same object; 534 thousand states; no symmetry. One object: with two, `retireTransaction` of a thrown away object removes the registration of its successor, whose lease then finds no transaction, and it stays prepared | `CommitFailureIsRace`, `PreparedResolved` |
| `client_phases` | two regions, both callers, `RETRY_ATTEMPTS` 2, two drives; of a failing call, a lost reply (together with it a worker gives up), a refusal of a region, a lapse, a failing append and a failing look-up any four; 835 thousand states | `TypeOK`, `CommitNeedsVotes`, `IgnoredIsForgotten`, `CompleteMeansReplied`, `CommitCompletes`: `completeRequest` returns unless it stays for ever in one of two waits the property names (the decision was never sent after a failed append; a worker has died before its reply was counted) |
| `tm_threads` | two threads and a steady state of one, so that a thread is made, reused and missing; two objects with a high mark of one and three transactions, so that an object is waiting while both threads are taken (one has left its transaction and is not back in the pool), is reused and is deleted; three requests, which may overlap; 266 thousand states | `TypeOK`, `PoolSound`, and until requests overlap `OneServerInTurn`, `WorkIsKnown`, `Answered` |
| `tm_txn` | two requests of any kind, one doom or dying process, one joiner, two failing calls (a vote and a phase two, or a phase two and its redrive), with and without abort timeout and early reply, `Serial` | `TypeOK`, `DeathIsLateDoom`, `ImplementsOutcome`, `EndAnswered`, `HungResolved` |
| `dtm_recovery` | one transaction in one region, two failures of any kind (a crash and a failing read, a flush or a tossed log and a crash, a region and the TM), edits that HBase restores, two control points of which one is kept, so that records age; 323 thousand states. The invariants are theorems for any number of failures | `TypeOK`, `StoredIsExplained`, `LostIsExplained`, `BranchResolved` |
| `dtm_in_doubt` | two transactions of one TM in one region (symmetry), one crash of the server or of the TM (`Failures`; the other kinds are in `dtm_recovery`): the two are in doubt together and resolved in either order by either thread; 2.4 million states | `LostIsExplained`, `InDoubtAnnounced` |

Two regions are enough for `client_*`: one that refuses or fails beside one that
does not, and a reply before, during and after the loop that sends. The
theorems have any number. One region is enough for `dtm_*`: the properties are
about one branch and the TLOG, and what a branch is told does not depend on the
others after the decision.

`CHECK_DEADLOCK FALSE`: a region whose transactions are over and whose bounded
faults are used up does nothing any more, a client whose transaction is
over has returned, and a TM process without requests waits.

Fairness (`FairSpec`).

* `TrxRegion`: RPC handlers that are inside the region, the begin that
  holds its monitor and the lease thread are scheduled, and leases run out. They
  are daemon threads started by `start`. Nothing is assumed of the TM, of the
  client or of the chore.
* `TrxClient`: the TM thread and every submitted worker are
  scheduled. `threadPool` is a fixed pool (16 threads by default) with an
  unbounded queue, larger than the number of workers in the instances; nothing is
  assumed about which calls fail. A waiting thread is woken only by a worker.
* `TmThreads` and `TmTxn`: a thread that can run does, and the timer thread
  delivers an armed hung event. Clients may stop, and the abort timeout need not
  pop. Nothing makes `completeRequest` of the HBase library return (`Returns` is not
  in the fairness of `TmTxn`): `EndAnswered` says that ENDTRANSACTION is answered or
  the worker stays there for ever (`InCompleteRequest`).
* `DtmRecovery`: a region that has crashed is opened again, the recovery thread
  polls for ever (its loop sleeps and catches what is thrown), the chore runs
  periodically, and handlers inside a region come to an end. Nothing is assumed
  of the application or of phase two, so that `BranchResolved` is about the
  recovery alone.

Five runs end in a counterexample. Each states a sentence of the code's own
comments and shows a behaviour of the code that contradicts it; `PROJECT.json`
quotes the line.

| Run | Property | Behaviour |
|---|---|---|
| `region_lost_update` | `ReadsCurrent` | T reads r; U writes r, prepares, commits and is retired, which empties its `writeOrdering`; T's check finds nothing in U and T is prepared on a stale read |
| `region_idle_chore` | `OnlyUnneededRemoved` | the chore finds nobody active, and its minimum is the largest integer; a begins and writes r, b begins, a is prepared; b reads r, the chore drops the entry of a, and the check of b finds a neither in the map nor in its copy of `commitPendingTransactions` |
| `tm_threads_late` | `RightTransaction` | a request is queued between the Qunlock of `disassociate` and `TM_Info::cleanup`; it stays in the object and the next transaction of the object handles it |
| `tm_hung_forgotten` | `HungIsKept` | phase two of a commit hangs; the abort timeout queues a ROLLBACK, for which `rollback_txn` only raises `iv_cleanup_sem`; the object is cleaned up and the redrive is refused |
| `dtm_phase_two` | `TlogTellsOutcome` | all regions confirm a commit; a region crashes with the commit record not synced and is in doubt; control points delete the records of the transaction, which has left the map; the TLOG does not tell its outcome, and the recovery thread aborts the branch |

### Faults that are left out of a passing run

Some of the passing runs leave a fault out on purpose, because the code does not
survive it. Each of these is a step of the model, and raising the bound in the
run's configuration shows it:

| Run | Bound | Behaviour |
|---|---|---|
| `region_votes` | `MaxPutFaults = 1` | `VotePromise` fails: a failing put in phase two aborts a prepared transaction |
| `region_votes` | `MaxLapses = 1` | `ReadOnlyVote` fails: the lease expires between look-up and check of `commitRequest`, and a transaction with writes is answered as read-only |
| `tm_txn` | `Serial = FALSE` | `ImplementsOutcome` fails: an END of a process that is not the ender, queued behind the END of the ender, makes a transaction that is HUNGCOMMITTED and answered FEOK ABORTING. The other properties hold |

`Serial` of `TmTxn` says that the application sends one request at a time; the abort
timeout and dying processes queue theirs beside it in either case.

`LostIsExplained` names the four ways in which a committed branch is lost:
*dropped* (a flush, or a tossed log, removes the prepare edit before the
transaction is resolved, and the server crashes), *early* (the recovery thread
asks for the record of a branch whose votes are still being collected, finds
none and aborts it), *aged* (as in `dtm_phase_two`) and *misread*
(`getTransactionState` swallows an exception and returns without a status). That
there is no fifth one is what the runs show.

### Observations

Other behaviours that were met while modelling. They are steps of the modules,
and no run is about them.

* A lease that expires between two operations throws the buffer away; the next
  operation begins the transaction anew, and half of the writes are committed.
* `completeSendInvoke` resets `hasError` after the last request was handed out;
  an error reported before is lost and `completeRequest` returns normally.
* `requestReceivedCount` is not reset when a commit is driven again: the replies
  of the first time count, and `completeRequest` returns too soon.
* `doAbortX` repeats a call for ever when an exception is followed by
  UnknownTransactionException.
* When requests of a transaction overlap, `OneServer` fails too: a second request
  reads `ip_Thread` before and `iv_threadPending` after the worker of the first one
  associates, gets another thread for the object, and `eventQ_pop` calls `abort()`.
* Two requests that end a transaction and are handled by one worker raise
  `iv_cleanup_sem` to two; its disassociate takes it to one, nobody cleans up, and
  everything that comes later is refused.
* A delete records no read: two transactions that delete or overwrite the same row
  conflict in one order and not in the other.
* `completeRequest` throws when a commit failed in a region; the TM does not look
  at the result and forgets the transaction, whose entry stays in
  `mapTransactionStates`.
* A DOOMTRANSACTION answered with FEOK may be too late for the transaction to
  abort; if the commit then hangs as well, `state_change` calls `abort()`
  (`DeathIsLateDoom` shows that there is no other way to it).
* ABORTTRANSACTION of a transaction that is HUNGCOMMITTED is answered as aborted;
  an END that finds a rolled back transaction forgotten is answered as ended.
* An ABORTTRANSACTION that arrives when the transaction is FORGOTTEN or
  HUNGABORTED enters the state machine where nothing answers it.
* The hung event is deleted by the timer thread when it pops, and
  `ip_hung_event` still points to it.
* `nodeDown` enters the lead TM's own recovery thread in the map in place of the
  rescue thread it has started; `nodeUp` stops the former.
* The optimistic commit of a prepared transaction nobody decided, the aborted
  transaction that stays in `commitPendingTransactions` after a repeated
  `commitRequest`, the lost return code when the TLOG append of the decision
  fails, and `tryCommit`, which leaves regions prepared when another one refuses.

## Proofs

`TrxRegionProofs` proves for all values of the constants (any number of
transactions, objects, rows, any bounds):

* `TypeCorrect`: `Spec => []TypeOK`;
* `PreparedSafe`: `Spec => []PreparedDisjoint`: of two transactions prepared at the
  same time the later one has read nothing the earlier one is about to write, but
  for the two cases of `Unseen` (see below);
* `CommitFailureSafe`: `Spec => []CommitFailureIsRace`: the fatal branch of
  `commit(state)` is reached only by two threads that resolve the same object.

They rest on the assumptions named in `TrxRegion` (`TxIdAssumption`,
`TmIdAssumption`, `NoTSAssumption`, `RowAssumption`, `BoundAssumption`) only.

The argument. `PreparedDisjoint` is not inductive: whether a later
`commitRequest` sees an earlier prepared transaction depends on what its begin
copied, possibly long ago. `CopyInv` supplies this: if `p` is prepared and
numbered and `q` is an active object, then `p` is in `q`'s copy of
`commitPendingTransactions`, or `p`'s number is not below `q`'s start number,
in which case the map still leads the check to it, or `p` is `Unseen` by `q`. It holds because begin reads
the number *before* it copies and `commitRequest` writes them in the other
order. `LockInv` describes the one object between these two writes.
The remaining conjuncts say which threads can hold an object of which status.
`ControlInv` relates the TM's phase to the threads under way: `StoppedInv` (no
operation after the vote), `FreshInv` (an object not allocated yet is nowhere),
`LiveInv` (a registered object of a working transaction is PENDING), `LeaseInv`
and `EndingInv` (what leaseExpired and abort know of the object they hold).
`ObjectInv` relates status, sequence number, buffer and membership of the
collections: `NumberedInv` and `PreparedInv` (numbered objects are the ones that
were prepared), `SequenceInv` (start and sequence numbers are behind
`nextSequenceId`), `GoneInv` (a numbered object that left
`commitPendingTransactions` is empty or about to be emptied).
`MapInv` is about the chore, which drops entries of the map below a minimum it read
earlier. `MinimumInv` says that this minimum stays a lower bound of the start numbers
of the active transactions, also of one that has read its number and is not
registered yet; `EntryInv` that the entry of `p` stays as long as a transaction that
began before `p` got its number is active; `SingleInv` that such a transaction has one
object, which stays registered. Two exceptions are needed, and are the cases of
`Unseen`: the chore has found nobody active and took the largest integer for its
minimum (`swept`; `region_idle_chore` shows what happens then), or a lease of the
later transaction has expired, which takes it out of `transactionsById` where the
chore looks (`lapsed`). The passing runs have no chore beside two transactions; this
part rests on the proof, and TLC checked the property with one pass of the chore, a
lapse and a failing put (1.9 million states) before it was proved.
The three steps that end in `retireTransaction` share the lemma
`RetireInvStep`; `LightInvStep` treats the actions that touch few conjuncts
together, `InvStep` the others one by one, each with one step per conjunct. TLC
checked the parts of the invariant before they were proved.

`TrxClientProofs` proves for every finite set of regions, every positive
`RETRY_ATTEMPTS` and all bounds:

* `ClientTypeCorrect`: `Spec => []TypeOK`;
* `CommitNeedsVotesAlways`: `Spec => []CommitNeedsVotes`;
* `IgnoredForgotten`: `Spec => []IgnoredIsForgotten`;
* `CompleteSafe`: `Spec => []CompleteMeansReplied`.

They rest on `RegionAssumption` and `BoundAssumption`. `VoteInv` ties what
`prepareCommit` remembers to the published votes; a vote never changes once it
is published, so late workers cannot disturb a decision. `IgnoreInv` adds the
answers that are still on their way to `addRegionToIgnore`. For
`CompleteMeansReplied` the counters are not enough: `CountInv` says that
`loopCount` is the cardinality of the set of requests sent and
`requestReceivedCount` that of the replies counted, and `WaitInv` that the
number of requests is recorded before the TM thread waits and that it is woken by
an error or by the last reply. When `completeRequest` returns normally the
smaller set has the cardinality of the larger one and is therefore equal to it.
The theorem is about the first drive; the counters are not reset for a later one
(see *Observations*).

`TrxRegionVoteProofs` proves, again for all values of the constants:

* `VoteIsKept`: `Spec => [](NoLapse /\ NoPutFault => VotePromise)`;
* `ReadOnlyVoteIsHonest`: `Spec => [](NoLapse => ReadOnlyVote)`.

`NoLapse` and `NoPutFault` say of a state that no lease has expired and no put or
delete of a commit has thrown on the way to it. They are not assumptions on the
constants: the theorems are about every behaviour up to the first such event, and
*Faults that are left out of a passing run* shows that each of them is needed. Lost
replies, repeated `commitRequest`s, failing log appends, transactions with several
objects and aborts that overtake a running `commitRequest` are covered. The
invariant (`VoteInv`) ties the progress of the handlers to what the TM knows
(`AskedInv`, `DecidedInv`), shows that a transaction has one object in use
(`SoleInv`, because the object of a working transaction is registered, `WorkInv`),
that it holds what was acknowledged (`BufferInv`, `EmptyInv`), and that it stays
prepared until the writes are moved (`KeptInv`, `MovedInv`). TLC checked it with
two objects for one of two transactions (890 thousand states) before it was proved.

`TmTxnProofs` proves for all bounds:

* `TxnTypeCorrect`: `Spec => []TypeOK`;
* `DeathOnlyByLateDoom`: `Spec => []DeathIsLateDoom`: the fatal branch of
  `state_change` is reached only by a doom that comes after the worker has looked;
* `OutcomeImplemented`: `Serial => (Spec => ImplementsOutcome)`: the state machine
  of the transaction implements `TxnOutcome`.

The first two need `BoundAssumption` only. `ControlInv` says in which states of the
transaction each part of the worker's code runs, `DoomInv` what mark, flags and
votes can be there, `MessageInv` that a request is queued at most once and not
answered while it waits. The refinement is false without `Serial` (see *Faults
that are left out*); with it, `SerialInv` (at most one request can end the
transaction), `EnderInv`, `ToldInv`, `RedriveInv` and `ReplyInv` join the
invariant. The initial states map to initial states; every step has one of the
effects of an abstract step on the decision, the votes and the regions (`Effect`)
and gives at most one answer, which agrees with the decision (`Agreement`).

`DtmRecoveryProofs` proves for any sets of transactions, regions and TMs, any
number of crashes, flushes, control points and failing reads
(`ConstantAssumption`):

* `RecoveryTypeCorrect`: `Spec => []TypeOK`;
* `TablesAreExplained`: `Spec => []StoredIsExplained`: no replay of a commit record,
  no resolution and no late request brings in writes that the TM has not decided to
  commit; what else is in a table came with a restore of the log by HBase itself;
* `InDoubtIsAnnounced`: `Spec => []InDoubtAnnounced`;
* `LossIsExplained`: `Spec => []LostIsExplained`: there is no fifth way to lose a
  committed branch.

`LostIsExplained` speaks of a region that runs; a crash takes away all it speaks
of. `DurableInv` therefore says what the synced part of the log and the files would
give back after a crash, and says it from the vote on. It needs `LoggingInv` (the
entry of a transaction is still there when its prepare record is written),
`TlogInv` (a record of the TLOG is the decision, and is there unless it went with
age) and `RecoveryInv` (the recovery thread does not go against the decision
unless one of the causes is noted). `StoredIsExplained` needs the same for what the
logs would bring in (`Within`), `InDoubtAnnounced` the counts by which a region
decides to delete a zNode (`Counted`). A replay is modelled by which records of a
transaction are in the log and in which order, without recursion; the lemmas about
it take the first or the last such record.

`TmThreadsProofs` proves for pools of any size and any number of threads that queue
requests:

* `ThreadsTypeCorrect`: `Spec => []TypeOK`;
* `ThreadPoolSound`: `Spec => []PoolSound`;
* `OneServerUntilOverlap`: `Spec => []OneServerInTurn`: until two requests of one
  transaction overlap, an object has one thread and the process does not go down;
* `WorkKnownUntilOverlap`: `Spec => []WorkIsKnown`, likewise until requests overlap.

They rest on `PoolAssumption` and `EnvironmentAssumption`. The first two hold however
requests overlap, from invariants of their own: `TypeInv` adds to the types what keeps
the totals of the pools within their bounds, and `PoolCore` says that only a thread in
use leaves the idle state or is told of an object, one at a time, and that the free
list holds the other constructed threads once each. The other two are about every
behaviour up to the first overlap (the invariant is `overlap \/ Inv`); the run
`tm_threads_late` and *Observations* show what an overlap does.
That an object has one server depends on what `eventQ_push` saw when it read
`ip_Thread`, several steps before the new thread gets its INITIALIZE event. The one
idea behind `Inv` (`Control`, `Life`, `Service`, `Queueing`) is that of a single
request in flight: it is carried by a pusher, is the only event of `iv_eventQ`, or is
being handled, and is never in two of these places. TLC checked the invariants before
they were proved.

Every safety invariant of a passing run is the subject of a theorem. Only
model-checked:

* liveness (`PreparedResolved`, `CommitCompletes`, `Answered`, `EndAnswered`,
  `HungResolved`, `BranchResolved`): fairness and ENABLED are out of reach of the
  prover;
* the runs that end in a counterexample: TLC's trace is the result;
* which of the properties fail with the faults of *Faults that are left out of a
  passing run*.

Induction over data and RECURSIVE operators are out of its reach too; the modules need
neither.

## Plan

Done: the five modules with their runs, and a theorem for every safety invariant.
Left to prove:

1. action properties from the invariants at hand: a decision of `TmTxn` and a record
   of the TLOG are never revised, a vote of `TrxClient` never changes;
2. `TxnOutcome` itself: that what it promises follows from its four actions.

## Not modelled

Contents of rows and scanner merging; aggregates; split and close of a region;
`nodeDown` and `nodeUp` of the lead TM; recovery zNodes that cannot be created; the restart of the audit sequence number;
branches of resource managers other than HBase, takeover between TM processes
and their recovery from the audit trail; the thread model that dedicates a thread
to a transaction, and a thread pool with a steady state below its maximum; the
TM library, a request and its reply; statistics and tracing; the legacy
transaction loggers and the JTA adapter; generated protocol code; seabed, stfs,
sp_proxy and the messaging layers (used as reliable request/reply); the SQL
engine, the drivers and the security library. The last three groups are most of
the repository's lines; they keep no state of the transaction protocols.
