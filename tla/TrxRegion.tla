----------------------------- MODULE TrxRegion -----------------------------
(***************************************************************************)
(* One region of a transactional HBase table: the coprocessor              *)
(* TrxRegionEndpoint together with the TransactionState objects it keeps.  *)
(* The module models one life of the region, from its start (no in-doubt   *)
(* transaction, regionState 2) to its end; what survives a crash is the    *)
(* subject of module DtmRecovery.                                          *)
(*                                                                         *)
(* The region runs optimistic concurrency control.  Every operation of a   *)
(* transaction is buffered in its TransactionState, commitRequest (phase   *)
(* one) checks the rows read against the rows that concurrent transactions *)
(* wrote, and commit (phase two) moves the buffer into the table.  Four    *)
(* kinds of threads share the state:                                       *)
(*   - RPC handlers, which hold commitCheckLock during the check and the   *)
(*     xaOperation monitor of the transaction during phase two;            *)
(*   - the Leases thread, which calls leaseExpired;                        *)
(*   - the CleanOldTransactionsChore thread;                               *)
(*   - the begin of a transaction, under the transactionsById monitor.     *)
(* An action is what one thread does between two points at which another   *)
(* thread can observe or change what it uses.                              *)
(*                                                                         *)
(* A TransactionState object is an element of TS; TxId gives the           *)
(* transaction it belongs to.  A transaction can have several objects: one *)
(* that was thrown away can still be referenced by the region's            *)
(* collections while beginTransIfNotExist has created the next.            *)
(***************************************************************************)
EXTENDS Integers, FiniteSets

CONSTANTS
    Tid,          \* transaction identifiers
    Tm,           \* transaction managers, the high word of an identifier
    TS,           \* the TransactionState objects the heap can hold
    Row,          \* row keys, in their byte order
    NoTS,         \* null
    TxId,         \* TransactionState.getTransactionId
    TmId,         \* transactionId >> 32
    MAX_COMMIT_PENDING_WAITS,
    \* Bounds of the model, not of the code:
    MaxEpoch,     \* control point epochs, that is runs of the chore
    MaxLapses,    \* leases that expire
    MaxPutFaults, \* exceptions of m_Region.put and m_Region.delete
    MaxWalFaults, \* exceptions of the append to the write-ahead log
    MaxLost       \* replies to commitRequest that never reach the client

ASSUME TxIdAssumption == TxId \in [TS -> Tid]
ASSUME TmIdAssumption == TmId \in [Tid -> Tm]
ASSUME RowAssumption == Row \subseteq Nat
ASSUME NoTSAssumption == NoTS \notin TS
ASSUME BoundAssumption ==
    /\ MAX_COMMIT_PENDING_WAITS \in Nat
    /\ {MaxEpoch, MaxLapses, MaxPutFaults, MaxWalFaults, MaxLost} \subseteq Nat

VARIABLES
    \* fields of TrxRegionEndpoint
    transactionsById,          \* the object registered for a transaction
    commitPendingTransactions,
    commitedTransactionsBySequenceNumber, \* pairs <<sequence number, object>>
    nextSequenceId,
    controlPointEpoch,
    zNodes,                    \* TMs asked, through ZooKeeper, to run recovery
    \* fields of the TransactionState objects
    status,                    \* FREE: not allocated yet
    scans,                     \* the rows inside the recorded scan ranges
    writeOrdering,             \* the rows with a buffered put or delete
    transactionsToCheck,
    startSequenceNumber,
    sequenceNumber,            \* -1: null
    commitPendingWaits,
    controlPointEpochAtPrepare,
    commitProgress,
    \* where the threads are
    beginning,                 \* holder of the transactionsById monitor in begin
    requesting,                \* commitRequest has looked its object up
    commitCheckLock,           \* holder of the lock that passed the check
    logging,                   \* commitRequest is about to write the log
    committing,                \* progress of commit on an object
    aborting,                  \* progress of abortTransaction on an object
    expired,                   \* progress of leaseExpired on an object
    chore,                     \* progress of the chore
    \* the client side, and what the properties look back at
    phase,                     \* what the TM has asked for and been told
    acked,                     \* rows whose put or delete was acknowledged
    applied,                   \* transactions whose writes reached the table
    overtaken,                 \* rows read by a PENDING object, then overwritten
    swept,                     \* entries the chore dropped with the minimum of
                               \* an empty region
    lapsed,                    \* transactions that had a lease expire
    used                       \* how much of each bound is used up

regionVars == <<transactionsById, commitPendingTransactions,
                commitedTransactionsBySequenceNumber, nextSequenceId>>
epochVars  == <<controlPointEpoch, zNodes, swept, lapsed>>
bufferVars == <<scans, writeOrdering, transactionsToCheck>>
numberVars == <<startSequenceNumber, sequenceNumber, commitPendingWaits,
                controlPointEpochAtPrepare>>
threadVars == <<beginning, requesting, commitCheckLock, logging, committing,
                aborting, expired, chore>>
clientVars == <<phase, acked, applied, overtaken, used>>
vars == <<regionVars, epochVars, status, bufferVars, numberVars,
          commitProgress, threadVars, clientVars>>

Status == {"FREE", "PENDING", "COMMIT_PENDING", "COMMITED", "ABORTED"}
CommitProgress == {"NONE", "COMMITTING", "COMMITED"}

\* The client's view of the transaction in this region.  "refused" and
\* "readonly" put the region on the TM's list of regions to ignore.
Phase == {"work", "prepare", "voted", "readonly", "refused",
          "commit", "abort", "done"}

Bounded == {"lapse", "put", "wal", "lost"}
Limit == [b \in Bounded |-> CASE b = "lapse" -> MaxLapses
                              [] b = "put"   -> MaxPutFaults
                              [] b = "wal"   -> MaxWalFaults
                              [] b = "lost"  -> MaxLost]
Use(b) == /\ used[b] < Limit[b]
          /\ used' = [used EXCEPT ![b] = @ + 1]

\* The chore is idle, holds the minimum it has read (-1 stands for
\* Integer.MAX_VALUE, no active transaction), or has cleaned up.
ChoreIdle    == [at |-> "idle",   min |-> 0]
ChoreCleaned == [at |-> "cleaned", min |-> 0]
ChoreHolds(m) == [at |-> "holds", min |-> m]

TypeOK ==
    /\ transactionsById \in [Tid -> TS \cup {NoTS}]
    /\ commitPendingTransactions \subseteq TS
    /\ commitedTransactionsBySequenceNumber \subseteq (Nat \X TS)
    /\ nextSequenceId \in Nat
    /\ controlPointEpoch \in Nat
    /\ zNodes \subseteq Tm
    /\ status \in [TS -> Status]
    /\ scans \in [TS -> SUBSET Row]
    /\ writeOrdering \in [TS -> SUBSET Row]
    /\ transactionsToCheck \in [TS -> SUBSET TS]
    /\ startSequenceNumber \in [TS -> Nat]
    /\ sequenceNumber \in [TS -> Nat \cup {-1}]
    /\ commitPendingWaits \in [TS -> Nat]
    /\ controlPointEpochAtPrepare \in [TS -> Nat]
    /\ commitProgress \in [TS -> CommitProgress]
    /\ beginning \in TS \cup {NoTS}
    /\ requesting \subseteq TS
    /\ commitCheckLock \in TS \cup {NoTS}
    /\ logging \subseteq TS
    /\ committing \in [TS -> {"no", "found", "applied", "marked"}]
    /\ aborting \in [TS -> {"no", "marked", "removed"}]
    /\ expired \in [TS -> {"no", "removed", "sawPending", "aborted",
                            "sawCommitPending", "applied", "marked", "threw"}]
    /\ chore \in [at : {"idle", "holds", "cleaned"}, min : Nat \cup {-1}]
    /\ phase \in [Tid -> Phase]
    /\ acked \in [Tid -> SUBSET Row]
    /\ applied \subseteq Tid
    /\ overtaken \in [TS -> SUBSET Row]
    /\ swept \subseteq (Nat \X TS)
    /\ lapsed \subseteq Tid
    /\ used \in [Bounded -> Nat]

Init ==
    /\ transactionsById = [t \in Tid |-> NoTS]
    /\ commitPendingTransactions = {}
    /\ commitedTransactionsBySequenceNumber = {}
    /\ nextSequenceId = 0
    /\ controlPointEpoch = 1
    /\ zNodes = {}
    /\ status = [h \in TS |-> "FREE"]
    /\ scans = [h \in TS |-> {}]
    /\ writeOrdering = [h \in TS |-> {}]
    /\ transactionsToCheck = [h \in TS |-> {}]
    /\ startSequenceNumber = [h \in TS |-> 0]
    /\ sequenceNumber = [h \in TS |-> -1]
    /\ commitPendingWaits = [h \in TS |-> 0]
    /\ controlPointEpochAtPrepare = [h \in TS |-> 0]
    /\ commitProgress = [h \in TS |-> "NONE"]
    /\ beginning = NoTS
    /\ requesting = {}
    /\ commitCheckLock = NoTS
    /\ logging = {}
    /\ committing = [h \in TS |-> "no"]
    /\ aborting = [h \in TS |-> "no"]
    /\ expired = [h \in TS |-> "no"]
    /\ chore = ChoreIdle
    /\ phase = [t \in Tid |-> "work"]
    /\ acked = [t \in Tid |-> {}]
    /\ applied = {}
    /\ overtaken = [h \in TS |-> {}]
    /\ swept = {}
    /\ lapsed = {}
    /\ used = [b \in Bounded |-> 0]

----------------------------------------------------------------------------
(* beginTransIfNotExist: the first operation of a transaction creates its  *)
(* object.  The sequence number is read first and commitPendingTransactions *)
(* is copied afterwards; commitRequest writes them in the opposite order.  *)

\* Mutant: the start number is the last one given out, not the next one.
StartAtLastNumber(h) ==
    /\ phase[TxId[h]] = "work"
    /\ transactionsById[TxId[h]] = NoTS
    /\ beginning = NoTS
    /\ status[h] = "FREE"
    /\ status' = [status EXCEPT ![h] = "PENDING"]
    /\ startSequenceNumber' = [startSequenceNumber EXCEPT ![h] = nextSequenceId - 1]
    /\ beginning' = h
    /\ UNCHANGED <<regionVars, epochVars, bufferVars, sequenceNumber,
                   commitPendingWaits, controlPointEpochAtPrepare,
                   commitProgress, requesting, commitCheckLock, logging,
                   committing, aborting, expired, chore, clientVars>>

BeginTransactionCreate(h) ==
    /\ phase[TxId[h]] = "work"
    /\ transactionsById[TxId[h]] = NoTS
    /\ beginning = NoTS
    /\ status[h] = "FREE"
    /\ status' = [status EXCEPT ![h] = "PENDING"]
    /\ startSequenceNumber' = [startSequenceNumber EXCEPT ![h] = nextSequenceId]
    /\ beginning' = h
    /\ UNCHANGED <<regionVars, epochVars, bufferVars, sequenceNumber,
                   commitPendingWaits, controlPointEpochAtPrepare,
                   commitProgress, requesting, commitCheckLock, logging,
                   committing, aborting, expired, chore, clientVars>>

\* Mutant: commitPendingTransactions is not copied.
RegisterWithoutCopy(h) ==
    /\ beginning = h
    /\ transactionsById' = [transactionsById EXCEPT ![TxId[h]] = h]
    /\ beginning' = NoTS
    /\ UNCHANGED <<commitPendingTransactions,
                   commitedTransactionsBySequenceNumber, nextSequenceId,
                   epochVars, status, bufferVars, numberVars,
                   commitProgress, requesting, commitCheckLock, logging,
                   committing, aborting, expired, chore, clientVars>>

BeginTransactionRegister(h) ==
    /\ beginning = h
    /\ transactionsToCheck' =
           [transactionsToCheck EXCEPT ![h] = commitPendingTransactions]
    /\ transactionsById' = [transactionsById EXCEPT ![TxId[h]] = h]
    /\ beginning' = NoTS
    /\ UNCHANGED <<commitPendingTransactions,
                   commitedTransactionsBySequenceNumber, nextSequenceId,
                   epochVars, status, scans, writeOrdering, numberVars,
                   commitProgress, requesting, commitCheckLock, logging,
                   committing, aborting, expired, chore, clientVars>>

\* An operation of the client on the registered object h.
Operation(h) ==
    /\ phase[TxId[h]] = "work"
    /\ transactionsById[TxId[h]] = h
    /\ UNCHANGED <<regionVars, epochVars, status, transactionsToCheck,
                   numberVars, commitProgress, threadVars, phase, applied,
                   overtaken, used>>

\* Mutant: the buffer keeps the last write only.
PutLastOnly(h, r) ==
    /\ Operation(h)
    /\ scans' = [scans EXCEPT ![h] = @ \cup {r}]
    /\ writeOrdering' = [writeOrdering EXCEPT ![h] = {r}]
    /\ acked' = [acked EXCEPT ![TxId[h]] = @ \cup {r}]

\* put and addWrite: the row written counts as read as well.
Put(h, r) ==
    /\ Operation(h)
    /\ scans' = [scans EXCEPT ![h] = @ \cup {r}]
    /\ writeOrdering' = [writeOrdering EXCEPT ![h] = @ \cup {r}]
    /\ acked' = [acked EXCEPT ![TxId[h]] = @ \cup {r}]

\* Mutant: a delete is not entered in writeOrdering.
DeleteUnordered(h, r) ==
    /\ Operation(h)
    /\ acked' = [acked EXCEPT ![TxId[h]] = @ \cup {r}]
    /\ UNCHANGED <<scans, writeOrdering>>

\* delete and addDelete: the row deleted does not count as read.
Delete(h, r) ==
    /\ Operation(h)
    /\ writeOrdering' = [writeOrdering EXCEPT ![h] = @ \cup {r}]
    /\ acked' = [acked EXCEPT ![TxId[h]] = @ \cup {r}]
    /\ UNCHANGED scans

\* ScanRange.contains: both ends belong to the range.
ScanRange(startRow, endRow) == {r \in Row : startRow <= r /\ r <= endRow}

\* getScanner, and get, whose range is the single row.
GetScanner(h, startRow, endRow) ==
    /\ Operation(h)
    /\ scans' = [scans EXCEPT ![h] = @ \cup ScanRange(startRow, endRow)]
    /\ UNCHANGED <<writeOrdering, acked>>

----------------------------------------------------------------------------
(* retireTransaction: clearState empties the object and the transaction is *)
(* removed by its identifier, whatever object is registered under it.      *)

RetireTransaction(h) ==
    /\ scans' = [scans EXCEPT ![h] = {}]
    /\ writeOrdering' = [writeOrdering EXCEPT ![h] = {}]
    /\ transactionsToCheck' = [transactionsToCheck EXCEPT ![h] = {}]
    /\ transactionsById' = [transactionsById EXCEPT ![TxId[h]] = NoTS]

----------------------------------------------------------------------------
(* commitRequest, phase one.                                               *)

\* The first operation of transaction t is being executed.
Beginning(t) == \E h \in TS : beginning = h /\ TxId[h] = t

\* No commitRequest of transaction t is being executed.
NoRequest(t) ==
    \A h \in TS : TxId[h] = t =>
        h \notin requesting \cup logging /\ commitCheckLock # h

\* The TM learns the vote v, or the reply is lost and it will ask again.  A
\* TM that has decided to abort does not listen any more.
Reply(t, v) ==
    \/ /\ phase[t] = "prepare"
       /\ phase' = [phase EXCEPT ![t] = v]
       /\ UNCHANGED used
    \/ phase[t] = "prepare" /\ Use("lost") /\ UNCHANGED phase
    \/ phase[t] # "prepare" /\ UNCHANGED <<phase, used>>

\* getTransactionState finds nothing: COMMIT_UNSUCCESSFUL.
CommitRequestUnknown(t) ==
    /\ phase[t] \in {"work", "prepare"}
    /\ NoRequest(t)
    /\ transactionsById[t] = NoTS
    /\ ~Beginning(t)
    /\ phase' = [phase EXCEPT ![t] = "refused"]
    /\ UNCHANGED <<regionVars, epochVars, status, bufferVars, numberVars,
                   commitProgress, threadVars, acked, applied, overtaken, used>>

CommitRequestLookup(h) ==
    /\ phase[TxId[h]] \in {"work", "prepare"}
    /\ NoRequest(TxId[h])
    /\ transactionsById[TxId[h]] = h
    /\ requesting' = requesting \cup {h}
    /\ phase' = [phase EXCEPT ![TxId[h]] = "prepare"]
    /\ UNCHANGED <<regionVars, epochVars, status, bufferVars, numberVars,
                   commitProgress, beginning, commitCheckLock, logging,
                   committing, aborting, expired, chore, acked, applied,
                   overtaken, used>>

\* hasConflict: the objects with a sequence number from the start of h on
\* join those collected when h began, and a row that a live one of another
\* transaction wrote must not be a row that h read.
ToCheck(h) ==
    transactionsToCheck[h] \cup
        {o \in TS : \E i \in startSequenceNumber[h] .. (nextSequenceId - 1) :
                        <<i, o>> \in commitedTransactionsBySequenceNumber}

ConflictsWith(h, o) ==
    /\ status[o] # "ABORTED"
    /\ TxId[o] # TxId[h]
    /\ writeOrdering[o] \cap scans[h] # {}

HasConflict(h) == \E o \in ToCheck(h) : ConflictsWith(h, o)

CommitRequestConflict(h) ==
    /\ h \in requesting
    /\ commitCheckLock = NoTS
    /\ HasConflict(h)
    /\ status' = [status EXCEPT ![h] = "ABORTED"]
    /\ RetireTransaction(h)
    /\ requesting' = requesting \ {h}
    /\ Reply(TxId[h], "refused")
    /\ UNCHANGED <<commitPendingTransactions,
                   commitedTransactionsBySequenceNumber, nextSequenceId,
                   epochVars, numberVars, commitProgress, beginning,
                   commitCheckLock, logging, committing, aborting, expired,
                   chore, acked, applied, overtaken>>

\* No conflict and no writes: the region forgets the transaction.
CommitRequestReadOnly(h) ==
    /\ h \in requesting
    /\ commitCheckLock = NoTS
    /\ ~HasConflict(h)
    /\ writeOrdering[h] = {}
    /\ status' = [status EXCEPT ![h] = "COMMITED"]
    /\ RetireTransaction(h)
    /\ requesting' = requesting \ {h}
    /\ Reply(TxId[h], "readonly")
    /\ UNCHANGED <<commitPendingTransactions,
                   commitedTransactionsBySequenceNumber, nextSequenceId,
                   epochVars, numberVars, commitProgress, beginning,
                   commitCheckLock, logging, committing, aborting, expired,
                   chore, acked, applied, overtaken>>

\* Mutant: the object is marked but not entered in commitPendingTransactions.
PendingNotEntered(h) ==
    /\ h \in requesting
    /\ commitCheckLock = NoTS
    /\ ~HasConflict(h)
    /\ writeOrdering[h] # {}
    /\ transactionsToCheck' = [transactionsToCheck EXCEPT ![h] = ToCheck(h)]
    /\ status' = [status EXCEPT ![h] = "COMMIT_PENDING"]
    /\ controlPointEpochAtPrepare' =
           [controlPointEpochAtPrepare EXCEPT ![h] = controlPointEpoch]
    /\ requesting' = requesting \ {h}
    /\ commitCheckLock' = h
    /\ UNCHANGED <<regionVars, epochVars, scans, writeOrdering,
                   startSequenceNumber, sequenceNumber, commitPendingWaits,
                   commitProgress, beginning, logging, committing, aborting,
                   expired, chore, clientVars>>

\* "Order is important": commitPendingTransactions first ...
CommitRequestPending(h) ==
    /\ h \in requesting
    /\ commitCheckLock = NoTS
    /\ ~HasConflict(h)
    /\ writeOrdering[h] # {}
    /\ transactionsToCheck' = [transactionsToCheck EXCEPT ![h] = ToCheck(h)]
    /\ status' = [status EXCEPT ![h] = "COMMIT_PENDING"]
    /\ controlPointEpochAtPrepare' =
           [controlPointEpochAtPrepare EXCEPT ![h] = controlPointEpoch]
    /\ commitPendingTransactions' = commitPendingTransactions \cup {h}
    /\ requesting' = requesting \ {h}
    /\ commitCheckLock' = h
    /\ UNCHANGED <<transactionsById, commitedTransactionsBySequenceNumber,
                   nextSequenceId, epochVars, scans, writeOrdering,
                   startSequenceNumber, sequenceNumber, commitPendingWaits,
                   commitProgress, beginning, logging, committing, aborting,
                   expired, chore, clientVars>>

\* ... and the sequence number second, before the lock is released.
CommitRequestSequence(h) ==
    /\ commitCheckLock = h
    /\ sequenceNumber' = [sequenceNumber EXCEPT ![h] = nextSequenceId]
    /\ commitedTransactionsBySequenceNumber' =
           commitedTransactionsBySequenceNumber \cup {<<nextSequenceId, h>>}
    /\ nextSequenceId' = nextSequenceId + 1
    /\ commitCheckLock' = NoTS
    /\ logging' = logging \cup {h}
    /\ UNCHANGED <<transactionsById, commitPendingTransactions, epochVars,
                   status, bufferVars, startSequenceNumber,
                   commitPendingWaits, controlPointEpochAtPrepare,
                   commitProgress, beginning, requesting, committing,
                   aborting, expired, chore, clientVars>>

\* The log is written and synced after the lock is released, if the object
\* still has writes; an IOException leaves it COMMIT_PENDING.
CommitRequestLog(h) ==
    /\ h \in logging
    /\ writeOrdering[h] # {}
    /\ logging' = logging \ {h}
    /\ \/ Reply(TxId[h], "voted")
       \/ Use("wal") /\ UNCHANGED phase
    /\ UNCHANGED <<regionVars, epochVars, status, bufferVars, numberVars,
                   commitProgress, beginning, requesting, commitCheckLock,
                   committing, aborting, expired, chore, acked, applied,
                   overtaken>>

\* The writes were cleared meanwhile: the object leaves as a read-only one.
CommitRequestLogEmpty(h) ==
    /\ h \in logging
    /\ writeOrdering[h] = {}
    /\ logging' = logging \ {h}
    /\ status' = [status EXCEPT ![h] = "COMMITED"]
    /\ RetireTransaction(h)
    /\ Reply(TxId[h], "readonly")
    /\ UNCHANGED <<commitPendingTransactions,
                   commitedTransactionsBySequenceNumber, nextSequenceId,
                   epochVars, numberVars, commitProgress, beginning,
                   requesting, commitCheckLock, committing, aborting,
                   expired, chore, acked, applied, overtaken>>

----------------------------------------------------------------------------
(* The decision of the TM, which sees the votes of all regions.            *)

DecideCommit(t) ==
    /\ phase[t] = "voted"
    /\ phase' = [phase EXCEPT ![t] = "commit"]
    /\ UNCHANGED <<regionVars, epochVars, status, bufferVars, numberVars,
                   commitProgress, threadVars, acked, applied, overtaken, used>>

\* One refusal or failure of another region is enough: prepareCommit does
\* not wait for the commitRequest that this region may be executing.
DecideAbort(t) ==
    /\ phase[t] \in {"work", "prepare", "voted"}
    /\ ~Beginning(t)
    /\ phase' = [phase EXCEPT ![t] = "abort"]
    /\ UNCHANGED <<regionVars, epochVars, status, bufferVars, numberVars,
                   commitProgress, threadVars, acked, applied, overtaken, used>>

----------------------------------------------------------------------------
(* commit and abortTransaction, phase two.                                 *)

\* The rows written by h reach the table: what PENDING objects of other
\* transactions have read of them is out of date from now on.
ApplyWrites(h, rows) ==
    overtaken' = [o \in TS |->
        IF o # h /\ status[o] = "PENDING"
        THEN overtaken[o] \cup (scans[o] \cap rows) ELSE overtaken[o]]

\* commit(state), run by an RPC handler and by the Leases thread.  First the
\* writes are moved into the table and the commit record is appended ...
CommitStateApply(h) ==
    /\ ApplyWrites(h, writeOrdering[h])
    /\ applied' = IF writeOrdering[h] # {} THEN applied \cup {TxId[h]} ELSE applied
    /\ UNCHANGED <<regionVars, epochVars, status, bufferVars, numberVars>>

\* ... unless a put or delete throws after some of the rows were written: the
\* object is ABORTED and retired, and stays in commitPendingTransactions ...
CommitStatePutFault(h) ==
    /\ Use("put")
    /\ \E rows \in SUBSET writeOrdering[h] :
           rows # writeOrdering[h] /\ ApplyWrites(h, rows)
    /\ status' = [status EXCEPT ![h] = "ABORTED"]
    /\ RetireTransaction(h)
    /\ UNCHANGED <<commitPendingTransactions,
                   commitedTransactionsBySequenceNumber, nextSequenceId,
                   epochVars, numberVars, applied>>

\* ... or the append of the commit record throws after that.
CommitStateWalFault(h) ==
    /\ writeOrdering[h] # {}
    /\ Use("wal")
    /\ CommitStateApply(h)

\* Then the object is marked and leaves commitPendingTransactions ...
CommitStateMark(h) ==
    /\ writeOrdering[h] # {} => h \in commitPendingTransactions
    /\ status' = [status EXCEPT ![h] = "COMMITED"]
    /\ commitPendingTransactions' =
           IF writeOrdering[h] # {} THEN commitPendingTransactions \ {h}
                                    ELSE commitPendingTransactions
    /\ UNCHANGED <<transactionsById, commitedTransactionsBySequenceNumber,
                   nextSequenceId, epochVars, bufferVars, numberVars,
                   commitProgress>>

\* ... where it must be: "commit failure" otherwise.
CommitStateFailure(h) ==
    /\ writeOrdering[h] # {}
    /\ h \notin commitPendingTransactions
    /\ status' = [status EXCEPT ![h] = "COMMITED"]
    /\ UNCHANGED <<regionVars, epochVars, bufferVars, numberVars,
                   commitProgress>>

\* Finally it is retired.
CommitStateRetire(h) ==
    /\ commitProgress' = [commitProgress EXCEPT ![h] = "COMMITED"]
    /\ RetireTransaction(h)
    /\ UNCHANGED <<commitPendingTransactions,
                   commitedTransactionsBySequenceNumber, nextSequenceId,
                   epochVars, status, numberVars>>

\* commit(transactionId) of an unknown transaction: an exception the TM does
\* not retry, or nothing at all when it asked to ignore it.
CommitUnknown(t) ==
    /\ phase[t] = "commit"
    /\ transactionsById[t] = NoTS
    /\ \A h \in TS : TxId[h] = t => committing[h] = "no"
    /\ phase' = [phase EXCEPT ![t] = "done"]
    /\ UNCHANGED <<regionVars, epochVars, status, bufferVars, numberVars,
                   commitProgress, threadVars, acked, applied, overtaken, used>>

\* The status is tested before the monitor of the object is taken.
CommitLookup(h) ==
    /\ phase[TxId[h]] = "commit"
    /\ transactionsById[TxId[h]] = h
    /\ status[h] = "COMMIT_PENDING"
    /\ committing[h] = "no"
    /\ committing' = [committing EXCEPT ![h] = "found"]
    /\ UNCHANGED <<regionVars, epochVars, status, bufferVars, numberVars,
                   commitProgress, beginning, requesting, commitCheckLock,
                   logging, aborting, expired, chore, clientVars>>

\* A second commit finds the first one done, or, after an exception of the
\* first one, under way for ever; it returns normally in both cases.
CommitDuplicate(h) ==
    /\ committing[h] = "found"
    /\ commitProgress[h] # "NONE"
    /\ committing' = [committing EXCEPT ![h] = "no"]
    /\ phase' = [phase EXCEPT ![TxId[h]] = "done"]
    /\ UNCHANGED <<regionVars, epochVars, status, bufferVars, numberVars,
                   commitProgress, beginning, requesting, commitCheckLock,
                   logging, aborting, expired, chore, acked, applied,
                   overtaken, used>>

\* The first commit, under the monitor of the object.
CommitApply(h) ==
    /\ committing[h] = "found"
    /\ commitProgress[h] = "NONE"
    /\ committing' = [committing EXCEPT ![h] = "applied"]
    /\ commitProgress' = [commitProgress EXCEPT ![h] = "COMMITTING"]
    /\ CommitStateApply(h)
    /\ UNCHANGED <<beginning, requesting, commitCheckLock, logging, aborting,
                   expired, chore, phase, acked, used>>

CommitFails(h) ==
    /\ committing[h] = "found"
    /\ commitProgress[h] = "NONE"
    /\ committing' = [committing EXCEPT ![h] = "no"]
    /\ commitProgress' = [commitProgress EXCEPT ![h] = "COMMITTING"]
    /\ CommitStatePutFault(h) \/ CommitStateWalFault(h)
    /\ UNCHANGED <<beginning, requesting, commitCheckLock, logging, aborting,
                   expired, chore, phase, acked>>

CommitMark(h) ==
    /\ committing[h] = "applied"
    /\ \/ /\ CommitStateMark(h)
          /\ committing' = [committing EXCEPT ![h] = "marked"]
       \/ /\ CommitStateFailure(h)
          /\ committing' = [committing EXCEPT ![h] = "no"]
    /\ UNCHANGED <<beginning, requesting, commitCheckLock, logging, aborting,
                   expired, chore, clientVars>>

CommitRetire(h) ==
    /\ committing[h] = "marked"
    /\ committing' = [committing EXCEPT ![h] = "no"]
    /\ CommitStateRetire(h)
    /\ phase' = [phase EXCEPT ![TxId[h]] = "done"]
    /\ UNCHANGED <<beginning, requesting, commitCheckLock, logging, aborting,
                   expired, chore, acked, applied, overtaken, used>>

\* abortTransaction of a transaction that is unknown or already ABORTED.
AbortDuplicate(t) ==
    /\ phase[t] = "abort"
    /\ \A h \in TS : TxId[h] = t => aborting[h] = "no"
    /\ \A h \in TS : transactionsById[t] = h => status[h] = "ABORTED"
    /\ phase' = [phase EXCEPT ![t] = "done"]
    /\ UNCHANGED <<regionVars, epochVars, status, bufferVars, numberVars,
                   commitProgress, threadVars, acked, applied, overtaken, used>>

\* The part of abortTransaction under the monitor of the object.
AbortMark(h) ==
    /\ phase[TxId[h]] = "abort"
    /\ transactionsById[TxId[h]] = h
    /\ status[h] # "ABORTED"
    /\ aborting[h] = "no"
    /\ status' = [status EXCEPT ![h] = "ABORTED"]
    /\ aborting' = [aborting EXCEPT ![h] = "marked"]
    /\ UNCHANGED <<regionVars, epochVars, bufferVars, numberVars,
                   commitProgress, beginning, requesting, commitCheckLock,
                   logging, committing, expired, chore, clientVars>>

\* The append of the abort record throws.
AbortWalFault(h) ==
    /\ aborting[h] = "marked"
    /\ aborting' = [aborting EXCEPT ![h] = "no"]
    /\ writeOrdering[h] # {}
    /\ Use("wal")
    /\ UNCHANGED <<regionVars, epochVars, status, bufferVars, numberVars,
                   commitProgress, beginning, requesting, commitCheckLock,
                   logging, committing, expired, chore, phase, acked, applied,
                   overtaken>>

AbortRemove(h) ==
    /\ aborting[h] = "marked"
    /\ aborting' = [aborting EXCEPT ![h] = "removed"]
    /\ commitPendingTransactions' = commitPendingTransactions \ {h}
    /\ UNCHANGED <<transactionsById, commitedTransactionsBySequenceNumber,
                   nextSequenceId, epochVars, status, bufferVars, numberVars,
                   commitProgress, beginning, requesting, commitCheckLock,
                   logging, committing, expired, chore, clientVars>>

AbortRetire(h) ==
    /\ aborting[h] = "removed"
    /\ aborting' = [aborting EXCEPT ![h] = "no"]
    /\ RetireTransaction(h)
    /\ phase' = [phase EXCEPT ![TxId[h]] = "done"]
    /\ UNCHANGED <<commitPendingTransactions,
                   commitedTransactionsBySequenceNumber, nextSequenceId,
                   epochVars, status, numberVars, commitProgress, beginning,
                   requesting, commitCheckLock, logging, committing, expired,
                   chore, acked, applied, overtaken, used>>

----------------------------------------------------------------------------
(* TransactionLeaseListener.leaseExpired, in the Leases thread.  There is  *)
(* one such thread in the region server; an exception that leaves          *)
(* leaseExpired ends it.                                                   *)

LeaseExpired(h) ==
    /\ transactionsById[TxId[h]] = h
    /\ beginning = NoTS
    /\ \A o \in TS : expired[o] = "no"
    /\ Use("lapse")
    /\ transactionsById' = [transactionsById EXCEPT ![TxId[h]] = NoTS]
    /\ expired' = [expired EXCEPT ![h] = "removed"]
    /\ lapsed' = lapsed \cup {TxId[h]}
    /\ UNCHANGED <<commitPendingTransactions,
                   commitedTransactionsBySequenceNumber, nextSequenceId,
                   controlPointEpoch, zNodes, swept, status, bufferVars,
                   numberVars, commitProgress, beginning, requesting,
                   commitCheckLock, logging, committing, aborting, chore,
                   phase, acked, applied, overtaken>>

\* The switch on the status; no monitor is held from here on.
LeaseSwitch(h) ==
    /\ expired[h] = "removed"
    /\ \/ /\ status[h] = "PENDING"
          /\ expired' = [expired EXCEPT ![h] = "sawPending"]
       \/ /\ status[h] = "COMMIT_PENDING"
          /\ expired' = [expired EXCEPT ![h] = "sawCommitPending"]
       \/ /\ status[h] \notin {"PENDING", "COMMIT_PENDING"}
          /\ expired' = [expired EXCEPT ![h] = "no"]
    /\ UNCHANGED <<regionVars, epochVars, status, bufferVars, numberVars,
                   commitProgress, beginning, requesting, commitCheckLock,
                   logging, committing, aborting, chore, clientVars>>

LeaseAbortMark(h) ==
    /\ expired[h] = "sawPending"
    /\ expired' = [expired EXCEPT ![h] = "aborted"]
    /\ status' = [status EXCEPT ![h] = "ABORTED"]
    /\ UNCHANGED <<regionVars, epochVars, bufferVars, numberVars,
                   commitProgress, beginning, requesting, commitCheckLock,
                   logging, committing, aborting, chore, clientVars>>

LeaseAbortRetire(h) ==
    /\ expired[h] = "aborted"
    /\ expired' = [expired EXCEPT ![h] = "no"]
    /\ RetireTransaction(h)
    /\ UNCHANGED <<commitPendingTransactions,
                   commitedTransactionsBySequenceNumber, nextSequenceId,
                   epochVars, status, numberVars, commitProgress, beginning,
                   requesting, commitCheckLock, logging, committing,
                   aborting, chore, clientVars>>

\* Mutant: the lease is renewed but the object is not registered again.
LeaseRenewForgets(h) ==
    /\ expired[h] = "sawCommitPending"
    /\ commitPendingWaits[h] <= MAX_COMMIT_PENDING_WAITS
    /\ beginning = NoTS
    /\ expired' = [expired EXCEPT ![h] = "no"]
    /\ commitPendingWaits' = [commitPendingWaits EXCEPT ![h] = @ + 1]
    /\ UNCHANGED <<regionVars, epochVars, status, bufferVars,
                   startSequenceNumber, sequenceNumber,
                   controlPointEpochAtPrepare, commitProgress, beginning,
                   requesting, commitCheckLock, logging, committing, aborting,
                   chore, clientVars>>

\* "renewing lease and hoping for commit".  createLease comes last; when both
\* it and renewLease throw, so does leaseExpired.
LeaseRenew(h) ==
    /\ expired[h] = "sawCommitPending"
    /\ commitPendingWaits[h] <= MAX_COMMIT_PENDING_WAITS
    /\ beginning = NoTS
    /\ \E outcome \in {"no", "threw"} :
           expired' = [expired EXCEPT ![h] = outcome]
    /\ commitPendingWaits' = [commitPendingWaits EXCEPT ![h] = @ + 1]
    /\ transactionsById' = [transactionsById EXCEPT ![TxId[h]] = h]
    /\ UNCHANGED <<commitPendingTransactions,
                   commitedTransactionsBySequenceNumber, nextSequenceId,
                   epochVars, status, bufferVars, startSequenceNumber,
                   sequenceNumber, controlPointEpochAtPrepare, commitProgress,
                   beginning, requesting, commitCheckLock, logging,
                   committing, aborting, chore, clientVars>>

\* resolveTransactionFromLog: "(Optimisticly) assuming transaction commit!"
\* The monitor of the object is not taken, nor is commitProgress looked at.
LeaseResolve(h) ==
    /\ expired[h] = "sawCommitPending"
    /\ commitPendingWaits[h] > MAX_COMMIT_PENDING_WAITS
    /\ expired' = [expired EXCEPT ![h] = "applied"]
    /\ CommitStateApply(h)
    /\ UNCHANGED <<commitProgress, beginning, requesting, commitCheckLock,
                   logging, committing, aborting, chore, phase, acked, used>>

LeaseResolveFails(h) ==
    /\ expired[h] = "sawCommitPending"
    /\ commitPendingWaits[h] > MAX_COMMIT_PENDING_WAITS
    /\ expired' = [expired EXCEPT ![h] = "threw"]
    /\ CommitStatePutFault(h) \/ CommitStateWalFault(h)
    /\ UNCHANGED <<commitProgress, beginning, requesting, commitCheckLock,
                   logging, committing, aborting, chore, phase, acked>>

LeaseResolveMark(h) ==
    /\ expired[h] = "applied"
    /\ \/ /\ CommitStateMark(h)
          /\ expired' = [expired EXCEPT ![h] = "marked"]
       \/ /\ CommitStateFailure(h)
          /\ expired' = [expired EXCEPT ![h] = "threw"]
    /\ UNCHANGED <<beginning, requesting, commitCheckLock, logging,
                   committing, aborting, chore, clientVars>>

LeaseResolveRetire(h) ==
    /\ expired[h] = "marked"
    /\ expired' = [expired EXCEPT ![h] = "no"]
    /\ CommitStateRetire(h)
    /\ UNCHANGED <<beginning, requesting, commitCheckLock, logging,
                   committing, aborting, chore, clientVars>>

----------------------------------------------------------------------------
(* CleanOldTransactionsChore.chore, and recoveryRequest of a TM that found *)
(* the zNode the chore created.                                            *)

Registered == {h \in TS : transactionsById[TxId[h]] = h}

\* getMinStartSequenceNumber
ChoreMin ==
    /\ chore.at = "idle"
    /\ controlPointEpoch < MaxEpoch
    /\ beginning = NoTS
    /\ \/ /\ Registered = {}
          /\ chore' = ChoreHolds(-1)
       \/ \E m \in Registered :
             /\ \A h \in Registered :
                    startSequenceNumber[m] <= startSequenceNumber[h]
             /\ chore' = ChoreHolds(startSequenceNumber[m])
    /\ UNCHANGED <<regionVars, epochVars, status, bufferVars, numberVars,
                   commitProgress, beginning, requesting, commitCheckLock,
                   logging, committing, aborting, expired, clientVars>>

\* removeUnNeededCommitedTransactions drops what is below the minimum.
ChoreRemove ==
    /\ chore.at = "holds"
    /\ commitedTransactionsBySequenceNumber' =
           {e \in commitedTransactionsBySequenceNumber :
                chore.min # -1 /\ e[1] >= chore.min}
    /\ swept' = IF chore.min = -1
                THEN swept \cup commitedTransactionsBySequenceNumber
                ELSE swept
    /\ chore' = ChoreCleaned
    /\ UNCHANGED <<transactionsById, commitPendingTransactions, nextSequenceId,
                   controlPointEpoch, zNodes, lapsed, status, bufferVars,
                   numberVars, commitProgress, beginning, requesting,
                   commitCheckLock, logging, committing, aborting, expired,
                   clientVars>>

\* choreThreadDetectStaleTransactionBranch
ChoreDetectStale ==
    /\ chore.at = "cleaned"
    /\ zNodes' = zNodes \cup {TmId[TxId[h]] :
                    h \in {p \in commitPendingTransactions :
                        controlPointEpochAtPrepare[p] < controlPointEpoch - 1}}
    /\ controlPointEpoch' = controlPointEpoch + 1
    /\ chore' = ChoreIdle
    /\ UNCHANGED <<regionVars, swept, lapsed, status, bufferVars, numberVars, commitProgress,
                   beginning, requesting, commitCheckLock, logging,
                   committing, aborting, expired, clientVars>>

\* recoveryRequest of a started region: the reply names the TM's commit
\* pending transactions and the zNode goes.
RecoveryRequest(tm) ==
    /\ tm \in zNodes
    /\ zNodes' = zNodes \ {tm}
    /\ UNCHANGED <<regionVars, controlPointEpoch, swept, lapsed, status,
                   bufferVars, numberVars, commitProgress, threadVars, clientVars>>

----------------------------------------------------------------------------
Begin(h) == BeginTransactionCreate(h) \/ BeginTransactionRegister(h)

Work(h) == \E r \in Row : Put(h, r) \/ Delete(h, r)
                            \/ \E s \in Row : r <= s /\ GetScanner(h, r, s)

CommitRequest(h) ==
    \/ CommitRequestConflict(h)
    \/ CommitRequestReadOnly(h)
    \/ CommitRequestPending(h)
    \/ CommitRequestSequence(h)
    \/ CommitRequestLog(h)
    \/ CommitRequestLogEmpty(h)

PhaseTwo(h) ==
    \/ CommitLookup(h) \/ CommitDuplicate(h) \/ CommitApply(h)
    \/ CommitFails(h) \/ CommitMark(h) \/ CommitRetire(h)
    \/ AbortMark(h) \/ AbortWalFault(h) \/ AbortRemove(h) \/ AbortRetire(h)

Lease(h) ==
    \/ LeaseExpired(h) \/ LeaseSwitch(h)
    \/ LeaseAbortMark(h) \/ LeaseAbortRetire(h) \/ LeaseRenew(h)
    \/ LeaseResolve(h) \/ LeaseResolveFails(h)
    \/ LeaseResolveMark(h) \/ LeaseResolveRetire(h)

Chore == ChoreMin \/ ChoreRemove \/ ChoreDetectStale

Client(t) == CommitRequestUnknown(t) \/ DecideCommit(t) \/ DecideAbort(t)
                \/ CommitUnknown(t) \/ AbortDuplicate(t)

Next ==
    \/ \E h \in TS : Begin(h) \/ Work(h) \/ CommitRequestLookup(h)
                        \/ CommitRequest(h) \/ PhaseTwo(h) \/ Lease(h)
    \/ \E t \in Tid : Client(t)
    \/ Chore
    \/ \E tm \in Tm : RecoveryRequest(tm)

Spec == Init /\ [][Next]_vars

\* The threads of the region server are scheduled and leases run out; the
\* TM owes the region nothing.
Fairness ==
    \A h \in TS : /\ WF_vars(BeginTransactionRegister(h))
                  /\ WF_vars(CommitRequest(h))
                  /\ WF_vars(CommitApply(h) \/ CommitFails(h) \/ CommitDuplicate(h)
                                \/ CommitMark(h) \/ CommitRetire(h))
                  /\ WF_vars(AbortWalFault(h) \/ AbortRemove(h) \/ AbortRetire(h))
                  /\ WF_vars(Lease(h))

FairSpec == Spec /\ Fairness

----------------------------------------------------------------------------
(* Properties.                                                             *)

\* h has voted for commit, or is about to, and has its sequence number.
Prepared(h) ==
    /\ h \in commitPendingTransactions
    /\ status[h] = "COMMIT_PENDING"
    /\ commitCheckLock # h
    /\ sequenceNumber[h] # -1

Entry(h) == <<sequenceNumber[h], h>>

\* The check of q cannot know p: q began before p got its number, so that its
\* copy of commitPendingTransactions may be without p, and the chore has
\* dropped the entry of p, either because it had read its minimum while no
\* transaction was active, or because the lease of q's transaction expired
\* (which takes it out of transactionsById, where the chore looks).
Unseen(p, q) ==
    /\ startSequenceNumber[q] <= sequenceNumber[p]
    /\ Entry(p) \notin commitedTransactionsBySequenceNumber
    /\ Entry(p) \in swept \/ TxId[q] \in lapsed

\* Of two transactions that are prepared at the same time, the one with the
\* later sequence number has read no row that the earlier one is about to
\* write, however the begin of one (sequence number, then the copy of
\* commitPendingTransactions) interleaves with the commitRequest of the other
\* (commitPendingTransactions, then the sequence number), with repeated
\* commitRequests, leases and aborts, and with the chore, which drops the
\* entries below a minimum that it read earlier.  The two cases of Unseen are
\* the exceptions.
PreparedDisjoint ==
    \A p, q \in TS :
        /\ Prepared(p)
        /\ q \in commitPendingTransactions
        /\ status[q] = "COMMIT_PENDING"
        /\ TxId[p] # TxId[q]
        /\ sequenceNumber[p] < sequenceNumber[q]
        /\ ~Unseen(p, q)
        => writeOrdering[p] \cap scans[q] = {}

\* "Removes unneeded committed transactions": the chore removes no entry that
\* the check of an active transaction needs.  Of two transactions prepared at
\* the same time the later one has read no row that the earlier one is about
\* to write, whatever the chore has dropped.
OnlyUnneededRemoved ==
    \A p, q \in TS :
        /\ Prepared(p)
        /\ Prepared(q)
        /\ TxId[p] # TxId[q]
        /\ sequenceNumber[p] < sequenceNumber[q]
        => writeOrdering[p] \cap scans[q] = {}

\* A thread has taken h out of commitPendingTransactions and is about to
\* retire it.
Leaving(h) ==
    \/ committing[h] = "marked"
    \/ aborting[h] = "removed"
    \/ expired[h] = "marked"

\* commit(state) is about to look h up in commitPendingTransactions.
AboutToMark(h) == committing[h] = "applied" \/ expired[h] = "applied"

\* commit(state) meets the case it reports as fatal, "Commiting a non-query
\* transaction that is not in commitPendingTransactions", only when another
\* thread is resolving the same object at this moment.
CommitFailureIsRace ==
    \A h \in TS : AboutToMark(h) /\ writeOrdering[h] # {} /\ ~Leaving(h) =>
        h \in commitPendingTransactions

\* What COMMIT_OK promises.  Until the writes are in the table the region
\* holds every write it acknowledged to the client, ready to be committed.
VotePromise ==
    \A t \in Tid : phase[t] \in {"voted", "commit"} =>
        \/ t \in applied
        \/ \E h \in TS : /\ TxId[h] = t
                         /\ \/ transactionsById[t] = h
                            \/ expired[h] \in {"removed", "sawCommitPending"}
                         /\ status[h] = "COMMIT_PENDING"
                         /\ writeOrdering[h] = acked[t]

\* COMMIT_OK_READ_ONLY, after which the TM leaves the region out of phase two,
\* is the answer only for a transaction that wrote nothing.
ReadOnlyVote == \A t \in Tid : phase[t] = "readonly" => acked[t] = {}

\* "Check transactions that were committed while we were running": a
\* transaction that read a row before another one committed a write to it is
\* not prepared.
ReadsCurrent ==
    \A h \in TS : status[h] = "COMMIT_PENDING" => overtaken[h] = {}

\* When the TM stays silent, a prepared transaction does not keep its writes
\* in commitPendingTransactions for ever: its lease expires until the region
\* resolves it by itself, unless an exception has ended the Leases thread.
\* (Not so if a leaseExpired that began earlier is about to retire it in the
\* middle of the commitRequest.)
PreparedResolved ==
    \A h \in TS :
        (/\ h \in commitPendingTransactions
         /\ status[h] = "COMMIT_PENDING"
         /\ writeOrdering[h] # {}
         /\ expired[h] \notin {"sawPending", "aborted", "marked"}
         /\ phase[TxId[h]] \in {"prepare", "voted"})
            ~> (\/ h \notin commitPendingTransactions
                \/ phase[TxId[h]] \notin {"prepare", "voted"}
                \/ \E o \in TS : expired[o] = "threw")
=============================================================================
