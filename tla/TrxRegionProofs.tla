-------------------------- MODULE TrxRegionProofs --------------------------
(***************************************************************************)
(* Theorems about module TrxRegion, for every set of transactions, objects *)
(* and rows and every value of the bounds: the type invariant, that        *)
(* transactions prepared at the same time do not conflict, and when a      *)
(* commit can fail.                                                        *)
(*                                                                         *)
(* PreparedDisjoint is not inductive.  The check of a commitRequest sees   *)
(* another prepared object through one of two lists: the map, if its       *)
(* sequence number is not below the start number of the transaction, or    *)
(* the copy of commitPendingTransactions taken at the begin, if it is.     *)
(* CopyInv says that the copy is good for this; the parts before it say    *)
(* which threads can have an object of which status in their hands.        *)
(* EntryInv says that the map is: the chore removes no entry that an       *)
(* active transaction looks for, because the minimum it has read stays a   *)
(* lower bound of their start numbers (MinimumInv) while transactions      *)
(* begin and end before it removes what is below.                          *)
(***************************************************************************)
EXTENDS TrxRegion, TLAPS

Requested(h) == h \in requesting \/ h \in logging \/ commitCheckLock = h

\* leaseExpired has found h COMMIT_PENDING and deals with it.
Resolving(h) == expired[h] \in {"sawCommitPending", "applied", "marked"}

\* A transaction whose object is in the hands of commitRequest, of phase two
\* or of the resolution by the Leases thread has stopped working.
StoppedInv ==
    \A h \in TS :
        \/ Requested(h)
        \/ status[h] = "COMMIT_PENDING"
        \/ sequenceNumber[h] # -1
        \/ committing[h] # "no"
        \/ aborting[h] # "no"
        \/ Resolving(h)
        => phase[TxId[h]] # "work"

\* An object that is not registered yet is in no thread's hands.
FreshInv ==
    \A h \in TS : status[h] = "FREE" \/ beginning = h =>
        /\ transactionsById[TxId[h]] # h
        /\ expired[h] = "no"
        /\ writeOrdering[h] = {}
        /\ beginning = h => /\ status[h] = "PENDING"
                            /\ transactionsById[TxId[h]] = NoTS
                            /\ phase[TxId[h]] = "work"

\* The client works on PENDING objects only.
LiveInv ==
    \A h \in TS : transactionsById[TxId[h]] = h /\ phase[TxId[h]] = "work" =>
        status[h] = "PENDING"

\* leaseExpired has taken the object out of transactionsById.
LeaseInv ==
    \A h \in TS :
        expired[h] \notin {"no", "threw"} => transactionsById[TxId[h]] # h

\* An object that is being aborted is not PENDING any more.
EndingInv ==
    \A h \in TS : aborting[h] # "no" \/ expired[h] = "aborted" =>
        status[h] \notin {"FREE", "PENDING"}

\* A sequence number is given to objects that have been made COMMIT_PENDING.
NumberedInv ==
    \A h \in TS : sequenceNumber[h] # -1 \/ commitCheckLock = h =>
        status[h] \notin {"FREE", "PENDING"}

\* An object that is prepared, or that phase two or leaseExpired found
\* prepared, has a sequence number or is about to get it.
PreparedInv ==
    \A h \in TS :
        status[h] = "COMMIT_PENDING" \/ committing[h] # "no" \/ Resolving(h)
            => sequenceNumber[h] # -1 \/ commitCheckLock = h

\* An object that got as far as a sequence number and is no longer commit
\* pending is empty or about to be emptied.
GoneInv ==
    \A h \in TS :
        (sequenceNumber[h] # -1 \/ commitCheckLock = h)
            /\ h \notin commitPendingTransactions
            => writeOrdering[h] = {} \/ Leaving(h)

SequenceInv ==
    \A h \in TS : /\ startSequenceNumber[h] <= nextSequenceId
                  /\ sequenceNumber[h] < nextSequenceId

\* What began after p got its sequence number has p in its copy, until it is
\* retired.
CopyInv ==
    \A p, q \in TS :
        /\ p # q
        /\ p \in commitPendingTransactions
        /\ sequenceNumber[p] # -1
        /\ commitCheckLock # p
        /\ status[q] = "PENDING" \/ writeOrdering[q] # {}
        /\ beginning # q
        /\ sequenceNumber[p] < startSequenceNumber[q]
        => p \in transactionsToCheck[q]

\* The object that has passed the check and waits for its sequence number.
LockInv ==
    \A p, q \in TS :
        commitCheckLock = q /\ Prepared(p) /\ TxId[p] # TxId[q] /\ ~Unseen(p, q)
            => writeOrdering[p] \cap scans[q] = {}

ControlInv == StoppedInv /\ FreshInv /\ LiveInv /\ LeaseInv /\ EndingInv

ObjectInv == NumberedInv /\ PreparedInv /\ GoneInv /\ SequenceInv

IInv == TypeOK /\ ControlInv /\ ObjectInv /\ CopyInv /\ LockInv /\ PreparedDisjoint

\* A transaction none of whose leases expired has one object, which is
\* registered as long as the client works with it or it holds writes.
SingleInv ==
    /\ \A h \in TS : h \in requesting \cup logging => status[h] # "FREE"
    /\ \A h \in TS : expired[h] # "no" => TxId[h] \in lapsed
    /\ \A h \in TS : status[h] # "FREE" /\ TxId[h] \notin lapsed =>
          /\ phase[TxId[h]] = "work" \/ writeOrdering[h] # {} =>
                beginning = h \/ transactionsById[TxId[h]] = h
          /\ \A g \in TS : status[g] # "FREE" /\ TxId[g] = TxId[h] => g = h

\* The minimum that the chore holds stays a lower bound of the start numbers
\* of the active transactions.
MinimumInv ==
    chore.at = "holds" /\ chore.min # -1 =>
        /\ chore.min <= nextSequenceId
        /\ \A h \in TS :
              /\ transactionsById[TxId[h]] = h \/ beginning = h
              /\ TxId[h] \notin lapsed
              => chore.min <= startSequenceNumber[h]

\* The entry of an object is in the map as long as a transaction that began
\* before it got its number is active, unless the chore found nobody active.
EntryInv ==
    \A p, q \in TS :
        /\ sequenceNumber[p] # -1
        /\ Entry(p) \notin swept
        /\ transactionsById[TxId[q]] = q \/ beginning = q
        /\ TxId[q] \notin lapsed
        /\ startSequenceNumber[q] <= sequenceNumber[p]
        => Entry(p) \in commitedTransactionsBySequenceNumber

MapInv == SingleInv /\ MinimumInv /\ EntryInv

\* The same clients are working after the step as before.
WorkUnchanged == \A u \in Tid : phase'[u] = "work" <=> phase[u] = "work"

\* h is retired, by whatever thread: it has ended, it leaves the hands of
\* that thread, and the collections of the region stay as they are.
RetireStep(h) ==
    /\ RetireTransaction(h)
    /\ \A g \in TS : status'[g] # status[g] =>
                        g = h /\ status'[g] \in {"COMMITED", "ABORTED"}
    /\ status'[h] \notin {"FREE", "PENDING"}
    /\ beginning # h
    /\ requesting' \subseteq requesting
    /\ logging' \subseteq logging
    /\ \A g \in TS : /\ committing'[g] \in {committing[g], "no"}
                     /\ aborting'[g] \in {aborting[g], "no"}
                     /\ expired'[g] \in {expired[g], "no", "threw"}
                     /\ g # h => /\ committing'[g] = committing[g]
                                 /\ aborting'[g] = aborting[g]
                                 /\ expired'[g] = expired[g]
    /\ expired[h] = "no" => expired'[h] = "no"
    /\ WorkUnchanged
    /\ UNCHANGED <<commitPendingTransactions,
                   commitedTransactionsBySequenceNumber, nextSequenceId,
                   startSequenceNumber, sequenceNumber, commitCheckLock,
                   beginning, swept, lapsed>>

\* The steps that prepare no object and retire none.
LightStep ==
    \/ \E h \in TS :
          \/ Begin(h) \/ Work(h) \/ CommitRequestLookup(h)
          \/ CommitLookup(h) \/ CommitDuplicate(h) \/ CommitApply(h)
          \/ AbortMark(h) \/ AbortWalFault(h) \/ AbortRemove(h)
          \/ LeaseExpired(h) \/ LeaseSwitch(h) \/ LeaseAbortMark(h)
          \/ LeaseRenew(h) \/ LeaseResolve(h)
    \/ \E t \in Tid : Client(t)
    \/ Chore
    \/ \E tm \in Tm : RecoveryRequest(tm)

----------------------------------------------------------------------------
\* A reply, delivered or lost, keeps the types of what the TM knows and sends
\* no client back to work.
LEMMA ReplyFacts ==
    ASSUME TypeOK, NEW t \in Tid, NEW v \in Phase \ {"work"}, Reply(t, v)
    PROVE  /\ phase' \in [Tid -> Phase]
           /\ used' \in [Bounded -> Nat]
           /\ WorkUnchanged
<1>1. CASE phase' = [phase EXCEPT ![t] = v] /\ UNCHANGED used
  BY <1>1 DEF TypeOK, Reply, WorkUnchanged, Phase
<1>2. CASE Use("lost") /\ UNCHANGED phase
  BY <1>2 DEF TypeOK, Use, Bounded, WorkUnchanged
<1>3. CASE UNCHANGED <<phase, used>>
  BY <1>3 DEF TypeOK, WorkUnchanged
<1>. QED
  BY <1>1, <1>2, <1>3 DEF Reply

\* Every step preserves the types.
LEMMA TypeStep == TypeOK /\ [Next]_vars => TypeOK'
<1> SUFFICES ASSUME TypeOK, [Next]_vars PROVE TypeOK'
  OBVIOUS
<1> USE TxIdAssumption, TmIdAssumption, NoTSAssumption
<1> USE DEF TypeOK, Status, CommitProgress, Phase, Bounded, regionVars,
            epochVars, bufferVars, numberVars, threadVars, clientVars
<1>1. ASSUME NEW h \in TS, BeginTransactionCreate(h) PROVE TypeOK'
  BY <1>1 DEF BeginTransactionCreate
<1>2. ASSUME NEW h \in TS, BeginTransactionRegister(h) PROVE TypeOK'
  BY <1>2 DEF BeginTransactionRegister
<1>3. ASSUME NEW h \in TS, NEW r \in Row, Put(h, r) PROVE TypeOK'
  BY <1>3 DEF Put, Operation
<1>4. ASSUME NEW h \in TS, NEW r \in Row, Delete(h, r) PROVE TypeOK'
  BY <1>4 DEF Delete, Operation
<1>5. ASSUME NEW h \in TS, NEW r \in Row, NEW s \in Row, GetScanner(h, r, s) PROVE TypeOK'
  BY <1>5 DEF GetScanner, Operation, ScanRange
<1>6. ASSUME NEW h \in TS, CommitRequestLookup(h) PROVE TypeOK'
  BY <1>6 DEF CommitRequestLookup, NoRequest
<1>7. ASSUME NEW h \in TS, CommitRequestConflict(h) PROVE TypeOK'
  <2>1. CASE Reply(TxId[h], "refused")
    <3>1. phase' \in [Tid -> Phase] /\ used' \in [Bounded -> Nat]
      BY <2>1, ReplyFacts
    <3>. QED
      BY <1>7, <3>1 DEF CommitRequestConflict, RetireTransaction
  <2>. QED
    BY <1>7, <2>1 DEF CommitRequestConflict
<1>8. ASSUME NEW h \in TS, CommitRequestReadOnly(h) PROVE TypeOK'
  <2>1. CASE Reply(TxId[h], "readonly")
    <3>1. phase' \in [Tid -> Phase] /\ used' \in [Bounded -> Nat]
      BY <2>1, ReplyFacts
    <3>. QED
      BY <1>8, <3>1 DEF CommitRequestReadOnly, RetireTransaction
  <2>. QED
    BY <1>8, <2>1 DEF CommitRequestReadOnly
<1>9. ASSUME NEW h \in TS, CommitRequestPending(h) PROVE TypeOK'
  BY <1>9 DEF CommitRequestPending, ToCheck
<1>10. ASSUME NEW h \in TS, CommitRequestSequence(h) PROVE TypeOK'
  BY <1>10 DEF CommitRequestSequence
<1>11. ASSUME NEW h \in TS, CommitRequestLog(h) PROVE TypeOK'
  <2>1. CASE Reply(TxId[h], "voted")
    <3>1. phase' \in [Tid -> Phase] /\ used' \in [Bounded -> Nat]
      BY <2>1, ReplyFacts
    <3>. QED
      BY <1>11, <3>1 DEF CommitRequestLog
  <2>2. CASE Use("wal") /\ UNCHANGED phase
    BY <1>11, <2>2 DEF CommitRequestLog, Use
  <2>. QED
    BY <1>11, <2>1, <2>2 DEF CommitRequestLog
<1>12. ASSUME NEW h \in TS, CommitRequestLogEmpty(h) PROVE TypeOK'
  <2>1. CASE Reply(TxId[h], "readonly")
    <3>1. phase' \in [Tid -> Phase] /\ used' \in [Bounded -> Nat]
      BY <2>1, ReplyFacts
    <3>. QED
      BY <1>12, <3>1 DEF CommitRequestLogEmpty, RetireTransaction
  <2>. QED
    BY <1>12, <2>1 DEF CommitRequestLogEmpty
<1>13. ASSUME NEW h \in TS, CommitLookup(h) PROVE TypeOK'
  BY <1>13 DEF CommitLookup
<1>14. ASSUME NEW h \in TS, CommitDuplicate(h) PROVE TypeOK'
  BY <1>14 DEF CommitDuplicate
<1>15. ASSUME NEW h \in TS, CommitApply(h) PROVE TypeOK'
  BY <1>15 DEF CommitApply, CommitStateApply, ApplyWrites
<1>16. ASSUME NEW h \in TS, CommitFails(h) PROVE TypeOK'
  <2>1. CASE CommitStatePutFault(h)
    BY <1>16, <2>1
       DEF CommitFails, CommitStatePutFault, CommitStateWalFault,
           CommitStateApply, RetireTransaction, ApplyWrites, Use
  <2>2. CASE CommitStateWalFault(h)
    BY <1>16, <2>2
       DEF CommitFails, CommitStatePutFault, CommitStateWalFault,
           CommitStateApply, RetireTransaction, ApplyWrites, Use
  <2>. QED
    BY <1>16, <2>1, <2>2 DEF CommitFails
<1>17. ASSUME NEW h \in TS, CommitMark(h) PROVE TypeOK'
  <2>1. CASE /\ CommitStateMark(h)
             /\ committing' = [committing EXCEPT ![h] = "marked"]
    BY <1>17, <2>1 DEF CommitMark, CommitStateMark, CommitStateFailure
  <2>2. CASE /\ CommitStateFailure(h)
             /\ committing' = [committing EXCEPT ![h] = "no"]
    BY <1>17, <2>2 DEF CommitMark, CommitStateMark, CommitStateFailure
  <2>. QED
    BY <1>17, <2>1, <2>2 DEF CommitMark
<1>18. ASSUME NEW h \in TS, CommitRetire(h) PROVE TypeOK'
  BY <1>18 DEF CommitRetire, CommitStateRetire, RetireTransaction
<1>19. ASSUME NEW h \in TS, AbortMark(h) PROVE TypeOK'
  BY <1>19 DEF AbortMark
<1>20. ASSUME NEW h \in TS, AbortWalFault(h) PROVE TypeOK'
  BY <1>20 DEF AbortWalFault, Use
<1>21. ASSUME NEW h \in TS, AbortRemove(h) PROVE TypeOK'
  BY <1>21 DEF AbortRemove
<1>22. ASSUME NEW h \in TS, AbortRetire(h) PROVE TypeOK'
  BY <1>22 DEF AbortRetire, RetireTransaction
<1>23. ASSUME NEW h \in TS, LeaseExpired(h) PROVE TypeOK'
  BY <1>23 DEF LeaseExpired, Use
<1>24. ASSUME NEW h \in TS, LeaseSwitch(h) PROVE TypeOK'
  <2>1. PICK e \in {"sawPending", "sawCommitPending", "no"} :
            expired' = [expired EXCEPT ![h] = e]
    BY <1>24 DEF LeaseSwitch
  <2>2. expired' \in [TS -> {"no", "removed", "sawPending", "aborted",
                             "sawCommitPending", "applied", "marked", "threw"}]
    BY <2>1
  <2>. QED
    BY <1>24, <2>2 DEF LeaseSwitch
<1>25. ASSUME NEW h \in TS, LeaseAbortMark(h) PROVE TypeOK'
  BY <1>25 DEF LeaseAbortMark
<1>26. ASSUME NEW h \in TS, LeaseAbortRetire(h) PROVE TypeOK'
  BY <1>26 DEF LeaseAbortRetire, RetireTransaction
<1>27. ASSUME NEW h \in TS, LeaseRenew(h) PROVE TypeOK'
  BY <1>27 DEF LeaseRenew
<1>28. ASSUME NEW h \in TS, LeaseResolve(h) PROVE TypeOK'
  BY <1>28 DEF LeaseResolve, CommitStateApply, ApplyWrites
<1>29. ASSUME NEW h \in TS, LeaseResolveFails(h) PROVE TypeOK'
  <2>1. CASE CommitStatePutFault(h)
    BY <1>29, <2>1
       DEF LeaseResolveFails, CommitStatePutFault, CommitStateWalFault,
           CommitStateApply, RetireTransaction, ApplyWrites, Use
  <2>2. CASE CommitStateWalFault(h)
    BY <1>29, <2>2
       DEF LeaseResolveFails, CommitStatePutFault, CommitStateWalFault,
           CommitStateApply, RetireTransaction, ApplyWrites, Use
  <2>. QED
    BY <1>29, <2>1, <2>2 DEF LeaseResolveFails
<1>30. ASSUME NEW h \in TS, LeaseResolveMark(h) PROVE TypeOK'
  <2>1. CASE /\ CommitStateMark(h)
             /\ expired' = [expired EXCEPT ![h] = "marked"]
    BY <1>30, <2>1 DEF LeaseResolveMark, CommitStateMark, CommitStateFailure
  <2>2. CASE /\ CommitStateFailure(h)
             /\ expired' = [expired EXCEPT ![h] = "threw"]
    BY <1>30, <2>2 DEF LeaseResolveMark, CommitStateMark, CommitStateFailure
  <2>. QED
    BY <1>30, <2>1, <2>2 DEF LeaseResolveMark
<1>31. ASSUME NEW h \in TS, LeaseResolveRetire(h) PROVE TypeOK'
  BY <1>31 DEF LeaseResolveRetire, CommitStateRetire, RetireTransaction
<1>32. ASSUME NEW t \in Tid, CommitRequestUnknown(t) PROVE TypeOK'
  BY <1>32 DEF CommitRequestUnknown, NoRequest, Beginning
<1>33. ASSUME NEW t \in Tid, DecideCommit(t) PROVE TypeOK'
  BY <1>33 DEF DecideCommit
<1>34. ASSUME NEW t \in Tid, DecideAbort(t) PROVE TypeOK'
  BY <1>34 DEF DecideAbort, Beginning
<1>35. ASSUME NEW t \in Tid, CommitUnknown(t) PROVE TypeOK'
  BY <1>35 DEF CommitUnknown
<1>36. ASSUME NEW t \in Tid, AbortDuplicate(t) PROVE TypeOK'
  BY <1>36 DEF AbortDuplicate
<1>37. ASSUME ChoreMin PROVE TypeOK'
  BY <1>37 DEF ChoreMin, ChoreHolds, Registered
<1>38. ASSUME ChoreRemove PROVE TypeOK'
  BY <1>38 DEF ChoreRemove, ChoreCleaned
<1>39. ASSUME ChoreDetectStale PROVE TypeOK'
  BY <1>39 DEF ChoreDetectStale, ChoreIdle
<1>40. ASSUME NEW tm \in Tm, RecoveryRequest(tm) PROVE TypeOK'
  BY <1>40 DEF RecoveryRequest
<1>41. CASE UNCHANGED vars
  BY <1>41 DEF vars
<1> HIDE DEF TypeOK
<1>. QED
  BY <1>1, <1>2, <1>3, <1>4, <1>5, <1>6, <1>7, <1>8, <1>9, <1>10, <1>11, <1>12,
     <1>13, <1>14, <1>15, <1>16, <1>17, <1>18, <1>19, <1>20, <1>21, <1>22,
     <1>23, <1>24, <1>25, <1>26, <1>27, <1>28, <1>29, <1>30, <1>31, <1>32,
     <1>33, <1>34, <1>35, <1>36, <1>37, <1>38, <1>39, <1>40, <1>41 DEF Next,
     Begin, Work, CommitRequest, PhaseTwo, Lease, Chore, Client

\* The steps that prepare no object and retire none preserve the invariant.
LEMMA LightInvStep == IInv /\ LightStep => IInv'
<1> SUFFICES ASSUME IInv, LightStep PROVE IInv'
  OBVIOUS
<1> USE TxIdAssumption, TmIdAssumption, NoTSAssumption
<1>0. TypeOK'
  <2>1. Next
    BY DEF LightStep, Next, PhaseTwo, Lease
  <2>. QED
    BY <2>1, TypeStep DEF IInv
<1> USE DEF IInv, ControlInv, ObjectInv, TypeOK, Status, CommitProgress,
            Phase, Bounded, regionVars, epochVars, bufferVars, numberVars,
            threadVars, clientVars, StoppedInv, FreshInv, LiveInv, LeaseInv,
            EndingInv, NumberedInv, PreparedInv, GoneInv, SequenceInv,
            CopyInv, LockInv, PreparedDisjoint, Requested, Resolving,
            Leaving, Prepared, Unseen, Entry
<1>1. ASSUME NEW h \in TS, BeginTransactionCreate(h) PROVE IInv'
  <2>1. ControlInv'
    BY <1>1, <1>0 DEF BeginTransactionCreate
  <2>2. ObjectInv'
    BY <1>1, <1>0 DEF BeginTransactionCreate
  <2>3. CopyInv'
    BY <1>1, <1>0 DEF BeginTransactionCreate
  <2>4. LockInv' /\ PreparedDisjoint'
    BY <1>1, <1>0 DEF BeginTransactionCreate
  <2>. QED
    BY <1>0, <2>1, <2>2, <2>3, <2>4 DEF IInv
<1>2. ASSUME NEW h \in TS, BeginTransactionRegister(h) PROVE IInv'
  BY <1>2, <1>0 DEF BeginTransactionRegister
<1>3. ASSUME NEW h \in TS, NEW r \in Row, Put(h, r) PROVE IInv'
  BY <1>3, <1>0 DEF Put, Operation
<1>4. ASSUME NEW h \in TS, NEW r \in Row, Delete(h, r) PROVE IInv'
  BY <1>4, <1>0 DEF Delete, Operation
<1>5. ASSUME NEW h \in TS, NEW r \in Row, NEW s \in Row, GetScanner(h, r, s) PROVE IInv'
  BY <1>5, <1>0 DEF GetScanner, Operation, ScanRange
<1>6. ASSUME NEW h \in TS, CommitRequestLookup(h) PROVE IInv'
  BY <1>6, <1>0 DEF CommitRequestLookup, NoRequest
<1>7. ASSUME NEW h \in TS, CommitLookup(h) PROVE IInv'
  BY <1>7, <1>0 DEF CommitLookup
<1>8. ASSUME NEW h \in TS, CommitDuplicate(h) PROVE IInv'
  BY <1>8, <1>0 DEF CommitDuplicate
<1>9. ASSUME NEW h \in TS, CommitApply(h) PROVE IInv'
  BY <1>9, <1>0 DEF CommitApply, CommitStateApply, ApplyWrites
<1>10. ASSUME NEW h \in TS, AbortMark(h) PROVE IInv'
  BY <1>10, <1>0 DEF AbortMark
<1>11. ASSUME NEW h \in TS, AbortWalFault(h) PROVE IInv'
  <2>1. ControlInv' /\ ObjectInv'
    BY <1>11, <1>0 DEF AbortWalFault
  <2>2. CopyInv' /\ LockInv' /\ PreparedDisjoint'
    BY <1>11 DEF AbortWalFault
  <2>. QED
    BY <1>0, <2>1, <2>2 DEF IInv
<1>12. ASSUME NEW h \in TS, AbortRemove(h) PROVE IInv'
  BY <1>12, <1>0 DEF AbortRemove
<1>13. ASSUME NEW h \in TS, LeaseExpired(h) PROVE IInv'
  BY <1>13, <1>0 DEF LeaseExpired, Use
<1>14. ASSUME NEW h \in TS, LeaseSwitch(h) PROVE IInv'
  <2>0. /\ \A g \in TS : g # h => expired'[g] = expired[g]
        /\ expired[h] = "removed"
        /\ expired'[h] \in {"sawPending", "sawCommitPending", "no"}
        /\ expired'[h] = "sawCommitPending" => status[h] = "COMMIT_PENDING"
        /\ UNCHANGED <<regionVars, epochVars, status, bufferVars, numberVars,
                       commitProgress, beginning, requesting, commitCheckLock,
                       logging, committing, aborting, chore, clientVars>>
    BY <1>14 DEF LeaseSwitch
  <2>1. ControlInv'
    <3>1. StoppedInv' /\ EndingInv'
      BY <2>0
    <3>2. FreshInv /\ LiveInv /\ LeaseInv
      OBVIOUS
    <3>3. ControlInv' = (StoppedInv' /\ FreshInv' /\ LiveInv' /\ LeaseInv' /\ EndingInv')
      BY DEF ControlInv
    <3> HIDE DEF IInv, ControlInv, ObjectInv, StoppedInv, EndingInv, CopyInv,
                 LockInv, PreparedDisjoint, TypeOK
    <3>4. FreshInv' /\ LiveInv' /\ LeaseInv'
      BY <2>0, <3>2
    <3>. QED
      BY <3>1, <3>3, <3>4
  <2>2. ObjectInv'
    <3>1. NumberedInv' /\ PreparedInv'
      BY <2>0
    <3>2. GoneInv /\ SequenceInv
      OBVIOUS
    <3>3. ObjectInv' = (NumberedInv' /\ PreparedInv' /\ GoneInv' /\ SequenceInv')
      BY DEF ObjectInv
    <3> HIDE DEF IInv, ControlInv, ObjectInv, NumberedInv, PreparedInv, CopyInv,
                 LockInv, PreparedDisjoint, TypeOK
    <3>4. GoneInv' /\ SequenceInv'
      BY <2>0, <3>2
    <3>. QED
      BY <3>1, <3>3, <3>4
  <2>3. CopyInv' /\ LockInv' /\ PreparedDisjoint'
    BY <1>14 DEF LeaseSwitch
  <2>. QED
    BY <1>0, <2>1, <2>2, <2>3 DEF IInv
<1>15. ASSUME NEW h \in TS, LeaseAbortMark(h) PROVE IInv'
  <2>1. ControlInv'
    BY <1>15, <1>0 DEF LeaseAbortMark
  <2>2. ObjectInv'
    BY <1>15, <1>0 DEF LeaseAbortMark
  <2>3. CopyInv'
    BY <1>15, <1>0 DEF LeaseAbortMark
  <2>4. LockInv' /\ PreparedDisjoint'
    BY <1>15, <1>0 DEF LeaseAbortMark
  <2>. QED
    BY <1>0, <2>1, <2>2, <2>3, <2>4 DEF IInv
<1>16. ASSUME NEW h \in TS, LeaseRenew(h) PROVE IInv'
  BY <1>16, <1>0 DEF LeaseRenew
<1>17. ASSUME NEW h \in TS, LeaseResolve(h) PROVE IInv'
  BY <1>17, <1>0 DEF LeaseResolve, CommitStateApply, ApplyWrites
<1>18. ASSUME NEW t \in Tid, CommitRequestUnknown(t) PROVE IInv'
  BY <1>18, <1>0 DEF CommitRequestUnknown, NoRequest, Beginning
<1>19. ASSUME NEW t \in Tid, DecideCommit(t) PROVE IInv'
  BY <1>19, <1>0 DEF DecideCommit
<1>20. ASSUME NEW t \in Tid, DecideAbort(t) PROVE IInv'
  BY <1>20, <1>0 DEF DecideAbort, Beginning
<1>21. ASSUME NEW t \in Tid, CommitUnknown(t) PROVE IInv'
  BY <1>21, <1>0 DEF CommitUnknown
<1>22. ASSUME NEW t \in Tid, AbortDuplicate(t) PROVE IInv'
  BY <1>22, <1>0 DEF AbortDuplicate
<1>23. ASSUME ChoreMin PROVE IInv'
  BY <1>23, <1>0 DEF ChoreMin, ChoreHolds, Registered
<1>24. ASSUME ChoreRemove PROVE IInv'
  BY <1>24, <1>0 DEF ChoreRemove, ChoreCleaned
<1>25. ASSUME ChoreDetectStale PROVE IInv'
  BY <1>25, <1>0 DEF ChoreDetectStale, ChoreIdle
<1>26. ASSUME NEW tm \in Tm, RecoveryRequest(tm) PROVE IInv'
  BY <1>26, <1>0 DEF RecoveryRequest
<1> HIDE DEF IInv
<1>. QED
  BY <1>1, <1>2, <1>3, <1>4, <1>5, <1>6, <1>7, <1>8, <1>9, <1>10, <1>11, <1>12,
     <1>13, <1>14, <1>15, <1>16, <1>17, <1>18, <1>19, <1>20, <1>21, <1>22,
     <1>23, <1>24, <1>25, <1>26 DEF LightStep, Begin, Work, Chore, Client

\* Retiring an object preserves the invariant.
LEMMA RetireInvStep ==
    ASSUME IInv, TypeOK', NEW h \in TS, RetireStep(h) PROVE IInv'
<1> USE TxIdAssumption, NoTSAssumption
<1>i. /\ StoppedInv /\ FreshInv /\ LiveInv /\ LeaseInv /\ EndingInv
      /\ NumberedInv /\ PreparedInv /\ GoneInv /\ SequenceInv
      /\ CopyInv /\ LockInv /\ PreparedDisjoint /\ TypeOK
  BY DEF IInv, ControlInv, ObjectInv
<1>s. \A g \in TS : /\ status'[g] \in {"FREE", "PENDING", "COMMIT_PENDING"} =>
                          status'[g] = status[g]
                    /\ status[g] \notin {"FREE", "PENDING"} =>
                          status'[g] \notin {"FREE", "PENDING"}
  BY DEF RetireStep
<1>b. \A g \in TS : /\ scans'[g] \subseteq scans[g]
                    /\ writeOrdering'[g] \subseteq writeOrdering[g]
                    /\ g # h => transactionsToCheck'[g] = transactionsToCheck[g]
                    /\ writeOrdering'[h] = {}
  BY <1>i DEF RetireStep, RetireTransaction, TypeOK
<1>t. \A u \in Tid : transactionsById'[u] \in {transactionsById[u], NoTS}
  BY <1>i DEF RetireStep, RetireTransaction, TypeOK
<1>w. \A g \in TS : phase'[TxId[g]] = "work" <=> phase[TxId[g]] = "work"
  BY DEF RetireStep, WorkUnchanged
<1>x. \A g \in TS : TxId[g] \in Tid
  OBVIOUS
<1>1. StoppedInv'
  BY <1>i, <1>s, <1>w DEF RetireStep, StoppedInv, Requested, Resolving
<1>2. FreshInv'
  BY <1>i, <1>s, <1>b, <1>t, <1>w, <1>x DEF RetireStep, FreshInv
<1>3. LiveInv'
  <2>1. \A g \in TS : transactionsById'[TxId[g]] = g => g # h
    BY <1>i DEF RetireStep, RetireTransaction, TypeOK
  <2>. QED
    BY <1>i, <1>t, <1>w, <1>x, <2>1 DEF RetireStep, LiveInv
<1>4. LeaseInv'
  BY <1>i, <1>t, <1>x DEF RetireStep, LeaseInv
<1>5. EndingInv' /\ NumberedInv' /\ PreparedInv'
  BY <1>i, <1>s
     DEF RetireStep, EndingInv, NumberedInv, PreparedInv, Resolving
<1>6. GoneInv' /\ SequenceInv'
  BY <1>i, <1>b DEF RetireStep, GoneInv, SequenceInv, Leaving
<1>7. CopyInv'
  BY <1>i, <1>s, <1>b DEF RetireStep, CopyInv
<1>8. LockInv' /\ PreparedDisjoint'
  <2>1. ASSUME NEW p \in TS, Prepared(p)' PROVE Prepared(p)
    BY <1>s, <2>1 DEF RetireStep, Prepared
  <2>2. \A p, q \in TS : Unseen(p, q)' <=> Unseen(p, q)
    BY DEF RetireStep, Unseen, Entry
  <2>. QED
    BY <1>i, <1>s, <1>b, <2>1, <2>2 DEF RetireStep, LockInv, PreparedDisjoint
<1>. QED
  BY <1>1, <1>2, <1>3, <1>4, <1>5, <1>6, <1>7, <1>8
     DEF IInv, ControlInv, ObjectInv

\* Every step preserves the inductive invariant.
LEMMA InvStep == IInv /\ MapInv /\ [Next]_vars => IInv'
<1> SUFFICES ASSUME IInv, MapInv, [Next]_vars PROVE IInv'
  OBVIOUS
<1> USE TxIdAssumption, TmIdAssumption, NoTSAssumption
<1>0. TypeOK'
  BY TypeStep DEF IInv
<1> USE DEF IInv, ControlInv, ObjectInv, TypeOK, Status, CommitProgress,
            Phase, Bounded, regionVars, epochVars, bufferVars, numberVars,
            threadVars, clientVars
<1>1. ASSUME NEW h \in TS, CommitRequestConflict(h) PROVE IInv'
  <2>1. WorkUnchanged
    BY <1>1, ReplyFacts DEF CommitRequestConflict
  <2>2. RetireStep(h)
    BY <1>1, <2>1
       DEF CommitRequestConflict, RetireStep, RetireTransaction, FreshInv,
           StoppedInv, Requested, Resolving, NumberedInv, PreparedInv,
           EndingInv
  <2>. QED
    BY <1>0, <2>2, RetireInvStep
<1>2. ASSUME NEW h \in TS, CommitRequestReadOnly(h) PROVE IInv'
  <2>1. WorkUnchanged
    BY <1>2, ReplyFacts DEF CommitRequestReadOnly
  <2>2. RetireStep(h)
    BY <1>2, <2>1
       DEF CommitRequestReadOnly, RetireStep, RetireTransaction, FreshInv,
           StoppedInv, Requested, Resolving, NumberedInv, PreparedInv,
           EndingInv
  <2>. QED
    BY <1>0, <2>2, RetireInvStep
<1>3. ASSUME NEW h \in TS, CommitRequestPending(h) PROVE IInv'
  <2>c. ASSUME NEW p \in TS, Prepared(p), TxId[p] # TxId[h], ~Unseen(p, h)
        PROVE  writeOrdering[p] \cap scans[h] = {}
    <3>1. CASE sequenceNumber[p] < startSequenceNumber[h]
      <4>1. p \in transactionsToCheck[h]
        BY <1>3, <2>c, <3>1
           DEF CopyInv, FreshInv, Prepared, CommitRequestPending
      <4>. QED
        BY <1>3, <2>c, <4>1
           DEF CommitRequestPending, HasConflict, ToCheck, ConflictsWith, Prepared
    <3>2. CASE sequenceNumber[p] >= startSequenceNumber[h]
      <4>1. sequenceNumber[p] \in startSequenceNumber[h] .. (nextSequenceId - 1)
        BY <2>c, <3>2 DEF Prepared, SequenceInv
      <4>2. Entry(p) \in commitedTransactionsBySequenceNumber
        <5>1. CASE TxId[h] \in lapsed \/ Entry(p) \in swept
          BY <2>c, <3>2, <5>1 DEF Unseen
        <5>2. CASE TxId[h] \notin lapsed /\ Entry(p) \notin swept
          <6>1. transactionsById[TxId[h]] = h \/ beginning = h
            BY <1>3, <5>2 DEF CommitRequestPending, MapInv, SingleInv
          <6>. QED
            BY <2>c, <3>2, <5>2, <6>1 DEF MapInv, EntryInv, Prepared
        <5>. QED
          BY <5>1, <5>2
      <4>3. p \in ToCheck(h)
        BY <4>1, <4>2 DEF ToCheck, Entry
      <4>. QED
        BY <1>3, <2>c, <4>3
           DEF CommitRequestPending, HasConflict, ConflictsWith, Prepared
    <3>. QED
      BY <2>c, <3>1, <3>2 DEF Prepared
  <2>1. StoppedInv'
    BY <1>3, <1>0
       DEF CommitRequestPending, ToCheck, StoppedInv, Requested, Resolving
  <2>2. FreshInv'
    BY <1>3, <1>0
       DEF CommitRequestPending, ToCheck, FreshInv, Requested, Resolving,
           StoppedInv, EndingInv, LiveInv
  <2>3. LiveInv'
    BY <1>3, <1>0
       DEF CommitRequestPending, ToCheck, LiveInv, Requested, Resolving,
           StoppedInv, FreshInv, LeaseInv
  <2>4. EndingInv'
    BY <1>3, <1>0 DEF CommitRequestPending, ToCheck, EndingInv
  <2>5. NumberedInv'
    BY <1>3, <1>0 DEF CommitRequestPending, ToCheck, NumberedInv
  <2>6. PreparedInv'
    BY <1>3, <1>0 DEF CommitRequestPending, ToCheck, PreparedInv, Resolving
  <2>7. GoneInv'
    BY <1>3, <1>0
       DEF CommitRequestPending, ToCheck, GoneInv, Leaving, Requested,
           Resolving, StoppedInv
  <2>8. CopyInv'
    <3>1. transactionsToCheck[h] \subseteq transactionsToCheck'[h]
      BY <1>3 DEF CommitRequestPending, ToCheck
    <3>2. \A g \in TS : g # h => transactionsToCheck'[g] = transactionsToCheck[g]
      BY <1>3 DEF CommitRequestPending
    <3>3. \A p \in TS : p \in commitPendingTransactions' /\ commitCheckLock' # p =>
                           p \in commitPendingTransactions /\ commitCheckLock # p
      BY <1>3 DEF CommitRequestPending
    <3>4. \A q \in TS : status'[q] = "PENDING" \/ writeOrdering'[q] # {} =>
                           status[q] = "PENDING" \/ writeOrdering[q] # {}
      BY <1>3 DEF CommitRequestPending
    <3>5. UNCHANGED <<sequenceNumber, startSequenceNumber, beginning>> /\ CopyInv
      BY <1>3 DEF CommitRequestPending
    <3>. QED
      BY <3>1, <3>2, <3>3, <3>4, <3>5 DEF CopyInv
  <2>9. LockInv'
    <3>1. ASSUME NEW p \in TS, Prepared(p)', TxId[p] # TxId[h], ~Unseen(p, h)'
          PROVE  Prepared(p) /\ ~Unseen(p, h)
      BY <1>3, <3>1 DEF CommitRequestPending, Prepared, Unseen, Entry
    <3>. QED
      BY <1>3, <2>c, <3>1 DEF CommitRequestPending, LockInv
  <2>10. PreparedDisjoint'
    <3>1. ASSUME NEW p \in TS, Prepared(p)' PROVE Prepared(p) /\ p # h
      BY <1>3, <3>1 DEF CommitRequestPending, Prepared
    <3>6. \A p, q \in TS : Unseen(p, q)' <=> Unseen(p, q)
      BY <1>3 DEF CommitRequestPending, Unseen, Entry
    <3>2. \A q \in TS : q # h /\ q \in commitPendingTransactions'
                               /\ status'[q] = "COMMIT_PENDING" =>
                           q \in commitPendingTransactions /\ status[q] = "COMMIT_PENDING"
      BY <1>3 DEF CommitRequestPending
    <3>3. UNCHANGED <<sequenceNumber, writeOrdering, scans>> /\ PreparedDisjoint
      BY <1>3 DEF CommitRequestPending
    <3> SUFFICES ASSUME NEW p \in TS, NEW q \in TS, Prepared(p)', ~Unseen(p, q)',
                        (q \in commitPendingTransactions)',
                        (status[q] = "COMMIT_PENDING")', TxId[p] # TxId[q],
                        (sequenceNumber[p] < sequenceNumber[q])'
                 PROVE  (writeOrdering[p] \cap scans[q] = {})'
      BY DEF PreparedDisjoint
    <3>4. CASE q = h
      BY <2>c, <3>1, <3>3, <3>4, <3>6
    <3>5. CASE q # h
      BY <3>1, <3>2, <3>3, <3>5, <3>6 DEF PreparedDisjoint
    <3>. QED
      BY <3>4, <3>5
  <2>11. LeaseInv' /\ SequenceInv'
    BY <1>3 DEF CommitRequestPending, ToCheck, LeaseInv, SequenceInv
  <2>. QED
    BY <1>0, <2>1, <2>2, <2>3, <2>4, <2>5, <2>6, <2>7, <2>8, <2>9, <2>10, <2>11
<1>4. ASSUME NEW h \in TS, CommitRequestSequence(h) PROVE IInv'
  <2>1. StoppedInv'
    BY <1>4, <1>0 DEF CommitRequestSequence, StoppedInv, Requested, Resolving
  <2>2. NumberedInv'
    BY <1>4, <1>0 DEF CommitRequestSequence, NumberedInv
  <2>3. PreparedInv'
    BY <1>4, <1>0 DEF CommitRequestSequence, PreparedInv, Resolving
  <2>4. GoneInv'
    BY <1>4, <1>0
       DEF CommitRequestSequence, GoneInv, Leaving, Requested, Resolving,
           StoppedInv
  <2>5. SequenceInv'
    <3>1. SequenceInv /\ nextSequenceId \in Nat /\ sequenceNumber \in [TS -> Nat \cup {-1}]
              /\ startSequenceNumber \in [TS -> Nat]
      OBVIOUS
    <3>. QED
      BY <1>4, <3>1 DEF CommitRequestSequence, SequenceInv
  <2>6. CopyInv'
    BY <1>4, <1>0
       DEF CommitRequestSequence, CopyInv, Requested, Resolving, SequenceInv,
           LiveInv, FreshInv, NumberedInv, PreparedInv, EndingInv
  <2>7. LockInv'
    BY <1>4, <1>0
       DEF CommitRequestSequence, LockInv, Prepared, Unseen, Entry, Requested, StoppedInv
  <2>8. PreparedDisjoint'
    BY <1>4, <1>0
       DEF CommitRequestSequence, PreparedDisjoint, Prepared, Unseen, Entry, LockInv,
           SequenceInv, StoppedInv
  <2>9. FreshInv' /\ LiveInv' /\ LeaseInv' /\ EndingInv'
    BY <1>4
       DEF CommitRequestSequence, FreshInv, LiveInv, LeaseInv, EndingInv,
           Requested, Resolving
  <2>. QED
    BY <1>0, <2>1, <2>2, <2>3, <2>4, <2>5, <2>6, <2>7, <2>8, <2>9
<1>5. ASSUME NEW h \in TS, CommitRequestLog(h) PROVE IInv'
  <2>1. WorkUnchanged
    BY <1>5, ReplyFacts DEF CommitRequestLog, WorkUnchanged
  <2>. QED
    BY <1>5, <1>0, <2>1
       DEF CommitRequestLog, WorkUnchanged, StoppedInv, FreshInv, LiveInv,
           LeaseInv, EndingInv, NumberedInv, PreparedInv, GoneInv, SequenceInv,
           CopyInv, LockInv, PreparedDisjoint, Requested, Resolving, Leaving,
           Prepared, Unseen, Entry
<1>6. ASSUME NEW h \in TS, CommitRequestLogEmpty(h) PROVE IInv'
  <2>1. WorkUnchanged
    BY <1>6, ReplyFacts DEF CommitRequestLogEmpty
  <2>2. RetireStep(h)
    BY <1>6, <2>1
       DEF CommitRequestLogEmpty, RetireStep, RetireTransaction, FreshInv,
           StoppedInv, Requested, Resolving, NumberedInv, PreparedInv,
           EndingInv
  <2>. QED
    BY <1>0, <2>2, RetireInvStep
<1>7. ASSUME NEW h \in TS, CommitFails(h) PROVE IInv'
  <2>1. CASE CommitStatePutFault(h)
    <3>1. RetireStep(h)
      BY <1>7, <2>1
         DEF CommitFails, CommitStatePutFault, RetireStep, RetireTransaction,
             WorkUnchanged, FreshInv, StoppedInv, Requested, Resolving,
             NumberedInv, PreparedInv, EndingInv
    <3>. QED
      BY <1>0, <3>1, RetireInvStep
  <2>2. CASE CommitStateWalFault(h)
    BY <1>7, <1>0, <2>2
       DEF CommitFails, CommitStateWalFault, CommitStateApply, StoppedInv,
           FreshInv, LiveInv, LeaseInv, EndingInv, NumberedInv, PreparedInv,
           GoneInv, SequenceInv, CopyInv, LockInv, PreparedDisjoint, Requested,
           Resolving, Leaving, Prepared, Unseen, Entry
  <2>. QED
    BY <1>7, <2>1, <2>2 DEF CommitFails
<1>8. ASSUME NEW h \in TS, CommitMark(h) PROVE IInv'
  <2>1. CASE /\ CommitStateMark(h)
             /\ committing' = [committing EXCEPT ![h] = "marked"]
    BY <1>8, <1>0, <2>1
       DEF CommitMark, CommitStateMark, StoppedInv, FreshInv, LiveInv,
           LeaseInv, EndingInv, NumberedInv, PreparedInv, GoneInv, SequenceInv,
           CopyInv, LockInv, PreparedDisjoint, Requested, Resolving, Leaving,
           Prepared, Unseen, Entry
  <2>2. CASE /\ CommitStateFailure(h)
             /\ committing' = [committing EXCEPT ![h] = "no"]
    BY <1>8, <1>0, <2>2
       DEF CommitMark, CommitStateFailure, StoppedInv, FreshInv, LiveInv,
           LeaseInv, EndingInv, NumberedInv, PreparedInv, GoneInv, SequenceInv,
           CopyInv, LockInv, PreparedDisjoint, Requested, Resolving, Leaving,
           Prepared, Unseen, Entry
  <2>. QED
    BY <1>8, <2>1, <2>2 DEF CommitMark
<1>9. ASSUME NEW h \in TS, CommitRetire(h) PROVE IInv'
  <2>1. RetireStep(h)
    BY <1>9
       DEF CommitRetire, CommitStateRetire, RetireTransaction, RetireStep,
           WorkUnchanged, FreshInv, StoppedInv, Requested, Resolving,
           NumberedInv, PreparedInv, EndingInv
  <2>. QED
    BY <1>0, <2>1, RetireInvStep
<1>10. ASSUME NEW h \in TS, AbortRetire(h) PROVE IInv'
  <2>1. RetireStep(h)
    BY <1>10
       DEF AbortRetire, RetireTransaction, RetireStep, WorkUnchanged, FreshInv,
           StoppedInv, Requested, Resolving, NumberedInv, PreparedInv,
           EndingInv
  <2>. QED
    BY <1>0, <2>1, RetireInvStep
<1>11. ASSUME NEW h \in TS, LeaseAbortRetire(h) PROVE IInv'
  <2>1. RetireStep(h)
    BY <1>11
       DEF LeaseAbortRetire, RetireTransaction, RetireStep, WorkUnchanged,
           FreshInv, StoppedInv, Requested, Resolving, NumberedInv,
           PreparedInv, EndingInv
  <2>. QED
    BY <1>0, <2>1, RetireInvStep
<1>12. ASSUME NEW h \in TS, LeaseResolveFails(h) PROVE IInv'
  <2>1. CASE CommitStatePutFault(h)
    <3>1. RetireStep(h)
      BY <1>12, <2>1
         DEF LeaseResolveFails, CommitStatePutFault, RetireStep,
             RetireTransaction, WorkUnchanged, FreshInv, StoppedInv, Requested,
             Resolving, NumberedInv, PreparedInv, EndingInv
    <3>. QED
      BY <1>0, <3>1, RetireInvStep
  <2>2. CASE CommitStateWalFault(h)
    BY <1>12, <1>0, <2>2
       DEF LeaseResolveFails, CommitStateWalFault, CommitStateApply,
           StoppedInv, FreshInv, LiveInv, LeaseInv, EndingInv, NumberedInv,
           PreparedInv, GoneInv, SequenceInv, CopyInv, LockInv,
           PreparedDisjoint, Requested, Resolving, Leaving, Prepared, Unseen, Entry
  <2>. QED
    BY <1>12, <2>1, <2>2 DEF LeaseResolveFails
<1>13. ASSUME NEW h \in TS, LeaseResolveMark(h) PROVE IInv'
  <2>1. CASE /\ CommitStateMark(h)
             /\ expired' = [expired EXCEPT ![h] = "marked"]
    BY <1>13, <1>0, <2>1
       DEF LeaseResolveMark, CommitStateMark, StoppedInv, FreshInv, LiveInv,
           LeaseInv, EndingInv, NumberedInv, PreparedInv, GoneInv, SequenceInv,
           CopyInv, LockInv, PreparedDisjoint, Requested, Resolving, Leaving,
           Prepared, Unseen, Entry
  <2>2. CASE /\ CommitStateFailure(h)
             /\ expired' = [expired EXCEPT ![h] = "threw"]
    BY <1>13, <1>0, <2>2
       DEF LeaseResolveMark, CommitStateFailure, StoppedInv, FreshInv, LiveInv,
           LeaseInv, EndingInv, NumberedInv, PreparedInv, GoneInv, SequenceInv,
           CopyInv, LockInv, PreparedDisjoint, Requested, Resolving, Leaving,
           Prepared, Unseen, Entry
  <2>. QED
    BY <1>13, <2>1, <2>2 DEF LeaseResolveMark
<1>14. ASSUME NEW h \in TS, LeaseResolveRetire(h) PROVE IInv'
  <2>1. RetireStep(h)
    BY <1>14
       DEF LeaseResolveRetire, CommitStateRetire, RetireTransaction,
           RetireStep, WorkUnchanged, FreshInv, StoppedInv, Requested,
           Resolving, NumberedInv, PreparedInv, EndingInv
  <2>. QED
    BY <1>0, <2>1, RetireInvStep
<1>15. CASE LightStep
  BY <1>15, LightInvStep
<1>16. CASE UNCHANGED vars
  BY <1>16, <1>0
     DEF vars, StoppedInv, FreshInv, LiveInv, LeaseInv, EndingInv, NumberedInv,
         PreparedInv, GoneInv, SequenceInv, CopyInv, LockInv, PreparedDisjoint,
         Requested, Resolving, Leaving, Prepared, Unseen, Entry
<1> HIDE DEF IInv
<1>. QED
  BY <1>1, <1>2, <1>3, <1>4, <1>5, <1>6, <1>7, <1>8, <1>9, <1>10, <1>11, <1>12,
     <1>13, <1>14, <1>15, <1>16 DEF LightStep, Next, CommitRequest, PhaseTwo,
     Lease

\* A step that registers no object and leaves the chore where it is.
MinimumFrame ==
    /\ \A h \in TS : transactionsById'[TxId[h]] = h => transactionsById[TxId[h]] = h
    /\ nextSequenceId <= nextSequenceId'
    /\ lapsed \subseteq lapsed'
    /\ UNCHANGED <<beginning, startSequenceNumber, chore>>

\* Such a step keeps the minimum below the start numbers.
LEMMA MinimumFrameStep ==
    ASSUME TypeOK, TypeOK', MinimumInv, MinimumFrame PROVE MinimumInv'
<1>1. chore.at = "holds" => chore.min \in Nat \cup {-1}
  BY DEF TypeOK
<1>. QED
  BY <1>1 DEF MinimumInv, MinimumFrame, TypeOK

\* Every step keeps the minimum that the chore holds a lower bound.
LEMMA MinimumStep ==
    IInv /\ IInv' /\ MapInv /\ [Next]_vars => MinimumInv'
<1> SUFFICES ASSUME IInv, IInv', MapInv, [Next]_vars PROVE MinimumInv'
  OBVIOUS
<1> USE TxIdAssumption, NoTSAssumption
<1>0. TypeOK /\ TypeOK' /\ SequenceInv /\ MinimumInv
  BY DEF IInv, ObjectInv, MapInv
<1> USE <1>0 DEF TypeOK, SequenceInv, MinimumFrame, regionVars, epochVars,
            bufferVars, numberVars, threadVars, clientVars
<1>1. ASSUME NEW h \in TS, NEW r \in Row, Put(h, r) PROVE MinimumInv'
  <2>1. MinimumFrame
    BY <1>1 DEF Put, Operation
  <2>. QED
    BY <1>0, <2>1, MinimumFrameStep
<1>2. ASSUME NEW h \in TS, NEW r \in Row, Delete(h, r) PROVE MinimumInv'
  <2>1. MinimumFrame
    BY <1>2 DEF Delete, Operation
  <2>. QED
    BY <1>0, <2>1, MinimumFrameStep
<1>3. ASSUME NEW h \in TS, NEW r \in Row, NEW s \in Row, GetScanner(h, r, s)
      PROVE MinimumInv'
  <2>1. MinimumFrame
    BY <1>3 DEF GetScanner, Operation
  <2>. QED
    BY <1>0, <2>1, MinimumFrameStep
<1>4. ASSUME NEW h \in TS, CommitRequestLookup(h) PROVE MinimumInv'
  <2>1. MinimumFrame
    BY <1>4 DEF CommitRequestLookup
  <2>. QED
    BY <1>0, <2>1, MinimumFrameStep
<1>5. ASSUME NEW h \in TS, CommitRequestConflict(h) PROVE MinimumInv'
  <2>1. MinimumFrame
    BY <1>5 DEF CommitRequestConflict, RetireTransaction
  <2>. QED
    BY <1>0, <2>1, MinimumFrameStep
<1>6. ASSUME NEW h \in TS, CommitRequestReadOnly(h) PROVE MinimumInv'
  <2>1. MinimumFrame
    BY <1>6 DEF CommitRequestReadOnly, RetireTransaction
  <2>. QED
    BY <1>0, <2>1, MinimumFrameStep
<1>7. ASSUME NEW h \in TS, CommitRequestPending(h) PROVE MinimumInv'
  <2>1. MinimumFrame
    BY <1>7 DEF CommitRequestPending
  <2>. QED
    BY <1>0, <2>1, MinimumFrameStep
<1>8. ASSUME NEW h \in TS, CommitRequestSequence(h) PROVE MinimumInv'
  <2>1. MinimumFrame
    BY <1>8 DEF CommitRequestSequence
  <2>. QED
    BY <1>0, <2>1, MinimumFrameStep
<1>9. ASSUME NEW h \in TS, CommitRequestLog(h) PROVE MinimumInv'
  <2>1. MinimumFrame
    BY <1>9 DEF CommitRequestLog
  <2>. QED
    BY <1>0, <2>1, MinimumFrameStep
<1>10. ASSUME NEW h \in TS, CommitRequestLogEmpty(h) PROVE MinimumInv'
  <2>1. MinimumFrame
    BY <1>10 DEF CommitRequestLogEmpty, RetireTransaction
  <2>. QED
    BY <1>0, <2>1, MinimumFrameStep
<1>11. ASSUME NEW h \in TS, CommitLookup(h) PROVE MinimumInv'
  <2>1. MinimumFrame
    BY <1>11 DEF CommitLookup
  <2>. QED
    BY <1>0, <2>1, MinimumFrameStep
<1>12. ASSUME NEW h \in TS, CommitDuplicate(h) PROVE MinimumInv'
  <2>1. MinimumFrame
    BY <1>12 DEF CommitDuplicate
  <2>. QED
    BY <1>0, <2>1, MinimumFrameStep
<1>13. ASSUME NEW h \in TS, CommitApply(h) PROVE MinimumInv'
  <2>1. MinimumFrame
    BY <1>13 DEF CommitApply, CommitStateApply
  <2>. QED
    BY <1>0, <2>1, MinimumFrameStep
<1>14. ASSUME NEW h \in TS, CommitFails(h) PROVE MinimumInv'
  <2>1. MinimumFrame
    BY <1>14 DEF CommitFails, CommitStatePutFault, CommitStateWalFault,
       CommitStateApply, RetireTransaction
  <2>. QED
    BY <1>0, <2>1, MinimumFrameStep
<1>15. ASSUME NEW h \in TS, CommitMark(h) PROVE MinimumInv'
  <2>1. MinimumFrame
    BY <1>15 DEF CommitMark, CommitStateMark, CommitStateFailure
  <2>. QED
    BY <1>0, <2>1, MinimumFrameStep
<1>16. ASSUME NEW h \in TS, CommitRetire(h) PROVE MinimumInv'
  <2>1. MinimumFrame
    BY <1>16 DEF CommitRetire, CommitStateRetire, RetireTransaction
  <2>. QED
    BY <1>0, <2>1, MinimumFrameStep
<1>17. ASSUME NEW h \in TS, AbortMark(h) PROVE MinimumInv'
  <2>1. MinimumFrame
    BY <1>17 DEF AbortMark
  <2>. QED
    BY <1>0, <2>1, MinimumFrameStep
<1>18. ASSUME NEW h \in TS, AbortWalFault(h) PROVE MinimumInv'
  <2>1. MinimumFrame
    BY <1>18 DEF AbortWalFault
  <2>. QED
    BY <1>0, <2>1, MinimumFrameStep
<1>19. ASSUME NEW h \in TS, AbortRemove(h) PROVE MinimumInv'
  <2>1. MinimumFrame
    BY <1>19 DEF AbortRemove
  <2>. QED
    BY <1>0, <2>1, MinimumFrameStep
<1>20. ASSUME NEW h \in TS, AbortRetire(h) PROVE MinimumInv'
  <2>1. MinimumFrame
    BY <1>20 DEF AbortRetire, RetireTransaction
  <2>. QED
    BY <1>0, <2>1, MinimumFrameStep
<1>21. ASSUME NEW h \in TS, LeaseExpired(h) PROVE MinimumInv'
  <2>1. MinimumFrame
    BY <1>21 DEF LeaseExpired
  <2>. QED
    BY <1>0, <2>1, MinimumFrameStep
<1>22. ASSUME NEW h \in TS, LeaseSwitch(h) PROVE MinimumInv'
  <2>1. MinimumFrame
    BY <1>22 DEF LeaseSwitch
  <2>. QED
    BY <1>0, <2>1, MinimumFrameStep
<1>23. ASSUME NEW h \in TS, LeaseAbortMark(h) PROVE MinimumInv'
  <2>1. MinimumFrame
    BY <1>23 DEF LeaseAbortMark
  <2>. QED
    BY <1>0, <2>1, MinimumFrameStep
<1>24. ASSUME NEW h \in TS, LeaseAbortRetire(h) PROVE MinimumInv'
  <2>1. MinimumFrame
    BY <1>24 DEF LeaseAbortRetire, RetireTransaction
  <2>. QED
    BY <1>0, <2>1, MinimumFrameStep
<1>25. ASSUME NEW h \in TS, LeaseResolve(h) PROVE MinimumInv'
  <2>1. MinimumFrame
    BY <1>25 DEF LeaseResolve, CommitStateApply
  <2>. QED
    BY <1>0, <2>1, MinimumFrameStep
<1>26. ASSUME NEW h \in TS, LeaseResolveFails(h) PROVE MinimumInv'
  <2>1. MinimumFrame
    BY <1>26 DEF LeaseResolveFails, CommitStatePutFault, CommitStateWalFault,
       CommitStateApply, RetireTransaction
  <2>. QED
    BY <1>0, <2>1, MinimumFrameStep
<1>27. ASSUME NEW h \in TS, LeaseResolveMark(h) PROVE MinimumInv'
  <2>1. MinimumFrame
    BY <1>27 DEF LeaseResolveMark, CommitStateMark, CommitStateFailure
  <2>. QED
    BY <1>0, <2>1, MinimumFrameStep
<1>28. ASSUME NEW h \in TS, LeaseResolveRetire(h) PROVE MinimumInv'
  <2>1. MinimumFrame
    BY <1>28 DEF LeaseResolveRetire, CommitStateRetire, RetireTransaction
  <2>. QED
    BY <1>0, <2>1, MinimumFrameStep
<1>29. ASSUME NEW t \in Tid, CommitRequestUnknown(t) PROVE MinimumInv'
  <2>1. MinimumFrame
    BY <1>29 DEF CommitRequestUnknown
  <2>. QED
    BY <1>0, <2>1, MinimumFrameStep
<1>30. ASSUME NEW t \in Tid, DecideCommit(t) PROVE MinimumInv'
  <2>1. MinimumFrame
    BY <1>30 DEF DecideCommit
  <2>. QED
    BY <1>0, <2>1, MinimumFrameStep
<1>31. ASSUME NEW t \in Tid, DecideAbort(t) PROVE MinimumInv'
  <2>1. MinimumFrame
    BY <1>31 DEF DecideAbort
  <2>. QED
    BY <1>0, <2>1, MinimumFrameStep
<1>32. ASSUME NEW t \in Tid, CommitUnknown(t) PROVE MinimumInv'
  <2>1. MinimumFrame
    BY <1>32 DEF CommitUnknown
  <2>. QED
    BY <1>0, <2>1, MinimumFrameStep
<1>33. ASSUME NEW t \in Tid, AbortDuplicate(t) PROVE MinimumInv'
  <2>1. MinimumFrame
    BY <1>33 DEF AbortDuplicate
  <2>. QED
    BY <1>0, <2>1, MinimumFrameStep
<1>34. ASSUME NEW tm \in Tm, RecoveryRequest(tm) PROVE MinimumInv'
  <2>1. MinimumFrame
    BY <1>34 DEF RecoveryRequest
  <2>. QED
    BY <1>0, <2>1, MinimumFrameStep
<1>35. ASSUME NEW h \in TS, BeginTransactionCreate(h) PROVE MinimumInv'
  BY <1>35 DEF BeginTransactionCreate, MinimumInv
<1>36. ASSUME NEW h \in TS, BeginTransactionRegister(h) PROVE MinimumInv'
  BY <1>36 DEF BeginTransactionRegister, MinimumInv
<1>37. ASSUME NEW h \in TS, LeaseRenew(h) PROVE MinimumInv'
  BY <1>37 DEF LeaseRenew, MinimumInv, MapInv, SingleInv
<1>38. ASSUME ChoreMin PROVE MinimumInv'
  BY <1>38 DEF ChoreMin, ChoreHolds, Registered, MinimumInv
<1>39. ASSUME ChoreRemove PROVE MinimumInv'
  BY <1>39 DEF ChoreRemove, ChoreCleaned, MinimumInv
<1>40. ASSUME ChoreDetectStale PROVE MinimumInv'
  BY <1>40 DEF ChoreDetectStale, ChoreIdle, MinimumInv
<1>41. CASE UNCHANGED vars
  BY <1>41 DEF vars, MinimumInv
<1>. QED
  BY <1>1, <1>2, <1>3, <1>4, <1>5, <1>6, <1>7, <1>8, <1>9, <1>10, <1>11,
     <1>12, <1>13, <1>14, <1>15, <1>16, <1>17, <1>18, <1>19, <1>20, <1>21,
     <1>22, <1>23, <1>24, <1>25, <1>26, <1>27, <1>28, <1>29, <1>30, <1>31,
     <1>32, <1>33, <1>34, <1>35, <1>36, <1>37, <1>38, <1>39, <1>40, <1>41 DEF
     Next, Begin, Work, CommitRequest, PhaseTwo, Lease, Chore, Client

\* Every step keeps the transactions whose leases did not expire single.
LEMMA SingleStep == IInv /\ IInv' /\ MapInv /\ [Next]_vars => SingleInv'
<1> SUFFICES ASSUME IInv, IInv', MapInv, [Next]_vars PROVE SingleInv'
  OBVIOUS
<1> USE TxIdAssumption, NoTSAssumption
<1>0. /\ TypeOK /\ TypeOK' /\ StoppedInv /\ FreshInv /\ EndingInv
      /\ NumberedInv /\ PreparedInv /\ SingleInv
  BY DEF IInv, ControlInv, ObjectInv, MapInv
<1> USE <1>0 DEF TypeOK, StoppedInv, FreshInv, EndingInv, NumberedInv, PreparedInv, SingleInv,
            Requested, Resolving, regionVars, epochVars, bufferVars,
            numberVars, threadVars, clientVars
<1>1. ASSUME NEW h \in TS, BeginTransactionCreate(h) PROVE SingleInv'
  <2>1. \A g \in TS : TxId[g] = TxId[h] /\ TxId[g] \notin lapsed => status[g] = "FREE"
    BY <1>1 DEF BeginTransactionCreate
  <2>2. /\ \A g \in TS : g # h => status'[g] = status[g]
        /\ beginning = NoTS /\ beginning' = h
        /\ UNCHANGED <<requesting, logging, expired, lapsed, phase,
                       writeOrdering, transactionsById>>
    BY <1>1 DEF BeginTransactionCreate
  <2>3. status'[h] = "PENDING" /\ h \notin requesting \cup logging
    BY <1>1 DEF BeginTransactionCreate
  <2>4. \A g \in TS : status'[g] # "FREE" /\ TxId[g] \notin lapsed =>
            \/ g = h
            \/ status[g] # "FREE" /\ TxId[g] # TxId[h] /\ g # h
    BY <2>1, <2>2
  <2>5. SingleInv
    OBVIOUS
  <2> HIDE DEF TypeOK, StoppedInv, FreshInv, EndingInv, NumberedInv, PreparedInv
  <2>. QED
    BY <2>1, <2>2, <2>3, <2>4, <2>5
<1>2. ASSUME NEW h \in TS, BeginTransactionRegister(h) PROVE SingleInv'
  BY <1>2 DEF BeginTransactionRegister
<1>3. ASSUME NEW h \in TS, NEW r \in Row, Put(h, r) PROVE SingleInv'
  BY <1>3 DEF Put, Operation
<1>4. ASSUME NEW h \in TS, NEW r \in Row, Delete(h, r) PROVE SingleInv'
  BY <1>4 DEF Delete, Operation
<1>5. ASSUME NEW h \in TS, NEW r \in Row, NEW s \in Row, GetScanner(h, r, s) PROVE SingleInv'
  BY <1>5 DEF GetScanner, Operation
<1>6. ASSUME NEW h \in TS, CommitRequestLookup(h) PROVE SingleInv'
  BY <1>6 DEF CommitRequestLookup
<1>7. ASSUME NEW h \in TS, CommitRequestConflict(h) PROVE SingleInv'
  <2>1. WorkUnchanged
    BY <1>7, ReplyFacts DEF CommitRequestConflict, WorkUnchanged, Phase
  <2>. QED
    BY <1>7, <2>1 DEF WorkUnchanged, CommitRequestConflict, RetireTransaction
<1>8. ASSUME NEW h \in TS, CommitRequestReadOnly(h) PROVE SingleInv'
  <2>1. WorkUnchanged
    BY <1>8, ReplyFacts DEF CommitRequestReadOnly, WorkUnchanged, Phase
  <2>. QED
    BY <1>8, <2>1 DEF WorkUnchanged, CommitRequestReadOnly, RetireTransaction
<1>9. ASSUME NEW h \in TS, CommitRequestPending(h) PROVE SingleInv'
  BY <1>9 DEF CommitRequestPending
<1>10. ASSUME NEW h \in TS, CommitRequestSequence(h) PROVE SingleInv'
  BY <1>10 DEF CommitRequestSequence
<1>11. ASSUME NEW h \in TS, CommitRequestLog(h) PROVE SingleInv'
  <2>1. WorkUnchanged
    BY <1>11, ReplyFacts DEF CommitRequestLog, WorkUnchanged, Phase
  <2>. QED
    BY <1>11, <2>1 DEF WorkUnchanged, CommitRequestLog
<1>12. ASSUME NEW h \in TS, CommitRequestLogEmpty(h) PROVE SingleInv'
  <2>1. WorkUnchanged
    BY <1>12, ReplyFacts DEF CommitRequestLogEmpty, WorkUnchanged, Phase
  <2>. QED
    BY <1>12, <2>1 DEF WorkUnchanged, CommitRequestLogEmpty, RetireTransaction
<1>13. ASSUME NEW h \in TS, CommitLookup(h) PROVE SingleInv'
  BY <1>13 DEF CommitLookup
<1>14. ASSUME NEW h \in TS, CommitDuplicate(h) PROVE SingleInv'
  BY <1>14 DEF CommitDuplicate
<1>15. ASSUME NEW h \in TS, CommitApply(h) PROVE SingleInv'
  BY <1>15 DEF CommitApply, CommitStateApply
<1>16. ASSUME NEW h \in TS, CommitFails(h) PROVE SingleInv'
  <2>1. CASE CommitStatePutFault(h)
    BY <1>16, <2>1 DEF CommitFails, CommitStatePutFault, RetireTransaction
  <2>2. CASE CommitStateWalFault(h)
    BY <1>16, <2>2 DEF CommitFails, CommitStateWalFault, CommitStateApply
  <2>. QED
    BY <1>16, <2>1, <2>2 DEF CommitFails
<1>17. ASSUME NEW h \in TS, CommitMark(h) PROVE SingleInv'
  <2>1. \A g \in TS : status[g] = "FREE" => status'[g] = "FREE"
    BY <1>17 DEF CommitMark, CommitStateMark, CommitStateFailure
  <2>2. status[h] # "FREE"
    BY <1>17 DEF CommitMark
  <2>3. \A g \in TS : status'[g] # "FREE" <=> status[g] # "FREE"
    BY <1>17, <2>2 DEF CommitMark, CommitStateMark, CommitStateFailure
  <2>4. UNCHANGED <<requesting, logging, expired, lapsed, phase, beginning,
                    writeOrdering, transactionsById>>
    BY <1>17 DEF CommitMark, CommitStateMark, CommitStateFailure
  <2>. QED
    BY <2>3, <2>4
<1>18. ASSUME NEW h \in TS, CommitRetire(h) PROVE SingleInv'
  BY <1>18 DEF CommitRetire, CommitStateRetire, RetireTransaction
<1>19. ASSUME NEW h \in TS, AbortMark(h) PROVE SingleInv'
  BY <1>19 DEF AbortMark
<1>20. ASSUME NEW h \in TS, AbortWalFault(h) PROVE SingleInv'
  BY <1>20 DEF AbortWalFault
<1>21. ASSUME NEW h \in TS, AbortRemove(h) PROVE SingleInv'
  BY <1>21 DEF AbortRemove
<1>22. ASSUME NEW h \in TS, AbortRetire(h) PROVE SingleInv'
  BY <1>22 DEF AbortRetire, RetireTransaction
<1>23. ASSUME NEW h \in TS, LeaseExpired(h) PROVE SingleInv'
  BY <1>23 DEF LeaseExpired
<1>24. ASSUME NEW h \in TS, LeaseSwitch(h) PROVE SingleInv'
  BY <1>24 DEF LeaseSwitch
<1>25. ASSUME NEW h \in TS, LeaseAbortMark(h) PROVE SingleInv'
  BY <1>25 DEF LeaseAbortMark
<1>26. ASSUME NEW h \in TS, LeaseAbortRetire(h) PROVE SingleInv'
  BY <1>26 DEF LeaseAbortRetire, RetireTransaction
<1>27. ASSUME NEW h \in TS, LeaseRenew(h) PROVE SingleInv'
  BY <1>27 DEF LeaseRenew
<1>28. ASSUME NEW h \in TS, LeaseResolve(h) PROVE SingleInv'
  BY <1>28 DEF LeaseResolve, CommitStateApply
<1>29. ASSUME NEW h \in TS, LeaseResolveFails(h) PROVE SingleInv'
  BY <1>29 DEF LeaseResolveFails, CommitStatePutFault, CommitStateWalFault,
     CommitStateApply, RetireTransaction
<1>30. ASSUME NEW h \in TS, LeaseResolveMark(h) PROVE SingleInv'
  BY <1>30 DEF LeaseResolveMark, CommitStateMark, CommitStateFailure
<1>31. ASSUME NEW h \in TS, LeaseResolveRetire(h) PROVE SingleInv'
  BY <1>31 DEF LeaseResolveRetire, CommitStateRetire, RetireTransaction
<1>32. ASSUME NEW t \in Tid, CommitRequestUnknown(t) PROVE SingleInv'
  BY <1>32 DEF CommitRequestUnknown, NoRequest, Beginning
<1>33. ASSUME NEW t \in Tid, DecideCommit(t) PROVE SingleInv'
  BY <1>33 DEF DecideCommit
<1>34. ASSUME NEW t \in Tid, DecideAbort(t) PROVE SingleInv'
  BY <1>34 DEF DecideAbort, Beginning
<1>35. ASSUME NEW t \in Tid, CommitUnknown(t) PROVE SingleInv'
  BY <1>35 DEF CommitUnknown
<1>36. ASSUME NEW t \in Tid, AbortDuplicate(t) PROVE SingleInv'
  BY <1>36 DEF AbortDuplicate
<1>37. ASSUME ChoreMin PROVE SingleInv'
  BY <1>37 DEF ChoreMin
<1>38. ASSUME ChoreRemove PROVE SingleInv'
  BY <1>38 DEF ChoreRemove
<1>39. ASSUME ChoreDetectStale PROVE SingleInv'
  BY <1>39 DEF ChoreDetectStale
<1>40. ASSUME NEW tm \in Tm, RecoveryRequest(tm) PROVE SingleInv'
  BY <1>40 DEF RecoveryRequest
<1>41. CASE UNCHANGED vars
  BY <1>41 DEF vars
<1> HIDE DEF SingleInv
<1>. QED
  BY <1>1, <1>2, <1>3, <1>4, <1>5, <1>6, <1>7, <1>8, <1>9, <1>10, <1>11,
     <1>12, <1>13, <1>14, <1>15, <1>16, <1>17, <1>18, <1>19, <1>20, <1>21,
     <1>22, <1>23, <1>24, <1>25, <1>26, <1>27, <1>28, <1>29, <1>30, <1>31,
     <1>32, <1>33, <1>34, <1>35, <1>36, <1>37, <1>38, <1>39, <1>40, <1>41 DEF
     Next, Begin, Work, CommitRequest, PhaseTwo, Lease, Chore, Client

\* A step that numbers no object, starts no transaction and leaves the map
\* alone.
EntryFrame ==
    /\ \A h \in TS : transactionsById'[TxId[h]] = h \/ beginning' = h =>
                        \/ transactionsById[TxId[h]] = h
                        \/ beginning = h
                        \/ TxId[h] \in lapsed
    /\ lapsed \subseteq lapsed'
    /\ UNCHANGED <<commitedTransactionsBySequenceNumber, sequenceNumber,
                   startSequenceNumber, swept>>

\* Every step keeps the entries that active transactions look for.
LEMMA EntryStep == IInv /\ IInv' /\ MapInv /\ [Next]_vars => EntryInv'
<1> SUFFICES ASSUME IInv, IInv', MapInv, [Next]_vars PROVE EntryInv'
  OBVIOUS
<1> USE TxIdAssumption, NoTSAssumption
<1>0. TypeOK /\ TypeOK' /\ SequenceInv /\ EntryInv /\ MinimumInv /\ SingleInv
  BY DEF IInv, ObjectInv, MapInv
<1> USE <1>0 DEF TypeOK, SequenceInv, regionVars, epochVars, bufferVars,
            numberVars, threadVars, clientVars
<1>f. ASSUME EntryFrame PROVE EntryInv'
  BY <1>f DEF EntryFrame, EntryInv, Entry
<1>1. ASSUME NEW h \in TS, BeginTransactionCreate(h) PROVE EntryInv'
  BY <1>1 DEF BeginTransactionCreate, EntryInv, Entry
<1>2. ASSUME NEW h \in TS, BeginTransactionRegister(h) PROVE EntryInv'
  BY <1>2, <1>f DEF EntryFrame, BeginTransactionRegister
<1>3. ASSUME NEW h \in TS, NEW r \in Row, Put(h, r) PROVE EntryInv'
  BY <1>3, <1>f DEF EntryFrame, Put, Operation
<1>4. ASSUME NEW h \in TS, NEW r \in Row, Delete(h, r) PROVE EntryInv'
  BY <1>4, <1>f DEF EntryFrame, Delete, Operation
<1>5. ASSUME NEW h \in TS, NEW r \in Row, NEW s \in Row, GetScanner(h, r, s) PROVE EntryInv'
  BY <1>5, <1>f DEF EntryFrame, GetScanner, Operation
<1>6. ASSUME NEW h \in TS, CommitRequestLookup(h) PROVE EntryInv'
  BY <1>6, <1>f DEF EntryFrame, CommitRequestLookup
<1>7. ASSUME NEW h \in TS, CommitRequestConflict(h) PROVE EntryInv'
  BY <1>7, <1>f DEF EntryFrame, CommitRequestConflict, RetireTransaction
<1>8. ASSUME NEW h \in TS, CommitRequestReadOnly(h) PROVE EntryInv'
  BY <1>8, <1>f DEF EntryFrame, CommitRequestReadOnly, RetireTransaction
<1>9. ASSUME NEW h \in TS, CommitRequestPending(h) PROVE EntryInv'
  BY <1>9, <1>f DEF EntryFrame, CommitRequestPending
<1>10. ASSUME NEW h \in TS, CommitRequestSequence(h) PROVE EntryInv'
  BY <1>10 DEF CommitRequestSequence, EntryInv, Entry
<1>11. ASSUME NEW h \in TS, CommitRequestLog(h) PROVE EntryInv'
  BY <1>11, <1>f DEF EntryFrame, CommitRequestLog
<1>12. ASSUME NEW h \in TS, CommitRequestLogEmpty(h) PROVE EntryInv'
  BY <1>12, <1>f DEF EntryFrame, CommitRequestLogEmpty, RetireTransaction
<1>13. ASSUME NEW h \in TS, CommitLookup(h) PROVE EntryInv'
  BY <1>13, <1>f DEF EntryFrame, CommitLookup
<1>14. ASSUME NEW h \in TS, CommitDuplicate(h) PROVE EntryInv'
  BY <1>14, <1>f DEF EntryFrame, CommitDuplicate
<1>15. ASSUME NEW h \in TS, CommitApply(h) PROVE EntryInv'
  BY <1>15, <1>f DEF EntryFrame, CommitApply, CommitStateApply
<1>16. ASSUME NEW h \in TS, CommitFails(h) PROVE EntryInv'
  BY <1>16, <1>f DEF EntryFrame, CommitFails, CommitStatePutFault,
     CommitStateWalFault, CommitStateApply, RetireTransaction
<1>17. ASSUME NEW h \in TS, CommitMark(h) PROVE EntryInv'
  BY <1>17, <1>f DEF EntryFrame, CommitMark, CommitStateMark,
     CommitStateFailure
<1>18. ASSUME NEW h \in TS, CommitRetire(h) PROVE EntryInv'
  BY <1>18, <1>f DEF EntryFrame, CommitRetire, CommitStateRetire,
     RetireTransaction
<1>19. ASSUME NEW h \in TS, AbortMark(h) PROVE EntryInv'
  BY <1>19, <1>f DEF EntryFrame, AbortMark
<1>20. ASSUME NEW h \in TS, AbortWalFault(h) PROVE EntryInv'
  BY <1>20, <1>f DEF EntryFrame, AbortWalFault
<1>21. ASSUME NEW h \in TS, AbortRemove(h) PROVE EntryInv'
  BY <1>21, <1>f DEF EntryFrame, AbortRemove
<1>22. ASSUME NEW h \in TS, AbortRetire(h) PROVE EntryInv'
  BY <1>22, <1>f DEF EntryFrame, AbortRetire, RetireTransaction
<1>23. ASSUME NEW h \in TS, LeaseExpired(h) PROVE EntryInv'
  BY <1>23, <1>f DEF EntryFrame, LeaseExpired
<1>24. ASSUME NEW h \in TS, LeaseSwitch(h) PROVE EntryInv'
  BY <1>24, <1>f DEF EntryFrame, LeaseSwitch
<1>25. ASSUME NEW h \in TS, LeaseAbortMark(h) PROVE EntryInv'
  BY <1>25, <1>f DEF EntryFrame, LeaseAbortMark
<1>26. ASSUME NEW h \in TS, LeaseAbortRetire(h) PROVE EntryInv'
  BY <1>26, <1>f DEF EntryFrame, LeaseAbortRetire, RetireTransaction
<1>27. ASSUME NEW h \in TS, LeaseRenew(h) PROVE EntryInv'
  BY <1>27, <1>f DEF EntryFrame, SingleInv, LeaseRenew
<1>28. ASSUME NEW h \in TS, LeaseResolve(h) PROVE EntryInv'
  BY <1>28, <1>f DEF EntryFrame, LeaseResolve, CommitStateApply
<1>29. ASSUME NEW h \in TS, LeaseResolveFails(h) PROVE EntryInv'
  BY <1>29, <1>f DEF EntryFrame, LeaseResolveFails, CommitStatePutFault,
     CommitStateWalFault, CommitStateApply, RetireTransaction
<1>30. ASSUME NEW h \in TS, LeaseResolveMark(h) PROVE EntryInv'
  BY <1>30, <1>f DEF EntryFrame, LeaseResolveMark, CommitStateMark,
     CommitStateFailure
<1>31. ASSUME NEW h \in TS, LeaseResolveRetire(h) PROVE EntryInv'
  BY <1>31, <1>f DEF EntryFrame, LeaseResolveRetire, CommitStateRetire,
     RetireTransaction
<1>32. ASSUME NEW t \in Tid, CommitRequestUnknown(t) PROVE EntryInv'
  BY <1>32, <1>f DEF EntryFrame, CommitRequestUnknown, NoRequest, Beginning
<1>33. ASSUME NEW t \in Tid, DecideCommit(t) PROVE EntryInv'
  BY <1>33, <1>f DEF EntryFrame, DecideCommit
<1>34. ASSUME NEW t \in Tid, DecideAbort(t) PROVE EntryInv'
  BY <1>34, <1>f DEF EntryFrame, DecideAbort, Beginning
<1>35. ASSUME NEW t \in Tid, CommitUnknown(t) PROVE EntryInv'
  BY <1>35, <1>f DEF EntryFrame, CommitUnknown
<1>36. ASSUME NEW t \in Tid, AbortDuplicate(t) PROVE EntryInv'
  BY <1>36, <1>f DEF EntryFrame, AbortDuplicate
<1>37. ASSUME ChoreMin PROVE EntryInv'
  BY <1>37, <1>f DEF EntryFrame, ChoreMin
<1>38. ASSUME ChoreRemove PROVE EntryInv'
  <2>1. CASE chore.min = -1
    BY <1>38, <2>1 DEF ChoreRemove, EntryInv, Entry
  <2>2. CASE chore.min # -1
    <3>1. UNCHANGED <<transactionsById, beginning, lapsed, startSequenceNumber,
                      sequenceNumber, swept>>
      BY <1>38, <2>2 DEF ChoreRemove
    <3>2. ASSUME NEW p \in TS, NEW q \in TS, sequenceNumber[p] # -1,
                 Entry(p) \notin swept,
                 transactionsById[TxId[q]] = q \/ beginning = q,
                 TxId[q] \notin lapsed,
                 startSequenceNumber[q] <= sequenceNumber[p]
          PROVE  <<sequenceNumber[p], p>> \in commitedTransactionsBySequenceNumber'
      <4>1. chore.min <= startSequenceNumber[q] /\ chore.min \in Nat
        BY <1>38, <2>2, <3>2 DEF ChoreRemove, MinimumInv
      <4>2. <<sequenceNumber[p], p>> \in commitedTransactionsBySequenceNumber
        BY <3>2 DEF EntryInv, Entry
      <4>3. sequenceNumber[p] >= chore.min
        BY <3>2, <4>1
      <4>. QED
        BY <1>38, <2>2, <4>2, <4>3 DEF ChoreRemove
    <3>. QED
      BY <3>1, <3>2 DEF EntryInv, Entry
  <2>. QED
    BY <2>1, <2>2
<1>39. ASSUME ChoreDetectStale PROVE EntryInv'
  BY <1>39, <1>f DEF EntryFrame, ChoreDetectStale
<1>40. ASSUME NEW tm \in Tm, RecoveryRequest(tm) PROVE EntryInv'
  BY <1>40, <1>f DEF EntryFrame, RecoveryRequest
<1>41. CASE UNCHANGED vars
  BY <1>41, <1>f DEF vars, EntryFrame
<1>. QED
  BY <1>1, <1>2, <1>3, <1>4, <1>5, <1>6, <1>7, <1>8, <1>9, <1>10, <1>11,
     <1>12, <1>13, <1>14, <1>15, <1>16, <1>17, <1>18, <1>19, <1>20, <1>21,
     <1>22, <1>23, <1>24, <1>25, <1>26, <1>27, <1>28, <1>29, <1>30, <1>31,
     <1>32, <1>33, <1>34, <1>35, <1>36, <1>37, <1>38, <1>39, <1>40, <1>41 DEF
     Next, Begin, Work, CommitRequest, PhaseTwo, Lease, Chore, Client

\* The inductive invariant holds when the region starts.
LEMMA InvInit == Init => IInv /\ MapInv
  BY TxIdAssumption, TmIdAssumption, NoTSAssumption
     DEF Init, IInv, TypeOK, Status, CommitProgress, Phase, Bounded, ChoreIdle,
         ControlInv, ObjectInv, StoppedInv, Requested, Resolving, FreshInv,
         LiveInv, LeaseInv, EndingInv, NumberedInv, PreparedInv, GoneInv,
         SequenceInv, CopyInv, LockInv, PreparedDisjoint, Prepared, MapInv,
         SingleInv, MinimumInv, EntryInv

\* The inductive invariant holds in every state the region can reach.
THEOREM Invariance == Spec => []IInv
<1>1. IInv /\ MapInv /\ [Next]_vars => (IInv /\ MapInv)'
  BY InvStep, SingleStep, MinimumStep, EntryStep DEF MapInv
<1>. QED
  BY <1>1, InvInit, PTL DEF Spec

\* The variables of the region keep their types.
THEOREM TypeCorrect == Spec => []TypeOK
<1>1. IInv => TypeOK
  BY DEF IInv
<1>. QED
  BY <1>1, Invariance, PTL

\* Transactions prepared at the same time do not conflict: the check of
\* commitRequest, the order of its two registrations and the minimum of the
\* chore are enough for any number of transactions, rows, repeated requests,
\* expired leases, aborts in the middle of a commitRequest, failures of the log
\* and of the table, and runs of the chore, but for the pairs of Unseen: the
\* entry was removed with the minimum of an empty region, or missed a
\* transaction whose lease had expired.
THEOREM PreparedSafe == Spec => []PreparedDisjoint
<1>1. IInv => PreparedDisjoint
  BY DEF IInv
<1>. QED
  BY <1>1, Invariance, PTL

\* A commit that fails for want of its object in commitPendingTransactions
\* has met another thread that is about to retire the object.
THEOREM CommitFailureSafe == Spec => []CommitFailureIsRace
<1>1. IInv => CommitFailureIsRace
  BY DEF IInv, ObjectInv, PreparedInv, GoneInv, CommitFailureIsRace, AboutToMark,
         Resolving
<1>. QED
  BY <1>1, Invariance, PTL
=============================================================================
