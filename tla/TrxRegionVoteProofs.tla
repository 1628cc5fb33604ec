------------------------ MODULE TrxRegionVoteProofs ------------------------
(***************************************************************************)
(* What a vote of the region is worth, for every set of transactions,      *)
(* objects and rows: theorems about VotePromise and ReadOnlyVote of module *)
(* TrxRegion.                                                              *)
(*                                                                         *)
(* Both are broken by leases that expire: leaseExpired decides on a status *)
(* it read before commitRequest changed it, and the next operation of a    *)
(* transaction whose lease ran out begins it again with an empty buffer.   *)
(* VotePromise is also broken by a commit whose put throws, which aborts   *)
(* what was voted for.  The theorems are about the states reached before   *)
(* such an event; the counters of faults tell which states these are.      *)
(*                                                                         *)
(* Neither property is inductive.  The votes are given by a commitRequest  *)
(* that may run while its TM has decided to abort, so the invariant says   *)
(* how the progress of the threads and the knowledge of the TM go together *)
(* (AskedInv, DecidedInv), that a transaction has one object in use        *)
(* (SoleInv, from WorkInv), that this object holds what was acknowledged   *)
(* (BufferInv), and that it stays until its writes are in the table        *)
(* (KeptInv).                                                              *)
(***************************************************************************)
EXTENDS TrxRegionProofs

\* No lease has expired, and no put or delete of a commit has thrown.
NoLapse == used["lapse"] = 0
NoPutFault == used["put"] = 0

\* A transaction has at most one object that is in use.
SoleInv ==
    \A g, h \in TS : g # h /\ TxId[g] = TxId[h] =>
        status[g] = "FREE" \/ status[h] = "FREE"

\* The object of a working transaction is registered or about to be.
WorkInv ==
    \A h \in TS : status[h] # "FREE" /\ phase[TxId[h]] = "work" =>
        beginning = h \/ transactionsById[TxId[h]] = h

\* An object in the hands of commitRequest, commit or abortTransaction is in
\* use, and the Leases thread has no object in its hands.
HeldInv ==
    \A h \in TS :
        /\ Requested(h) \/ committing[h] # "no" => status[h] # "FREE"
        /\ expired[h] = "no"

\* One commitRequest at a time is executed for an object.
OnceInv ==
    \A h \in TS :
        /\ ~(h \in requesting /\ h \in logging)
        /\ commitCheckLock = h => h \notin requesting \cup logging

\* A commitRequest whose TM still waits for the vote has its object
\* registered, and COMMIT_PENDING once it has passed the check.
AskedInv ==
    \A h \in TS : Requested(h) =>
        /\ phase[TxId[h]] \in {"prepare", "abort", "done"}
        /\ phase[TxId[h]] = "prepare" =>
              /\ transactionsById[TxId[h]] = h
              /\ h \notin requesting => status[h] = "COMMIT_PENDING"

\* Phase two is under way only for the decision of the TM.
DecidedInv ==
    \A h \in TS : /\ committing[h] # "no" => phase[TxId[h]] = "commit"
                  /\ aborting[h] # "no" => phase[TxId[h]] = "abort"

\* The registered object holds what was acknowledged to the client; as long
\* as the transaction works and has no registered object, that is nothing.
BufferInv ==
    \A h \in TS : transactionsById[TxId[h]] = h =>
        writeOrdering[h] = acked[TxId[h]]

EmptyInv ==
    \A t \in Tid : phase[t] = "work" /\ transactionsById[t] = NoTS =>
        acked[t] = {}

\* After the vote the object stays, prepared and with its writes, until they
\* are in the table.
KeptInv ==
    \A t \in Tid : phase[t] \in {"voted", "commit"} =>
        \/ t \in applied
        \/ \E h \in TS : /\ TxId[h] = t
                         /\ transactionsById[t] = h
                         /\ status[h] = "COMMIT_PENDING"
                         /\ writeOrdering[h] # {}

\* A commit that has gone past the table has moved the writes there.
MovedInv ==
    \A h \in TS : committing[h] \in {"applied", "marked"} => TxId[h] \in applied

QuietInv == SoleInv /\ WorkInv /\ HeldInv /\ OnceInv /\ AskedInv /\ DecidedInv
                /\ BufferInv /\ EmptyInv /\ ReadOnlyVote

VoteInv == NoLapse => QuietInv /\ (NoPutFault => KeptInv /\ MovedInv)

\* A step leaves the counters of faults alone or counts one of them up.
LEMMA UsedStep == TypeOK /\ [Next]_vars => UNCHANGED used \/ \E b \in Bounded : Use(b)
<1> SUFFICES ASSUME TypeOK, [Next]_vars
             PROVE  UNCHANGED used \/ \E b \in Bounded : Use(b)
  OBVIOUS
<1> USE DEF clientVars, Bounded
<1>1. ASSUME NEW h \in TS, Begin(h) \/ Work(h) \/ CommitRequestLookup(h)
      PROVE  UNCHANGED used
  BY <1>1 DEF Begin, BeginTransactionCreate, BeginTransactionRegister, Work,
     Put, Delete, GetScanner, Operation, CommitRequestLookup
<1>2. ASSUME NEW h \in TS, CommitRequest(h)
      PROVE  UNCHANGED used \/ \E b \in Bounded : Use(b)
  BY <1>2 DEF CommitRequest, CommitRequestConflict, CommitRequestReadOnly,
     CommitRequestPending, CommitRequestSequence, CommitRequestLog,
     CommitRequestLogEmpty, Reply
<1>3. ASSUME NEW h \in TS, PhaseTwo(h)
      PROVE  UNCHANGED used \/ \E b \in Bounded : Use(b)
  BY <1>3 DEF PhaseTwo, CommitLookup, CommitDuplicate, CommitApply, CommitFails,
     CommitStatePutFault, CommitStateWalFault, CommitMark, CommitRetire,
     AbortMark, AbortWalFault, AbortRemove, AbortRetire
<1>4. ASSUME NEW h \in TS, Lease(h)
      PROVE  UNCHANGED used \/ \E b \in Bounded : Use(b)
  BY <1>4 DEF Lease, LeaseExpired, LeaseSwitch, LeaseAbortMark,
     LeaseAbortRetire, LeaseRenew, LeaseResolve, LeaseResolveFails,
     CommitStatePutFault, CommitStateWalFault, LeaseResolveMark,
     LeaseResolveRetire
<1>5. ASSUME NEW t \in Tid, Client(t) PROVE UNCHANGED used
  BY <1>5 DEF Client, CommitRequestUnknown, DecideCommit, DecideAbort,
     CommitUnknown, AbortDuplicate
<1>6. CASE Chore
  BY <1>6 DEF Chore, ChoreMin, ChoreRemove, ChoreDetectStale
<1>7. ASSUME NEW tm \in Tm, RecoveryRequest(tm) PROVE UNCHANGED used
  BY <1>7 DEF RecoveryRequest
<1>8. CASE UNCHANGED vars
  BY <1>8 DEF vars
<1> HIDE DEF Bounded
<1>. QED
  BY <1>1, <1>2, <1>3, <1>4, <1>5, <1>6, <1>7, <1>8 DEF Next

\* A lapse or a fault is never undone.
LEMMA UsedStays ==
    ASSUME TypeOK, [Next]_vars
    PROVE  (NoLapse' => NoLapse) /\ (NoPutFault' => NoPutFault)
<1>1. CASE UNCHANGED used
  BY <1>1 DEF NoLapse, NoPutFault
<1>2. ASSUME NEW b \in Bounded, Use(b)
      PROVE  (NoLapse' => NoLapse) /\ (NoPutFault' => NoPutFault)
  BY <1>2 DEF TypeOK, Use, Bounded, NoLapse, NoPutFault
<1>. QED
  BY <1>1, <1>2, UsedStep

\* A step of behaviours without lapses preserves the control of the votes.
LEMMA QuietStep ==
    ASSUME IInv, IInv', QuietInv, NoLapse, NoLapse', Next PROVE QuietInv'
<1> USE TxIdAssumption, NoTSAssumption
<1>a. /\ TypeOK /\ TypeOK' /\ FreshInv /\ StoppedInv /\ EndingInv
      /\ SoleInv /\ WorkInv /\ HeldInv /\ OnceInv /\ AskedInv /\ DecidedInv
      /\ BufferInv /\ EmptyInv /\ ReadOnlyVote
  BY DEF IInv, ControlInv, QuietInv
<1> USE <1>a DEF TypeOK, regionVars, epochVars, bufferVars, numberVars, threadVars,
                 clientVars
<1>1. ASSUME NEW h \in TS, BeginTransactionCreate(h) PROVE QuietInv'
  <2>1. SoleInv'
    BY <1>1 DEF BeginTransactionCreate, SoleInv, WorkInv, HeldInv, FreshInv,
       Requested
  <2>2. WorkInv'
    BY <1>1 DEF BeginTransactionCreate, WorkInv, FreshInv, StoppedInv,
       HeldInv, Requested
  <2>3. HeldInv' /\ OnceInv'
    BY <1>1 DEF BeginTransactionCreate, HeldInv, OnceInv, FreshInv, Requested
  <2>4. AskedInv'
    BY <1>1 DEF BeginTransactionCreate, AskedInv, OnceInv, SoleInv, HeldInv,
       DecidedInv, Requested
  <2>5. DecidedInv'
    BY <1>1 DEF BeginTransactionCreate, DecidedInv, SoleInv, HeldInv,
       EndingInv, AskedInv, Requested
  <2>6. BufferInv'
    BY <1>1 DEF BeginTransactionCreate, BufferInv, FreshInv, EmptyInv
  <2>7. EmptyInv'
    BY <1>1 DEF BeginTransactionCreate, EmptyInv, StoppedInv, Requested
  <2>8. ReadOnlyVote'
    BY <1>1 DEF BeginTransactionCreate, ReadOnlyVote, BufferInv, AskedInv,
       Requested
  <2>. QED
    BY <2>1, <2>2, <2>3, <2>4, <2>5, <2>6, <2>7, <2>8 DEF QuietInv
<1>2. ASSUME NEW h \in TS, BeginTransactionRegister(h) PROVE QuietInv'
  <2>1. SoleInv' /\ WorkInv' /\ HeldInv' /\ OnceInv'
    BY <1>2 DEF BeginTransactionRegister, SoleInv, WorkInv, HeldInv, OnceInv,
       FreshInv, Requested
  <2>2. AskedInv' /\ DecidedInv'
    BY <1>2 DEF BeginTransactionRegister, AskedInv, DecidedInv, FreshInv,
       Requested
  <2>3. writeOrdering[h] = {} /\ acked[TxId[h]] = {}
    BY <1>2 DEF BeginTransactionRegister, EmptyInv, FreshInv
  <2>4. BufferInv'
    BY <1>2, <2>3 DEF BeginTransactionRegister, BufferInv
  <2>5. EmptyInv' /\ ReadOnlyVote'
    BY <1>2 DEF BeginTransactionRegister, EmptyInv, ReadOnlyVote
  <2>. QED
    BY <2>1, <2>2, <2>4, <2>5 DEF QuietInv
<1>3. ASSUME NEW h \in TS, NEW r \in Row, Put(h, r) PROVE QuietInv'
  <2>1. SoleInv' /\ WorkInv' /\ HeldInv' /\ OnceInv' /\ AskedInv' /\ DecidedInv'
    BY <1>3 DEF Put, Operation, SoleInv, WorkInv, HeldInv, OnceInv, AskedInv,
       DecidedInv, Requested
  <2>2. BufferInv'
    <3>1. /\ writeOrdering'[h] = writeOrdering[h] \cup {r}
          /\ acked'[TxId[h]] = acked[TxId[h]] \cup {r}
          /\ writeOrdering[h] = acked[TxId[h]]
      BY <1>3 DEF Put, Operation, BufferInv
    <3>2. ASSUME NEW g \in TS, g # h, transactionsById[TxId[g]] = g
          PROVE  writeOrdering'[g] = acked'[TxId[g]]
      <4>1. TxId[g] # TxId[h]
        BY <1>3, <3>2 DEF Put, Operation
      <4>. QED
        BY <1>3, <3>2, <4>1 DEF Put, Operation, BufferInv
    <3>. QED
      BY <1>3, <3>1, <3>2 DEF Put, Operation, BufferInv
  <2>3. EmptyInv' /\ ReadOnlyVote'
    BY <1>3 DEF Put, Operation, EmptyInv, ReadOnlyVote
  <2>. QED
    BY <2>1, <2>2, <2>3 DEF QuietInv
<1>4. ASSUME NEW h \in TS, NEW r \in Row, Delete(h, r) PROVE QuietInv'
  <2>1. SoleInv' /\ WorkInv' /\ HeldInv' /\ OnceInv' /\ AskedInv' /\ DecidedInv'
    BY <1>4 DEF Delete, Operation, SoleInv, WorkInv, HeldInv, OnceInv, AskedInv,
       DecidedInv, Requested
  <2>2. BufferInv'
    <3>1. /\ writeOrdering'[h] = writeOrdering[h] \cup {r}
          /\ acked'[TxId[h]] = acked[TxId[h]] \cup {r}
          /\ writeOrdering[h] = acked[TxId[h]]
      BY <1>4 DEF Delete, Operation, BufferInv
    <3>2. ASSUME NEW g \in TS, g # h, transactionsById[TxId[g]] = g
          PROVE  writeOrdering'[g] = acked'[TxId[g]]
      <4>1. TxId[g] # TxId[h]
        BY <1>4, <3>2 DEF Delete, Operation
      <4>. QED
        BY <1>4, <3>2, <4>1 DEF Delete, Operation, BufferInv
    <3>. QED
      BY <1>4, <3>1, <3>2 DEF Delete, Operation, BufferInv
  <2>3. EmptyInv' /\ ReadOnlyVote'
    BY <1>4 DEF Delete, Operation, EmptyInv, ReadOnlyVote
  <2>. QED
    BY <2>1, <2>2, <2>3 DEF QuietInv
<1>5. ASSUME NEW h \in TS, NEW r \in Row, NEW s \in Row, GetScanner(h, r, s)
      PROVE QuietInv'
  BY <1>5 DEF GetScanner, Operation, QuietInv, SoleInv, WorkInv, HeldInv,
     OnceInv, FreshInv, StoppedInv, Requested, AskedInv, DecidedInv,
     EndingInv, BufferInv, EmptyInv, ReadOnlyVote
<1>6. ASSUME NEW h \in TS, CommitRequestLookup(h) PROVE QuietInv'
  <2>1. SoleInv' /\ WorkInv' /\ HeldInv' /\ OnceInv'
    BY <1>6 DEF CommitRequestLookup, NoRequest, SoleInv, WorkInv, HeldInv,
       OnceInv, FreshInv, StoppedInv, Requested
  <2>2. AskedInv' /\ DecidedInv'
    BY <1>6 DEF CommitRequestLookup, NoRequest, AskedInv, OnceInv, SoleInv,
       HeldInv, DecidedInv, EndingInv, FreshInv, Requested
  <2>3. BufferInv'
    BY <1>6 DEF CommitRequestLookup, NoRequest, BufferInv, FreshInv, EmptyInv
  <2>4. EmptyInv' /\ ReadOnlyVote'
    BY <1>6 DEF CommitRequestLookup, NoRequest, EmptyInv, ReadOnlyVote,
       BufferInv, StoppedInv, AskedInv, Requested
  <2>. QED
    BY <2>1, <2>2, <2>3, <2>4 DEF QuietInv
<1>7. ASSUME NEW h \in TS, CommitRequestConflict(h) PROVE QuietInv'
  <2>1. SoleInv' /\ WorkInv' /\ HeldInv' /\ OnceInv'
    BY <1>7 DEF CommitRequestConflict, RetireTransaction, Reply, SoleInv,
       WorkInv, HeldInv, OnceInv, FreshInv, StoppedInv, Requested
  <2>2. AskedInv' /\ DecidedInv'
    BY <1>7 DEF CommitRequestConflict, RetireTransaction, Reply, AskedInv,
       OnceInv, SoleInv, HeldInv, DecidedInv, EndingInv, FreshInv, Requested
  <2>3. BufferInv'
    BY <1>7 DEF CommitRequestConflict, RetireTransaction, Reply, BufferInv,
       FreshInv, EmptyInv
  <2>4. EmptyInv' /\ ReadOnlyVote'
    BY <1>7 DEF CommitRequestConflict, RetireTransaction, Reply, EmptyInv,
       ReadOnlyVote, BufferInv, StoppedInv, AskedInv, Requested
  <2>. QED
    BY <2>1, <2>2, <2>3, <2>4 DEF QuietInv
<1>8. ASSUME NEW h \in TS, CommitRequestReadOnly(h) PROVE QuietInv'
  <2>1. SoleInv' /\ WorkInv' /\ HeldInv' /\ OnceInv'
    BY <1>8 DEF CommitRequestReadOnly, RetireTransaction, Reply, SoleInv,
       WorkInv, HeldInv, OnceInv, FreshInv, StoppedInv, Requested
  <2>2. AskedInv' /\ DecidedInv'
    BY <1>8 DEF CommitRequestReadOnly, RetireTransaction, Reply, AskedInv,
       OnceInv, SoleInv, HeldInv, DecidedInv, EndingInv, FreshInv, Requested
  <2>3. BufferInv'
    BY <1>8 DEF CommitRequestReadOnly, RetireTransaction, Reply, BufferInv,
       FreshInv, EmptyInv
  <2>4. EmptyInv' /\ ReadOnlyVote'
    BY <1>8 DEF CommitRequestReadOnly, RetireTransaction, Reply, EmptyInv,
       ReadOnlyVote, BufferInv, StoppedInv, AskedInv, Requested
  <2>. QED
    BY <2>1, <2>2, <2>3, <2>4 DEF QuietInv
<1>9. ASSUME NEW h \in TS, CommitRequestPending(h) PROVE QuietInv'
  <2>1. SoleInv' /\ WorkInv' /\ HeldInv' /\ OnceInv'
    BY <1>9 DEF CommitRequestPending, SoleInv, WorkInv, HeldInv, OnceInv,
       FreshInv, StoppedInv, Requested
  <2>2. AskedInv' /\ DecidedInv'
    BY <1>9 DEF CommitRequestPending, AskedInv, OnceInv, SoleInv, HeldInv,
       DecidedInv, EndingInv, FreshInv, Requested
  <2>3. BufferInv'
    BY <1>9 DEF CommitRequestPending, BufferInv, FreshInv, EmptyInv
  <2>4. EmptyInv' /\ ReadOnlyVote'
    BY <1>9 DEF CommitRequestPending, EmptyInv, ReadOnlyVote, BufferInv,
       StoppedInv, AskedInv, Requested
  <2>. QED
    BY <2>1, <2>2, <2>3, <2>4 DEF QuietInv
<1>10. ASSUME NEW h \in TS, CommitRequestSequence(h) PROVE QuietInv'
  <2>1. SoleInv' /\ WorkInv' /\ HeldInv' /\ OnceInv'
    BY <1>10 DEF CommitRequestSequence, SoleInv, WorkInv, HeldInv, OnceInv,
       FreshInv, StoppedInv, Requested
  <2>2. AskedInv' /\ DecidedInv'
    BY <1>10 DEF CommitRequestSequence, AskedInv, OnceInv, SoleInv, HeldInv,
       DecidedInv, EndingInv, FreshInv, Requested
  <2>3. BufferInv'
    BY <1>10 DEF CommitRequestSequence, BufferInv, FreshInv, EmptyInv
  <2>4. EmptyInv' /\ ReadOnlyVote'
    BY <1>10 DEF CommitRequestSequence, EmptyInv, ReadOnlyVote, BufferInv,
       StoppedInv, AskedInv, Requested
  <2>. QED
    BY <2>1, <2>2, <2>3, <2>4 DEF QuietInv
<1>11. ASSUME NEW h \in TS, CommitRequestLog(h) PROVE QuietInv'
  <2>1. SoleInv' /\ WorkInv' /\ HeldInv' /\ OnceInv'
    BY <1>11 DEF CommitRequestLog, Reply, SoleInv, WorkInv, HeldInv, OnceInv,
       FreshInv, StoppedInv, Requested
  <2>2. AskedInv' /\ DecidedInv'
    BY <1>11 DEF CommitRequestLog, Reply, AskedInv, OnceInv, SoleInv, HeldInv,
       DecidedInv, EndingInv, FreshInv, Requested
  <2>3. BufferInv'
    BY <1>11 DEF CommitRequestLog, Reply, BufferInv, FreshInv, EmptyInv
  <2>4. EmptyInv' /\ ReadOnlyVote'
    BY <1>11 DEF CommitRequestLog, Reply, EmptyInv, ReadOnlyVote, BufferInv,
       StoppedInv, AskedInv, Requested
  <2>. QED
    BY <2>1, <2>2, <2>3, <2>4 DEF QuietInv
<1>12. ASSUME NEW h \in TS, CommitRequestLogEmpty(h) PROVE QuietInv'
  <2>1. SoleInv' /\ WorkInv' /\ HeldInv' /\ OnceInv'
    BY <1>12 DEF CommitRequestLogEmpty, RetireTransaction, Reply, SoleInv,
       WorkInv, HeldInv, OnceInv, FreshInv, StoppedInv, Requested
  <2>2. AskedInv' /\ DecidedInv'
    BY <1>12 DEF CommitRequestLogEmpty, RetireTransaction, Reply, AskedInv,
       OnceInv, SoleInv, HeldInv, DecidedInv, EndingInv, FreshInv, Requested
  <2>3. BufferInv'
    BY <1>12 DEF CommitRequestLogEmpty, RetireTransaction, Reply, BufferInv,
       FreshInv, EmptyInv
  <2>4. EmptyInv' /\ ReadOnlyVote'
    BY <1>12 DEF CommitRequestLogEmpty, RetireTransaction, Reply, EmptyInv,
       ReadOnlyVote, BufferInv, StoppedInv, AskedInv, Requested
  <2>. QED
    BY <2>1, <2>2, <2>3, <2>4 DEF QuietInv
<1>13. ASSUME NEW h \in TS, CommitLookup(h) PROVE QuietInv'
  <2>1. SoleInv' /\ WorkInv' /\ HeldInv' /\ OnceInv'
    BY <1>13 DEF CommitLookup, SoleInv, WorkInv, HeldInv, OnceInv, FreshInv,
       StoppedInv, Requested
  <2>2. AskedInv' /\ DecidedInv'
    BY <1>13 DEF CommitLookup, AskedInv, OnceInv, SoleInv, HeldInv,
       DecidedInv, EndingInv, FreshInv, Requested
  <2>3. BufferInv'
    BY <1>13 DEF CommitLookup, BufferInv, FreshInv, EmptyInv
  <2>4. EmptyInv' /\ ReadOnlyVote'
    BY <1>13 DEF CommitLookup, EmptyInv, ReadOnlyVote, BufferInv, StoppedInv,
       AskedInv, Requested
  <2>. QED
    BY <2>1, <2>2, <2>3, <2>4 DEF QuietInv
<1>14. ASSUME NEW h \in TS, CommitDuplicate(h) PROVE QuietInv'
  <2>1. SoleInv' /\ WorkInv' /\ HeldInv' /\ OnceInv'
    BY <1>14 DEF CommitDuplicate, SoleInv, WorkInv, HeldInv, OnceInv,
       FreshInv, StoppedInv, Requested
  <2>2. AskedInv' /\ DecidedInv'
    BY <1>14 DEF CommitDuplicate, AskedInv, OnceInv, SoleInv, HeldInv,
       DecidedInv, EndingInv, FreshInv, Requested
  <2>3. BufferInv'
    BY <1>14 DEF CommitDuplicate, BufferInv, FreshInv, EmptyInv
  <2>4. EmptyInv' /\ ReadOnlyVote'
    BY <1>14 DEF CommitDuplicate, EmptyInv, ReadOnlyVote, BufferInv,
       StoppedInv, AskedInv, Requested
  <2>. QED
    BY <2>1, <2>2, <2>3, <2>4 DEF QuietInv
<1>15. ASSUME NEW h \in TS, CommitApply(h) PROVE QuietInv'
  <2>1. SoleInv' /\ WorkInv' /\ HeldInv' /\ OnceInv'
    BY <1>15 DEF CommitApply, CommitStateApply, SoleInv, WorkInv, HeldInv,
       OnceInv, FreshInv, StoppedInv, Requested
  <2>2. AskedInv' /\ DecidedInv'
    BY <1>15 DEF CommitApply, CommitStateApply, AskedInv, OnceInv, SoleInv,
       HeldInv, DecidedInv, EndingInv, FreshInv, Requested
  <2>3. BufferInv'
    BY <1>15 DEF CommitApply, CommitStateApply, BufferInv, FreshInv, EmptyInv
  <2>4. EmptyInv' /\ ReadOnlyVote'
    BY <1>15 DEF CommitApply, CommitStateApply, EmptyInv, ReadOnlyVote,
       BufferInv, StoppedInv, AskedInv, Requested
  <2>. QED
    BY <2>1, <2>2, <2>3, <2>4 DEF QuietInv
<1>16. ASSUME NEW h \in TS, CommitFails(h) PROVE QuietInv'
  <2>1. CASE CommitStatePutFault(h)
    <3>1. SoleInv' /\ WorkInv' /\ HeldInv' /\ OnceInv'
      BY <1>16, <2>1 DEF CommitFails, CommitStatePutFault, RetireTransaction,
         SoleInv, WorkInv, HeldInv, OnceInv, DecidedInv, Requested
    <3>2. AskedInv' /\ DecidedInv'
      BY <1>16, <2>1 DEF CommitFails, CommitStatePutFault, RetireTransaction,
         AskedInv, DecidedInv, Requested
    <3>3. BufferInv'
      BY <1>16, <2>1 DEF CommitFails, CommitStatePutFault, RetireTransaction,
         BufferInv
    <3>4. EmptyInv' /\ ReadOnlyVote'
      <4>1. phase[TxId[h]] = "commit"
        BY <1>16 DEF CommitFails, DecidedInv
      <4>2. UNCHANGED <<phase, acked>>
        BY <1>16 DEF CommitFails
      <4>3. \A u \in Tid : u # TxId[h] => transactionsById'[u] = transactionsById[u]
        BY <2>1 DEF CommitStatePutFault, RetireTransaction
      <4>. QED
        BY <4>1, <4>2, <4>3 DEF EmptyInv, ReadOnlyVote
    <3>. QED
      BY <3>1, <3>2, <3>3, <3>4 DEF QuietInv
  <2>2. CASE CommitStateWalFault(h)
    <3>1. SoleInv' /\ WorkInv' /\ HeldInv' /\ OnceInv' /\ AskedInv' /\ DecidedInv'
      BY <1>16, <2>2 DEF CommitFails, CommitStateWalFault, CommitStateApply,
         SoleInv, WorkInv, HeldInv, OnceInv, AskedInv, DecidedInv, Requested
    <3>2. BufferInv' /\ EmptyInv' /\ ReadOnlyVote'
      BY <1>16, <2>2 DEF CommitFails, CommitStateWalFault, CommitStateApply,
         BufferInv, EmptyInv, ReadOnlyVote
    <3>. QED
      BY <3>1, <3>2 DEF QuietInv
  <2>. QED
    BY <1>16, <2>1, <2>2 DEF CommitFails
<1>17. ASSUME NEW h \in TS, CommitMark(h) PROVE QuietInv'
  <2>1. SoleInv'
    BY <1>17 DEF CommitMark, CommitStateMark, CommitStateFailure, SoleInv,
       WorkInv, HeldInv, FreshInv, Requested
  <2>2. WorkInv'
    BY <1>17 DEF CommitMark, CommitStateMark, CommitStateFailure, WorkInv,
       FreshInv, StoppedInv, HeldInv, Requested
  <2>3. HeldInv' /\ OnceInv'
    BY <1>17 DEF CommitMark, CommitStateMark, CommitStateFailure, HeldInv,
       OnceInv, FreshInv, Requested
  <2>4. AskedInv'
    BY <1>17 DEF CommitMark, CommitStateMark, CommitStateFailure, AskedInv,
       OnceInv, SoleInv, HeldInv, DecidedInv, Requested
  <2>5. DecidedInv'
    BY <1>17 DEF CommitMark, CommitStateMark, CommitStateFailure, DecidedInv,
       SoleInv, HeldInv, EndingInv, AskedInv, Requested
  <2>6. BufferInv'
    BY <1>17 DEF CommitMark, CommitStateMark, CommitStateFailure, BufferInv,
       FreshInv, EmptyInv
  <2>7. EmptyInv'
    BY <1>17 DEF CommitMark, CommitStateMark, CommitStateFailure, EmptyInv,
       StoppedInv, Requested
  <2>8. ReadOnlyVote'
    BY <1>17 DEF CommitMark, CommitStateMark, CommitStateFailure,
       ReadOnlyVote, BufferInv, AskedInv, Requested
  <2>. QED
    BY <2>1, <2>2, <2>3, <2>4, <2>5, <2>6, <2>7, <2>8 DEF QuietInv
<1>18. ASSUME NEW h \in TS, CommitRetire(h) PROVE QuietInv'
  <2>1. SoleInv' /\ WorkInv' /\ HeldInv' /\ OnceInv'
    BY <1>18 DEF CommitRetire, CommitStateRetire, RetireTransaction, SoleInv,
       WorkInv, HeldInv, OnceInv, FreshInv, StoppedInv, Requested
  <2>2. AskedInv' /\ DecidedInv'
    BY <1>18 DEF CommitRetire, CommitStateRetire, RetireTransaction, AskedInv,
       OnceInv, SoleInv, HeldInv, DecidedInv, EndingInv, FreshInv, Requested
  <2>3. BufferInv'
    BY <1>18 DEF CommitRetire, CommitStateRetire, RetireTransaction,
       BufferInv, FreshInv, EmptyInv
  <2>4. EmptyInv' /\ ReadOnlyVote'
    BY <1>18 DEF CommitRetire, CommitStateRetire, RetireTransaction, EmptyInv,
       ReadOnlyVote, BufferInv, StoppedInv, AskedInv, Requested
  <2>. QED
    BY <2>1, <2>2, <2>3, <2>4 DEF QuietInv
<1>19. ASSUME NEW h \in TS, AbortMark(h) PROVE QuietInv'
  <2>1. SoleInv' /\ WorkInv' /\ HeldInv' /\ OnceInv'
    BY <1>19 DEF AbortMark, SoleInv, WorkInv, HeldInv, OnceInv, FreshInv,
       StoppedInv, Requested
  <2>2. AskedInv' /\ DecidedInv'
    BY <1>19 DEF AbortMark, AskedInv, OnceInv, SoleInv, HeldInv, DecidedInv,
       EndingInv, FreshInv, Requested
  <2>3. BufferInv'
    BY <1>19 DEF AbortMark, BufferInv, FreshInv, EmptyInv
  <2>4. EmptyInv' /\ ReadOnlyVote'
    BY <1>19 DEF AbortMark, EmptyInv, ReadOnlyVote, BufferInv, StoppedInv,
       AskedInv, Requested
  <2>. QED
    BY <2>1, <2>2, <2>3, <2>4 DEF QuietInv
<1>20. ASSUME NEW h \in TS, AbortWalFault(h) PROVE QuietInv'
  <2>1. SoleInv' /\ WorkInv' /\ HeldInv' /\ OnceInv'
    BY <1>20 DEF AbortWalFault, SoleInv, WorkInv, HeldInv, OnceInv, FreshInv,
       StoppedInv, Requested
  <2>2. AskedInv' /\ DecidedInv'
    BY <1>20 DEF AbortWalFault, AskedInv, OnceInv, SoleInv, HeldInv,
       DecidedInv, EndingInv, FreshInv, Requested
  <2>3. BufferInv'
    BY <1>20 DEF AbortWalFault, BufferInv, FreshInv, EmptyInv
  <2>4. EmptyInv' /\ ReadOnlyVote'
    BY <1>20 DEF AbortWalFault, EmptyInv, ReadOnlyVote, BufferInv, StoppedInv,
       AskedInv, Requested
  <2>. QED
    BY <2>1, <2>2, <2>3, <2>4 DEF QuietInv
<1>21. ASSUME NEW h \in TS, AbortRemove(h) PROVE QuietInv'
  <2>1. SoleInv' /\ WorkInv' /\ HeldInv' /\ OnceInv'
    BY <1>21 DEF AbortRemove, SoleInv, WorkInv, HeldInv, OnceInv, FreshInv,
       StoppedInv, Requested
  <2>2. AskedInv' /\ DecidedInv'
    BY <1>21 DEF AbortRemove, AskedInv, OnceInv, SoleInv, HeldInv, DecidedInv,
       EndingInv, FreshInv, Requested
  <2>3. BufferInv'
    BY <1>21 DEF AbortRemove, BufferInv, FreshInv, EmptyInv
  <2>4. EmptyInv' /\ ReadOnlyVote'
    BY <1>21 DEF AbortRemove, EmptyInv, ReadOnlyVote, BufferInv, StoppedInv,
       AskedInv, Requested
  <2>. QED
    BY <2>1, <2>2, <2>3, <2>4 DEF QuietInv
<1>22. ASSUME NEW h \in TS, AbortRetire(h) PROVE QuietInv'
  <2>1. SoleInv' /\ WorkInv' /\ HeldInv' /\ OnceInv'
    BY <1>22 DEF AbortRetire, RetireTransaction, SoleInv, WorkInv, HeldInv,
       OnceInv, FreshInv, StoppedInv, Requested
  <2>2. AskedInv' /\ DecidedInv'
    BY <1>22 DEF AbortRetire, RetireTransaction, AskedInv, OnceInv, SoleInv,
       HeldInv, DecidedInv, EndingInv, FreshInv, Requested
  <2>3. BufferInv'
    BY <1>22 DEF AbortRetire, RetireTransaction, BufferInv, FreshInv, EmptyInv
  <2>4. EmptyInv' /\ ReadOnlyVote'
    BY <1>22 DEF AbortRetire, RetireTransaction, EmptyInv, ReadOnlyVote,
       BufferInv, StoppedInv, AskedInv, Requested
  <2>. QED
    BY <2>1, <2>2, <2>3, <2>4 DEF QuietInv
<1>23. ASSUME NEW t \in Tid, CommitRequestUnknown(t) PROVE QuietInv'
  <2>1. SoleInv' /\ WorkInv' /\ HeldInv' /\ OnceInv'
    BY <1>23 DEF CommitRequestUnknown, NoRequest, Beginning, SoleInv, WorkInv,
       HeldInv, OnceInv, FreshInv, StoppedInv, Requested
  <2>2. AskedInv' /\ DecidedInv'
    BY <1>23 DEF CommitRequestUnknown, NoRequest, Beginning, AskedInv,
       OnceInv, SoleInv, HeldInv, DecidedInv, EndingInv, FreshInv, Requested
  <2>3. BufferInv'
    BY <1>23 DEF CommitRequestUnknown, NoRequest, Beginning, BufferInv,
       FreshInv, EmptyInv
  <2>4. EmptyInv' /\ ReadOnlyVote'
    BY <1>23 DEF CommitRequestUnknown, NoRequest, Beginning, EmptyInv,
       ReadOnlyVote, BufferInv, StoppedInv, AskedInv, Requested
  <2>. QED
    BY <2>1, <2>2, <2>3, <2>4 DEF QuietInv
<1>24. ASSUME NEW t \in Tid, DecideCommit(t) PROVE QuietInv'
  <2>1. SoleInv' /\ WorkInv' /\ HeldInv' /\ OnceInv'
    BY <1>24 DEF DecideCommit, SoleInv, WorkInv, HeldInv, OnceInv, FreshInv,
       StoppedInv, Requested
  <2>2. AskedInv' /\ DecidedInv'
    BY <1>24 DEF DecideCommit, AskedInv, OnceInv, SoleInv, HeldInv,
       DecidedInv, EndingInv, FreshInv, Requested
  <2>3. BufferInv'
    BY <1>24 DEF DecideCommit, BufferInv, FreshInv, EmptyInv
  <2>4. EmptyInv' /\ ReadOnlyVote'
    BY <1>24 DEF DecideCommit, EmptyInv, ReadOnlyVote, BufferInv, StoppedInv,
       AskedInv, Requested
  <2>. QED
    BY <2>1, <2>2, <2>3, <2>4 DEF QuietInv
<1>25. ASSUME NEW t \in Tid, DecideAbort(t) PROVE QuietInv'
  <2>1. SoleInv' /\ WorkInv' /\ HeldInv' /\ OnceInv'
    BY <1>25 DEF DecideAbort, Beginning, SoleInv, WorkInv, HeldInv, OnceInv,
       FreshInv, StoppedInv, Requested
  <2>2. AskedInv' /\ DecidedInv'
    BY <1>25 DEF DecideAbort, Beginning, AskedInv, OnceInv, SoleInv, HeldInv,
       DecidedInv, EndingInv, FreshInv, Requested
  <2>3. BufferInv'
    BY <1>25 DEF DecideAbort, Beginning, BufferInv, FreshInv, EmptyInv
  <2>4. EmptyInv' /\ ReadOnlyVote'
    BY <1>25 DEF DecideAbort, Beginning, EmptyInv, ReadOnlyVote, BufferInv,
       StoppedInv, AskedInv, Requested
  <2>. QED
    BY <2>1, <2>2, <2>3, <2>4 DEF QuietInv
<1>26. ASSUME NEW t \in Tid, CommitUnknown(t) PROVE QuietInv'
  <2>1. SoleInv' /\ WorkInv' /\ HeldInv' /\ OnceInv'
    BY <1>26 DEF CommitUnknown, SoleInv, WorkInv, HeldInv, OnceInv, FreshInv,
       StoppedInv, Requested
  <2>2. AskedInv' /\ DecidedInv'
    BY <1>26 DEF CommitUnknown, AskedInv, OnceInv, SoleInv, HeldInv,
       DecidedInv, EndingInv, FreshInv, Requested
  <2>3. BufferInv'
    BY <1>26 DEF CommitUnknown, BufferInv, FreshInv, EmptyInv
  <2>4. EmptyInv' /\ ReadOnlyVote'
    BY <1>26 DEF CommitUnknown, EmptyInv, ReadOnlyVote, BufferInv, StoppedInv,
       AskedInv, Requested
  <2>. QED
    BY <2>1, <2>2, <2>3, <2>4 DEF QuietInv
<1>27. ASSUME NEW t \in Tid, AbortDuplicate(t) PROVE QuietInv'
  <2>1. SoleInv' /\ WorkInv' /\ HeldInv' /\ OnceInv'
    BY <1>27 DEF AbortDuplicate, SoleInv, WorkInv, HeldInv, OnceInv, FreshInv,
       StoppedInv, Requested
  <2>2. AskedInv' /\ DecidedInv'
    BY <1>27 DEF AbortDuplicate, AskedInv, OnceInv, SoleInv, HeldInv,
       DecidedInv, EndingInv, FreshInv, Requested
  <2>3. BufferInv'
    BY <1>27 DEF AbortDuplicate, BufferInv, FreshInv, EmptyInv
  <2>4. EmptyInv' /\ ReadOnlyVote'
    BY <1>27 DEF AbortDuplicate, EmptyInv, ReadOnlyVote, BufferInv,
       StoppedInv, AskedInv, Requested
  <2>. QED
    BY <2>1, <2>2, <2>3, <2>4 DEF QuietInv
<1>28. ASSUME ChoreMin PROVE QuietInv'
  BY <1>28 DEF ChoreMin, QuietInv, SoleInv, WorkInv, HeldInv, OnceInv,
     FreshInv, StoppedInv, Requested, AskedInv, DecidedInv, EndingInv,
     BufferInv, EmptyInv, ReadOnlyVote
<1>29. ASSUME ChoreRemove PROVE QuietInv'
  BY <1>29 DEF ChoreRemove, QuietInv, SoleInv, WorkInv, HeldInv, OnceInv,
     FreshInv, StoppedInv, Requested, AskedInv, DecidedInv, EndingInv,
     BufferInv, EmptyInv, ReadOnlyVote
<1>30. ASSUME ChoreDetectStale PROVE QuietInv'
  BY <1>30 DEF ChoreDetectStale, QuietInv, SoleInv, WorkInv, HeldInv, OnceInv,
     FreshInv, StoppedInv, Requested, AskedInv, DecidedInv, EndingInv,
     BufferInv, EmptyInv, ReadOnlyVote
<1>31. ASSUME NEW tm \in Tm, RecoveryRequest(tm) PROVE QuietInv'
  BY <1>31 DEF RecoveryRequest, QuietInv, SoleInv, WorkInv, HeldInv, OnceInv,
     FreshInv, StoppedInv, Requested, AskedInv, DecidedInv, EndingInv,
     BufferInv, EmptyInv, ReadOnlyVote
<1>32. ASSUME NEW h \in TS, Lease(h) PROVE QuietInv'
  BY <1>32 DEF Lease, NoLapse, Use, Bounded, HeldInv, LeaseExpired,
     LeaseSwitch, LeaseAbortMark, LeaseAbortRetire, LeaseRenew, LeaseResolve,
     LeaseResolveFails, LeaseResolveMark, LeaseResolveRetire
<1>. QED
  BY <1>1, <1>2, <1>3, <1>4, <1>5, <1>6, <1>7, <1>8, <1>9, <1>10, <1>11,
     <1>12, <1>13, <1>14, <1>15, <1>16, <1>17, <1>18, <1>19, <1>20, <1>21,
     <1>22, <1>23, <1>24, <1>25, <1>26, <1>27, <1>28, <1>29, <1>30, <1>31,
     <1>32 DEF Next, Begin, Work, CommitRequest, PhaseTwo, Chore, Client

\* Without faults of the table, what was voted for is kept.
LEMMA KeptStep ==
    ASSUME IInv, IInv', QuietInv, KeptInv, MovedInv, NoLapse, NoLapse',
           NoPutFault, NoPutFault', Next
    PROVE  KeptInv' /\ MovedInv'
<1> USE TxIdAssumption, NoTSAssumption
<1>a. /\ TypeOK /\ TypeOK' /\ FreshInv /\ SoleInv /\ HeldInv /\ OnceInv
      /\ AskedInv /\ DecidedInv
  BY DEF IInv, ControlInv, QuietInv
<1> USE <1>a DEF TypeOK, regionVars, epochVars, bufferVars, numberVars, threadVars,
                 clientVars
<1>1. ASSUME NEW h \in TS, BeginTransactionCreate(h)
      PROVE KeptInv' /\ MovedInv'
  BY <1>1 DEF BeginTransactionCreate, KeptInv, MovedInv, SoleInv, HeldInv,
     AskedInv, DecidedInv, Requested
<1>2. ASSUME NEW h \in TS, BeginTransactionRegister(h)
      PROVE KeptInv' /\ MovedInv'
  <2>1. phase[TxId[h]] = "work"
    BY <1>2 DEF BeginTransactionRegister, FreshInv
  <2>. QED
    BY <1>2, <2>1 DEF BeginTransactionRegister, KeptInv, MovedInv
<1>3. ASSUME NEW h \in TS, NEW r \in Row, Put(h, r)
      PROVE KeptInv' /\ MovedInv'
  BY <1>3 DEF Put, Operation, KeptInv, MovedInv, SoleInv, HeldInv, AskedInv,
     DecidedInv, Requested
<1>4. ASSUME NEW h \in TS, NEW r \in Row, Delete(h, r)
      PROVE KeptInv' /\ MovedInv'
  BY <1>4 DEF Delete, Operation, KeptInv, MovedInv, SoleInv, HeldInv,
     AskedInv, DecidedInv, Requested
<1>5. ASSUME NEW h \in TS, NEW r \in Row, NEW s \in Row, GetScanner(h, r, s)
      PROVE KeptInv' /\ MovedInv'
  BY <1>5 DEF GetScanner, Operation, KeptInv, MovedInv, SoleInv, HeldInv,
     AskedInv, DecidedInv, Requested
<1>6. ASSUME NEW h \in TS, CommitRequestLookup(h) PROVE KeptInv' /\ MovedInv'
  BY <1>6 DEF CommitRequestLookup, NoRequest, KeptInv, MovedInv, SoleInv,
     HeldInv, AskedInv, DecidedInv, Requested
<1>7. ASSUME NEW h \in TS, CommitRequestConflict(h)
      PROVE KeptInv' /\ MovedInv'
  <2>1. phase[TxId[h]] \in {"prepare", "abort", "done"}
    BY <1>7 DEF CommitRequestConflict, AskedInv, Requested
  <2>2. phase'[TxId[h]] \notin {"voted", "commit"}
    BY <1>7, <2>1 DEF CommitRequestConflict, Reply
  <2>3. \A u \in Tid : u # TxId[h] => phase'[u] = phase[u]
    BY <1>7 DEF CommitRequestConflict, Reply
  <2>4. KeptInv'
    BY <1>7, <2>2, <2>3 DEF CommitRequestConflict, RetireTransaction, KeptInv
  <2>5. MovedInv'
    BY <1>7 DEF CommitRequestConflict, MovedInv
  <2>. QED
    BY <2>4, <2>5
<1>8. ASSUME NEW h \in TS, CommitRequestReadOnly(h)
      PROVE KeptInv' /\ MovedInv'
  <2>1. phase[TxId[h]] \in {"prepare", "abort", "done"}
    BY <1>8 DEF CommitRequestReadOnly, AskedInv, Requested
  <2>2. phase'[TxId[h]] \notin {"voted", "commit"}
    BY <1>8, <2>1 DEF CommitRequestReadOnly, Reply
  <2>3. \A u \in Tid : u # TxId[h] => phase'[u] = phase[u]
    BY <1>8 DEF CommitRequestReadOnly, Reply
  <2>4. KeptInv'
    BY <1>8, <2>2, <2>3 DEF CommitRequestReadOnly, RetireTransaction, KeptInv
  <2>5. MovedInv'
    BY <1>8 DEF CommitRequestReadOnly, MovedInv
  <2>. QED
    BY <2>4, <2>5
<1>9. ASSUME NEW h \in TS, CommitRequestPending(h) PROVE KeptInv' /\ MovedInv'
  BY <1>9 DEF CommitRequestPending, KeptInv, MovedInv, SoleInv, HeldInv,
     AskedInv, DecidedInv, Requested
<1>10. ASSUME NEW h \in TS, CommitRequestSequence(h)
      PROVE KeptInv' /\ MovedInv'
  BY <1>10 DEF CommitRequestSequence, KeptInv, MovedInv, SoleInv, HeldInv,
     AskedInv, DecidedInv, Requested
<1>11. ASSUME NEW h \in TS, CommitRequestLog(h) PROVE KeptInv' /\ MovedInv'
  <2>1. \A u \in Tid : u # TxId[h] => phase'[u] = phase[u]
    BY <1>11 DEF CommitRequestLog, Reply
  <2>2. phase'[TxId[h]] \in {"voted", "commit"} =>
            transactionsById[TxId[h]] = h /\ status[h] = "COMMIT_PENDING"
    <3>1. phase'[TxId[h]] \in {"voted", "commit"} => phase[TxId[h]] = "prepare"
      BY <1>11 DEF CommitRequestLog, Reply, AskedInv, Requested
    <3>. QED
      BY <1>11, <3>1 DEF CommitRequestLog, AskedInv, OnceInv, Requested
  <2>3. KeptInv'
    BY <1>11, <2>1, <2>2 DEF CommitRequestLog, KeptInv
  <2>4. MovedInv'
    BY <1>11 DEF CommitRequestLog, MovedInv
  <2>. QED
    BY <2>3, <2>4
<1>12. ASSUME NEW h \in TS, CommitRequestLogEmpty(h)
      PROVE KeptInv' /\ MovedInv'
  <2>1. phase[TxId[h]] \in {"prepare", "abort", "done"}
    BY <1>12 DEF CommitRequestLogEmpty, AskedInv, Requested
  <2>2. phase'[TxId[h]] \notin {"voted", "commit"}
    BY <1>12, <2>1 DEF CommitRequestLogEmpty, Reply
  <2>3. \A u \in Tid : u # TxId[h] => phase'[u] = phase[u]
    BY <1>12 DEF CommitRequestLogEmpty, Reply
  <2>4. KeptInv'
    BY <1>12, <2>2, <2>3 DEF CommitRequestLogEmpty, RetireTransaction, KeptInv
  <2>5. MovedInv'
    BY <1>12 DEF CommitRequestLogEmpty, MovedInv
  <2>. QED
    BY <2>4, <2>5
<1>13. ASSUME NEW h \in TS, CommitLookup(h) PROVE KeptInv' /\ MovedInv'
  BY <1>13 DEF CommitLookup, KeptInv, MovedInv, SoleInv, HeldInv, AskedInv,
     DecidedInv, Requested
<1>14. ASSUME NEW h \in TS, CommitDuplicate(h) PROVE KeptInv' /\ MovedInv'
  BY <1>14 DEF CommitDuplicate, KeptInv, MovedInv, SoleInv, HeldInv, AskedInv,
     DecidedInv, Requested
<1>15. ASSUME NEW h \in TS, CommitApply(h) PROVE KeptInv' /\ MovedInv'
  <2>1. TxId[h] \in applied'
    <3>1. CASE TxId[h] \in applied
      BY <1>15, <3>1 DEF CommitApply, CommitStateApply
    <3>2. CASE TxId[h] \notin applied
      <4>1. status[h] # "FREE" /\ phase[TxId[h]] = "commit"
        BY <1>15 DEF CommitApply, HeldInv, DecidedInv
      <4>2. PICK g \in TS : /\ TxId[g] = TxId[h]
                            /\ status[g] = "COMMIT_PENDING"
                            /\ writeOrdering[g] # {}
        BY <3>2, <4>1 DEF KeptInv
      <4>3. g = h
        BY <4>1, <4>2 DEF SoleInv
      <4>. QED
        BY <1>15, <4>2, <4>3 DEF CommitApply, CommitStateApply
    <3>. QED
      BY <3>1, <3>2
  <2>2. applied \subseteq applied'
    BY <1>15 DEF CommitApply, CommitStateApply
  <2>3. KeptInv'
    BY <1>15, <2>2 DEF CommitApply, CommitStateApply, KeptInv
  <2>4. MovedInv'
    BY <1>15, <2>1, <2>2 DEF CommitApply, MovedInv
  <2>. QED
    BY <2>3, <2>4
<1>16. ASSUME NEW h \in TS, CommitFails(h) PROVE KeptInv' /\ MovedInv'
  <2>1. CASE CommitStatePutFault(h)
    BY <2>1 DEF CommitStatePutFault, Use, Bounded, NoPutFault
  <2>2. CASE CommitStateWalFault(h)
    BY <1>16, <2>2 DEF CommitFails, CommitStateWalFault, CommitStateApply, KeptInv,
       MovedInv
  <2>. QED
    BY <1>16, <2>1, <2>2 DEF CommitFails
<1>17. ASSUME NEW h \in TS, CommitMark(h) PROVE KeptInv' /\ MovedInv'
  BY <1>17 DEF CommitMark, CommitStateMark, CommitStateFailure, KeptInv,
     MovedInv, SoleInv, HeldInv, AskedInv, DecidedInv, Requested
<1>18. ASSUME NEW h \in TS, CommitRetire(h) PROVE KeptInv' /\ MovedInv'
  BY <1>18 DEF CommitRetire, CommitStateRetire, RetireTransaction, KeptInv,
     MovedInv, SoleInv, HeldInv, AskedInv, DecidedInv, Requested
<1>19. ASSUME NEW h \in TS, AbortMark(h) PROVE KeptInv' /\ MovedInv'
  BY <1>19 DEF AbortMark, KeptInv, MovedInv, SoleInv, HeldInv, AskedInv,
     DecidedInv, Requested
<1>20. ASSUME NEW h \in TS, AbortWalFault(h) PROVE KeptInv' /\ MovedInv'
  BY <1>20 DEF AbortWalFault, KeptInv, MovedInv, SoleInv, HeldInv, AskedInv,
     DecidedInv, Requested
<1>21. ASSUME NEW h \in TS, AbortRemove(h) PROVE KeptInv' /\ MovedInv'
  BY <1>21 DEF AbortRemove, KeptInv, MovedInv, SoleInv, HeldInv, AskedInv,
     DecidedInv, Requested
<1>22. ASSUME NEW h \in TS, AbortRetire(h) PROVE KeptInv' /\ MovedInv'
  BY <1>22 DEF AbortRetire, RetireTransaction, KeptInv, MovedInv, SoleInv,
     HeldInv, AskedInv, DecidedInv, Requested
<1>23. ASSUME NEW t \in Tid, CommitRequestUnknown(t)
      PROVE KeptInv' /\ MovedInv'
  BY <1>23 DEF CommitRequestUnknown, NoRequest, Beginning, KeptInv, MovedInv,
     SoleInv, HeldInv, AskedInv, DecidedInv, Requested
<1>24. ASSUME NEW t \in Tid, DecideCommit(t) PROVE KeptInv' /\ MovedInv'
  BY <1>24 DEF DecideCommit, KeptInv, MovedInv, SoleInv, HeldInv, AskedInv,
     DecidedInv, Requested
<1>25. ASSUME NEW t \in Tid, DecideAbort(t) PROVE KeptInv' /\ MovedInv'
  BY <1>25 DEF DecideAbort, Beginning, KeptInv, MovedInv, SoleInv, HeldInv,
     AskedInv, DecidedInv, Requested
<1>26. ASSUME NEW t \in Tid, CommitUnknown(t) PROVE KeptInv' /\ MovedInv'
  BY <1>26 DEF CommitUnknown, KeptInv, MovedInv, SoleInv, HeldInv, AskedInv,
     DecidedInv, Requested
<1>27. ASSUME NEW t \in Tid, AbortDuplicate(t) PROVE KeptInv' /\ MovedInv'
  BY <1>27 DEF AbortDuplicate, KeptInv, MovedInv, SoleInv, HeldInv, AskedInv,
     DecidedInv, Requested
<1>28. ASSUME ChoreMin PROVE KeptInv' /\ MovedInv'
  BY <1>28 DEF ChoreMin, KeptInv, MovedInv, SoleInv, HeldInv, AskedInv,
     DecidedInv, Requested
<1>29. ASSUME ChoreRemove PROVE KeptInv' /\ MovedInv'
  BY <1>29 DEF ChoreRemove, KeptInv, MovedInv, SoleInv, HeldInv, AskedInv,
     DecidedInv, Requested
<1>30. ASSUME ChoreDetectStale PROVE KeptInv' /\ MovedInv'
  BY <1>30 DEF ChoreDetectStale, KeptInv, MovedInv, SoleInv, HeldInv,
     AskedInv, DecidedInv, Requested
<1>31. ASSUME NEW tm \in Tm, RecoveryRequest(tm) PROVE KeptInv' /\ MovedInv'
  BY <1>31 DEF RecoveryRequest, KeptInv, MovedInv, SoleInv, HeldInv, AskedInv,
     DecidedInv, Requested
<1>32. ASSUME NEW h \in TS, Lease(h) PROVE KeptInv' /\ MovedInv'
  BY <1>32 DEF Lease, NoLapse, Use, Bounded, HeldInv, LeaseExpired,
     LeaseSwitch, LeaseAbortMark, LeaseAbortRetire, LeaseRenew, LeaseResolve,
     LeaseResolveFails, LeaseResolveMark, LeaseResolveRetire
<1>. QED
  BY <1>1, <1>2, <1>3, <1>4, <1>5, <1>6, <1>7, <1>8, <1>9, <1>10, <1>11,
     <1>12, <1>13, <1>14, <1>15, <1>16, <1>17, <1>18, <1>19, <1>20, <1>21,
     <1>22, <1>23, <1>24, <1>25, <1>26, <1>27, <1>28, <1>29, <1>30, <1>31,
     <1>32 DEF Next, Begin, Work, CommitRequest, PhaseTwo, Chore, Client

\* A step in which nothing changes preserves all parts.
LEMMA VoteStutter == VoteInv /\ UNCHANGED vars => VoteInv'
  BY DEF vars, regionVars, bufferVars, threadVars, clientVars, VoteInv, NoLapse,
     NoPutFault, QuietInv, SoleInv, WorkInv, HeldInv, OnceInv, AskedInv,
     DecidedInv, BufferInv, EmptyInv, ReadOnlyVote, KeptInv, MovedInv, Requested

\* Every step preserves the invariant of the votes.
LEMMA VoteStep == IInv /\ IInv' /\ VoteInv /\ [Next]_vars => VoteInv'
<1> SUFFICES ASSUME IInv, IInv', VoteInv, Next PROVE VoteInv'
  BY VoteStutter
<1>1. (NoLapse' => NoLapse) /\ (NoPutFault' => NoPutFault)
  BY UsedStays DEF IInv
<1>2. ASSUME NoLapse' PROVE QuietInv'
  BY <1>1, <1>2, QuietStep DEF VoteInv
<1>3. ASSUME NoLapse', NoPutFault' PROVE KeptInv' /\ MovedInv'
  BY <1>1, <1>3, KeptStep DEF VoteInv
<1>. QED
  BY <1>2, <1>3 DEF VoteInv

\* The invariant of the votes holds when the region starts.
LEMMA VoteInit == Init => VoteInv
  BY TxIdAssumption, NoTSAssumption
     DEF Init, VoteInv, QuietInv, SoleInv, WorkInv, HeldInv, OnceInv, AskedInv,
         DecidedInv, BufferInv, EmptyInv, ReadOnlyVote, KeptInv, MovedInv,
         Requested

\* COMMIT_OK is a promise that the region keeps as long as no lease expires
\* and no put or delete throws, whatever replies are lost, whatever appends to
\* the log fail, however often commitRequest is repeated and whenever the TM
\* decides to abort.
THEOREM VoteIsKept == Spec => [](NoLapse /\ NoPutFault => VotePromise)
<1>1. VoteInv => (NoLapse /\ NoPutFault => VotePromise)
  <2> SUFFICES ASSUME VoteInv, NoLapse, NoPutFault,
                      NEW t \in Tid, phase[t] \in {"voted", "commit"}, t \notin applied
               PROVE  \E h \in TS : /\ TxId[h] = t
                                    /\ \/ transactionsById[t] = h
                                       \/ expired[h] \in {"removed", "sawCommitPending"}
                                    /\ status[h] = "COMMIT_PENDING"
                                    /\ writeOrdering[h] = acked[t]
    BY DEF VotePromise
  <2>1. PICK h \in TS : /\ TxId[h] = t
                        /\ transactionsById[t] = h
                        /\ status[h] = "COMMIT_PENDING"
    BY DEF VoteInv, KeptInv
  <2>2. writeOrdering[h] = acked[t]
    BY <2>1 DEF VoteInv, QuietInv, BufferInv
  <2>. QED
    BY <2>1, <2>2
<1>. QED
  BY <1>1, VoteInit, VoteStep, Invariance, PTL DEF Spec

\* As long as no lease expires, COMMIT_OK_READ_ONLY is given only to a
\* transaction none of whose writes was acknowledged.
THEOREM ReadOnlyVoteIsHonest == Spec => [](NoLapse => ReadOnlyVote)
<1>1. VoteInv => (NoLapse => ReadOnlyVote)
  BY DEF VoteInv, QuietInv
<1>. QED
  BY <1>1, VoteInit, VoteStep, Invariance, PTL DEF Spec
=============================================================================
