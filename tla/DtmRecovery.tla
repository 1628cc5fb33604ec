---------------------------- MODULE DtmRecovery ----------------------------
(***************************************************************************)
(* Crash and recovery of distributed transactions: what the regions log in *)
(* phase one and two, what TrxRegionObserver rebuilds from the log when a  *)
(* region is opened again, and how the recovery thread of the TM           *)
(* (HBaseTxClient.RecoveryThread) resolves the transactions that are in    *)
(* doubt, from the records of the transaction log (TmAuditTlog) and with   *)
(* the zNodes by which regions and TM find each other.                     *)
(*                                                                         *)
(* A region server can crash at any point, and loses what its write-ahead  *)
(* log has not synced; the TM process can crash, and loses the states of   *)
(* its transactions.  The TLOG and ZooKeeper stay.                         *)
(*                                                                         *)
(* Left out, as module TrxRegion has them: conflicts, leases, the epochs   *)
(* by which the chore finds a branch stale (here: at any time), the begin  *)
(* of a transaction for the second time.  A transaction writes in every    *)
(* region it joins.  A row of the TLOG has fewer records than the table    *)
(* keeps versions.                                                         *)
(***************************************************************************)
EXTENDS Naturals, Sequences, FiniteSets

CONSTANTS
    Txns, Regions, TMs,
    TmOf,          \* the TM of a transaction: the upper half of its id
    Branches,      \* the regions a transaction may join
    Keep,          \* the control points of audit that are kept (5)
    Failures,      \* the kinds of failure that may happen, of FailureKinds
    MaxControlPts, \* bound: control points of a TM
    MaxFailures    \* bound: failures, those of a restore not counted

\* Crashes of a server and of the TM, failing reads and appends of the TLOG,
\* flushes that HBase makes by itself, and edits that it restores by itself
\* when it replays a log.
FailureKinds == {"server", "TM", "TLOG", "flush", "restore"}

ASSUME ConstantAssumption ==
    /\ TmOf \in [Txns -> TMs]
    /\ Branches \in [Txns -> SUBSET Regions]
    /\ Failures \subseteq FailureKinds
    /\ Keep \in Nat \ {0}
    /\ MaxControlPts \in Nat /\ MaxFailures \in Nat

VARIABLES
    reg,        \* a region server: memory, log and store files of its region
    logging,    \* <<r, t>>: commitRequest has released the lock, not yet logged
    znode,      \* <<m, r>>: the recovery zNode of region r for TM m
    tlog,       \* the records of a transaction in the TLOG, oldest first
    ctrlPt,     \* the number of control points of a TM
    phase,      \* where HBaseTxClient is with a transaction
    joined,     \* participatingRegions
    voted,      \* regions that answered COMMIT_OK
    todo,       \* regions that a thread of phase two still has to reach
    failed,     \* hasError: a request of phase two failed
    rec,        \* the recovery thread of a TM
    resolve,    \* requests of the recovery thread under way: [op, t, r]
    budget,     \* how many failures are left
    \* history
    decision,   \* what the TM has decided
    dropped,    \* <<t, r>>: the prepare edit left the log before the writes
                \* of t were in the store files
    restored,   \* <<t, r>>: HBase itself has put edits of t into region r that
                \* the replay did not
    cause       \* why the recovery of t may have gone against the decision

vars == <<reg, logging, znode, tlog, ctrlPt, phase, joined, voted, todo,
          failed, rec, resolve, budget, decision, dropped, restored, cause>>

----------------------------------------------------------------------------
\* The log of a region

\* PUT is an edit without a transactional tag: HBase replays it by itself.
Ops == {"COMMIT_REQUEST", "COMMIT", "CONTROL_POINT_COMMIT", "ABORT", "PUT"}
Edit(op, t) == [op |-> op, t |-> t]
Ends(e, t) == e.t = t /\ e.op \in {"COMMIT", "CONTROL_POINT_COMMIT", "ABORT"}

\* The transactions whose prepare edit is in the log.
Prepared(log) == {log[i].t : i \in {i \in DOMAIN log : log[i].op = "COMMIT_REQUEST"}}

\* Record i makes t pending, and t still is when the replay comes to record j.
PendingAt(log, t, i, j) ==
    /\ i < j
    /\ log[i] = Edit("COMMIT_REQUEST", t)
    /\ \A k \in i + 1 .. j - 1 : ~Ends(log[k], t)

\* pendingTransactionsById when preWALRestore has seen the whole log.
preWALRestore(log) ==
    {t \in Txns : \E i \in DOMAIN log : PendingAt(log, t, i, Len(log) + 1)}

\* Mutant: the edits of a prepare record are applied when they are read.
ReplayPrepared(log) == Prepared(log)

\* The transactions whose writes the replay puts into the region: a COMMIT
\* applies the edits of its prepare record, if it has been seen.
replayCommittedTransaction(log) ==
    {t \in Txns : \E j \in DOMAIN log :
        \/ log[j] \in {Edit("CONTROL_POINT_COMMIT", t), Edit("PUT", t)}
        \/ log[j] = Edit("COMMIT", t) /\ \E i \in DOMAIN log : PendingAt(log, t, i, j)}

\* What HBase puts into the region if it restores the edits of the log too:
\* every record carries edits of its transaction, the COMMIT and the ABORT
\* record the first one.  (preWALRestore ends with env.complete(), which keeps
\* other coprocessors out; it does not call bypass().)
RestoredEdits(log) == {log[i].t : i \in DOMAIN log}

----------------------------------------------------------------------------
\* A region: what its operations make of it

Closed(files, log) ==
    [up |-> FALSE, pend |-> [t \in Txns |-> "none"], indoubt |-> {},
     count |-> [m \in TMs |-> 0], built |-> FALSE, state |-> 0, gen |-> FALSE,
     log |-> log, synced |-> Len(log), store |-> files, files |-> files]

CommitPending(g) == {t \in Txns : g.pend[t] \in {"checked", "pending", "reinstated"}}

\* appendNoSync, and the sync that follows some of the appends.
appendNoSync(g, op, t) == [g EXCEPT !.log = Append(@, Edit(op, t))]
Sync(g) == [g EXCEPT !.synced = Len(g.log)]

\* flushcache: the edits of the log up to here are not replayed any more.
flushcache(g) == [g EXCEPT !.files = g.store, !.log = <<>>, !.synced = 0]

startRegionAfterRecovery(g) == [flushcache(g) EXCEPT !.state = 2]

constructIndoubtTransactions(g) ==
    IF g.built THEN g
    ELSE IF g.indoubt = {} THEN [startRegionAfterRecovery(g) EXCEPT !.built = TRUE]
    ELSE [g EXCEPT !.built = TRUE,
                   !.pend = [t \in Txns |-> IF t \in g.indoubt THEN "reinstated" ELSE @[t]]]

\* A reinstated transaction is resolved: the end of commit and of abort.
Resolved(g, t) ==
    LET h == [g EXCEPT !.indoubt = @ \ {t},
                       !.count[TmOf[t]] = IF @ > 0 THEN @ - 1 ELSE 0]
    IN IF h.indoubt = {} THEN startRegionAfterRecovery(h) ELSE h

\* The prepare record, synced: the vote of the region.
PrepareRecord(g, t) ==
    [Sync(appendNoSync(g, "COMMIT_REQUEST", t)) EXCEPT
        !.pend[t] = IF @ = "checked" THEN "pending" ELSE @]

\* The commit record.  The first commit of a server is logged with all edits.
CommitRecord(g, t) ==
    [appendNoSync(g, IF g.gen THEN "COMMIT" ELSE "CONTROL_POINT_COMMIT", t)
        EXCEPT !.gen = TRUE]

\* commit: the puts of a reinstated transaction go through the log, the others
\* skip it.
commit(g, t) ==
    LET stored == [g EXCEPT !.store = @ \cup {t}, !.pend[t] = "none"]
    IN IF g.pend[t] = "reinstated"
       THEN Resolved(CommitRecord(Sync(appendNoSync(stored, "PUT", t)), t), t)
       ELSE CommitRecord(stored, t)

\* Mutant: the entry of a reinstated transaction stays.
AbortKeepsEntry(g, t) ==
    IF g.pend[t] = "reinstated" THEN Resolved(g, t)
    ELSE appendNoSync([g EXCEPT !.pend[t] = "none"], "ABORT", t)

\* abortTransaction: a reinstated transaction has no writes, and gets no record.
abortTransaction(g, t) ==
    LET gone == [g EXCEPT !.pend[t] = "none"]
    IN IF g.pend[t] = "reinstated" THEN Resolved(gone, t)
       ELSE appendNoSync(gone, "ABORT", t)

\* Mutant: the zNode goes with the first transaction that is resolved.
DeleteTooEarly(r, g, h, t) ==
    IF g.pend[t] = "reinstated" THEN znode \ {<<TmOf[t], r>>} ELSE znode

\* The zNode goes with the last transaction in doubt of the TM.
deleteRecoveryzNode(r, g, h, t) ==
    IF g.pend[t] = "reinstated" /\ h.count[TmOf[t]] = 0
    THEN znode \ {<<TmOf[t], r>>} ELSE znode

SetRegion(r, h) ==
    /\ reg' = [reg EXCEPT ![r] = h]
    /\ dropped' = dropped \cup
         {<<t, r>> : t \in Prepared(reg[r].log) \ (Prepared(h.log) \cup h.store)}

Spend(kind) ==
    /\ kind \in Failures
    /\ budget > 0
    /\ budget' = budget - 1

----------------------------------------------------------------------------
\* The operations of a region

\* beginTransaction, and the registration of the region with the TM.
beginTransaction(r, t) ==
    /\ reg[r].up
    /\ phase[t] = "active"
    /\ r \in Branches[t] \ joined[t]
    /\ LET g == constructIndoubtTransactions(reg[r])
       IN SetRegion(r, [g EXCEPT !.pend[t] = "active"])
    /\ joined' = [joined EXCEPT ![t] = @ \cup {r}]
    /\ UNCHANGED <<logging, znode, tlog, ctrlPt, phase, voted, todo, failed,
                   rec, resolve, budget, decision, restored, cause>>

\* commitRequest up to the release of commitCheckLock.
commitRequest(r, t) ==
    /\ phase[t] = "preparing"
    /\ reg[r].up
    /\ reg[r].pend[t] = "active"
    /\ reg' = [reg EXCEPT ![r].pend[t] = "checked"]
    /\ logging' = logging \cup {<<r, t>>}
    /\ UNCHANGED <<znode, tlog, ctrlPt, phase, joined, voted, todo, failed,
                   rec, resolve, budget, decision, dropped, restored, cause>>

\* The rest of commitRequest: the edits are logged and synced, COMMIT_OK.
LogCommitRequest(r, t) ==
    /\ <<r, t>> \in logging
    /\ logging' = logging \ {<<r, t>>}
    /\ reg' = [reg EXCEPT ![r] = PrepareRecord(@, t)]
    /\ voted' = IF phase[t] = "preparing" THEN [voted EXCEPT ![t] = @ \cup {r}] ELSE voted
    /\ UNCHANGED <<znode, tlog, ctrlPt, phase, joined, todo, failed, rec,
                   resolve, budget, decision, dropped, restored, cause>>

\* The region executes a request of phase two, if it knows the transaction.
Known(r, op, t) ==
    reg[r].pend[t] \in {"checked", "pending", "reinstated"}
        \cup (IF op = "abort" THEN {"active"} ELSE {})

Execute(r, op, t) ==
    LET g == reg[r]
        h == IF op = "commit" THEN commit(g, t) ELSE abortTransaction(g, t)
    IN IF Known(r, op, t)
       THEN /\ SetRegion(r, h)
            /\ znode' = deleteRecoveryzNode(r, g, h, t)
       ELSE UNCHANGED <<reg, dropped, znode>>

\* Mutant: the chore passes over the transactions that are not reinstated.
ChoreReinstatedOnly(r, t) ==
    /\ reg[r].up
    /\ reg[r].pend[t] = "reinstated"
    /\ <<TmOf[t], r>> \notin znode
    /\ znode' = znode \cup {<<TmOf[t], r>>}
    /\ UNCHANGED <<reg, logging, tlog, ctrlPt, phase, joined, voted, todo,
                   failed, rec, resolve, budget, decision, dropped, restored,
                   cause>>

\* The chore of the region: a branch that is pending too long.
choreThreadDetectStaleTransactionBranch(r, t) ==
    /\ reg[r].up
    /\ t \in CommitPending(reg[r])
    /\ <<TmOf[t], r>> \notin znode
    /\ znode' = znode \cup {<<TmOf[t], r>>}
    /\ UNCHANGED <<reg, logging, tlog, ctrlPt, phase, joined, voted, todo,
                   failed, rec, resolve, budget, decision, dropped, restored,
                   cause>>

\* HBase flushes the region for reasons of its own.
Flush(r) ==
    /\ reg[r].up
    /\ reg[r].log # <<>>
    /\ Spend("flush")
    /\ SetRegion(r, flushcache(reg[r]))
    /\ UNCHANGED <<logging, znode, tlog, ctrlPt, phase, joined, voted, todo,
                   failed, rec, resolve, decision, restored, cause>>

\* The server dies: of the log that was not synced any part may be lost (HBase
\* may have synced it meanwhile).
Crash(r) ==
    /\ reg[r].up
    /\ Spend("server")
    /\ \E n \in reg[r].synced .. Len(reg[r].log) :
          reg' = [reg EXCEPT ![r] = Closed(@.files, SubSeq(@.log, 1, n))]
    /\ logging' = {l \in logging : l[1] # r}
    /\ UNCHANGED <<znode, tlog, ctrlPt, phase, joined, voted, todo, failed,
                   rec, resolve, decision, dropped, restored, cause>>

\* The region is opened on a server: the log is replayed, the transactions in
\* doubt are counted for their TMs, and a zNode is posted for each TM.  HBase
\* may toss the replayed log out, with its edits flushed, and may restore the
\* edits that preWALRestore has seen.
postOpen(r) ==
    /\ ~reg[r].up
    /\ \E toss \in BOOLEAN, restores \in {FALSE} \cup {"restore" \in Failures} :
         LET indoubt == preWALRestore(reg[r].log)
             replayed == reg[r].store \cup replayCommittedTransaction(reg[r].log)
             extra == RestoredEdits(reg[r].log) \ replayed
             g == [reg[r] EXCEPT
                      !.up = TRUE,
                      !.store = IF restores THEN replayed \cup extra ELSE replayed,
                      !.indoubt = indoubt,
                      !.count = [m \in TMs |-> Cardinality({t \in indoubt : TmOf[t] = m})]]
         IN /\ SetRegion(r, IF toss THEN flushcache(g) ELSE g)
            /\ znode' = znode \cup {<<TmOf[t], r>> : t \in indoubt}
            /\ restored' = IF restores THEN restored \cup {<<t, r>> : t \in extra}
                                       ELSE restored
    /\ UNCHANGED <<logging, tlog, ctrlPt, phase, joined, voted, todo, failed,
                   rec, resolve, budget, decision, cause>>

----------------------------------------------------------------------------
\* The TLOG

\* A record and the number of control points before it, which orders it with
\* respect to the control points as its audit sequence number does.
putSingleRecord(t, state) ==
    tlog' = [tlog EXCEPT ![t] = Append(@, [state |-> state, cp |-> ctrlPt[TmOf[t]]])]

\* Mutant: the newest record is taken as it is.
NewestRecord(t) ==
    IF tlog[t] = <<>> THEN "NOTX" ELSE tlog[t][Len(tlog[t])].state

\* getTransactionState: below FORGOTTEN is the record that tells the outcome.
getTransactionState(t) ==
    LET rows == {i \in DOMAIN tlog[t] : tlog[t][i].state # "FORGOTTEN"}
    IN IF rows = {} THEN "NOTX"
       ELSE tlog[t][CHOOSE i \in rows : \A j \in rows : j <= i].state

\* deleteAgedEntries: the newest record is older than the control point, and it
\* or one below it is an old FORGOTTEN.
Aged(row, cp) ==
    /\ row # <<>>
    /\ row[Len(row)].cp < cp
    /\ \E i \in DOMAIN row : row[i].state = "FORGOTTEN" /\ row[i].cp < cp

\* addControlPoint: the transactions of the map that are committed are written
\* again, then aged entries go.
InMap(t) == phase[t] \in {"sent", "forgotten"}

addControlPoint(m) ==
    /\ ctrlPt[m] < MaxControlPts
    /\ LET n == ctrlPt[m] + 1
           written == [t \in Txns |->
               IF TmOf[t] = m /\ InMap(t) /\ decision[t] = "commit"
               THEN Append(tlog[t], [state |-> "COMMITTED", cp |-> ctrlPt[m]])
               ELSE tlog[t]]
           old == {t \in Txns : /\ TmOf[t] = m
                                /\ n > Keep /\ n % Keep = 0
                                /\ Aged(written[t], n - Keep)}
       IN /\ ctrlPt' = [ctrlPt EXCEPT ![m] = n]
          /\ tlog' = [t \in Txns |-> IF t \in old THEN <<>> ELSE written[t]]
          /\ cause' = [t \in Txns |-> IF t \in old THEN cause[t] \cup {"aged"} ELSE cause[t]]
    /\ UNCHANGED <<reg, logging, znode, phase, joined, voted, todo, failed,
                   rec, resolve, budget, decision, dropped, restored>>

----------------------------------------------------------------------------
\* HBaseTxClient

prepareCommit(t) ==
    /\ phase[t] = "active"
    /\ joined[t] # {}
    /\ phase' = [phase EXCEPT ![t] = "preparing"]
    /\ UNCHANGED <<reg, logging, znode, tlog, ctrlPt, joined, voted, todo,
                   failed, rec, resolve, budget, decision, dropped, restored,
                   cause>>

\* The outcome is logged, and phase two handed to the threads of the pool.
PhaseTwo(t, state) ==
    /\ putSingleRecord(t, state)
    /\ phase' = [phase EXCEPT ![t] = "sent"]
    /\ todo' = [todo EXCEPT ![t] = joined[t]]
    /\ voted' = [voted EXCEPT ![t] = {}]

\* All votes are in.
doCommit(t) ==
    /\ phase[t] = "preparing"
    /\ voted[t] = joined[t]
    /\ decision' = [decision EXCEPT ![t] = "commit"]
    /\ PhaseTwo(t, "COMMITTED")
    /\ UNCHANGED <<reg, logging, znode, ctrlPt, joined, failed, rec, resolve,
                   budget, dropped, restored, cause>>

\* The transaction is rolled back: by the application, because a region did
\* not vote to commit or its vote was lost, or because the transaction was
\* doomed while it was being prepared, whatever the regions have answered.
abortOfTM(t) ==
    /\ phase[t] \in {"active", "preparing"}
    /\ decision' = [decision EXCEPT ![t] = "abort"]
    /\ PhaseTwo(t, "ABORTED")
    /\ UNCHANGED <<reg, logging, znode, ctrlPt, joined, failed, rec, resolve,
                   budget, dropped, restored, cause>>

\* FORGOTTEN is written when the requests have been handed over.
Forget(t) ==
    /\ phase[t] = "sent"
    /\ phase' = [phase EXCEPT ![t] = "forgotten"]
    /\ putSingleRecord(t, "FORGOTTEN")
    /\ UNCHANGED <<reg, logging, znode, ctrlPt, joined, voted, todo, failed,
                   rec, resolve, budget, decision, dropped, restored, cause>>

\* doCommitX and doAbortX: the region executes the request, or does not know
\* the transaction, or is not reached in all attempts.
Deliver(t, r) ==
    /\ r \in todo[t]
    /\ todo' = [todo EXCEPT ![t] = @ \ {r}]
    /\ IF reg[r].up THEN Execute(r, decision[t], t)
       ELSE UNCHANGED <<reg, dropped, znode>>
    /\ failed' = [failed EXCEPT ![t] =
           @ \/ (decision[t] = "commit" /\ ~(reg[r].up /\ Known(r, "commit", t)))]
    /\ UNCHANGED <<logging, tlog, ctrlPt, phase, joined, voted, rec, resolve,
                   budget, decision, restored, cause>>

\* completeRequest takes the transaction out of the map.  It throws when a commit
\* has failed; the TM does not look at that, and the transaction stays there.
completeRequest(t) ==
    /\ phase[t] = "forgotten"
    /\ todo[t] = {}
    /\ ~failed[t]
    /\ phase' = [phase EXCEPT ![t] = "complete"]
    /\ UNCHANGED <<reg, logging, znode, tlog, ctrlPt, joined, voted, todo,
                   failed, rec, resolve, budget, decision, dropped, restored,
                   cause>>

\* The append of FORGOTTEN fails.  For a commit that is a failure of doCommit,
\* and the TM drives it again; of abortTransaction the result is not looked at.
ForgottenFault(t) ==
    /\ phase[t] = "sent"
    /\ Spend("TLOG")
    /\ \/ /\ decision[t] = "commit"
          /\ PhaseTwo(t, "COMMITTED")
          /\ failed' = [failed EXCEPT ![t] = FALSE]
       \/ /\ decision[t] = "abort"
          /\ phase' = [phase EXCEPT ![t] = "forgotten"]
          /\ UNCHANGED <<tlog, todo, voted, failed>>
    /\ UNCHANGED <<reg, logging, znode, ctrlPt, joined, rec, resolve, decision,
                   dropped, restored, cause>>

----------------------------------------------------------------------------
\* The recovery thread

\* A pass: the regions still to be asked, and what they have reported.  The
\* thread sleeps when nothing is left.
Pass(regions, found) == [regions |-> regions, found |-> found]
Idle == Pass({}, [t \in Txns |-> {}])

checkForRecovery(m) ==
    /\ rec[m] = Idle
    /\ LET rs == {r \in Regions : <<m, r>> \in znode}
       IN rs # {} /\ rec' = [rec EXCEPT ![m].regions = rs]
    /\ UNCHANGED <<reg, logging, znode, tlog, ctrlPt, phase, joined, voted,
                   todo, failed, resolve, budget, decision, dropped, restored,
                   cause>>

\* The transactions of TM m a region reports: those in doubt while it recovers,
\* once it has started all that are pending.
Reported(g, m) ==
    {t \in IF g.state = 0 THEN g.indoubt ELSE CommitPending(g) : TmOf[t] = m}

\* One call of the loop over the regions; a region that is down is passed over.
recoveryRequest(m, r) ==
    /\ r \in rec[m].regions
    /\ LET g == constructIndoubtTransactions(reg[r])
           ts == IF reg[r].up THEN Reported(g, m) ELSE {}
       IN /\ IF reg[r].up
             THEN /\ SetRegion(r, g)
                  /\ znode' = IF g.state = 2 THEN znode \ {<<m, r>>} ELSE znode
             ELSE UNCHANGED <<reg, dropped, znode>>
          /\ rec' = [rec EXCEPT ![m] = Pass(@.regions \ {r},
                [t \in Txns |-> @.found[t] \cup IF t \in ts THEN {r} ELSE {}])]
    /\ UNCHANGED <<logging, tlog, ctrlPt, phase, joined, voted, todo, failed,
                   resolve, budget, decision, restored, cause>>

\* One transaction of the list: its record of the TLOG decides, and it goes to
\* all regions of its tables; without a record it is aborted in the regions
\* that reported it.  A failing read is taken for no record.
Resolve(m, t) ==
    /\ rec[m].regions = {}
    /\ rec[m].found[t] # {}
    /\ \E fault \in BOOLEAN :
         /\ IF fault THEN Spend("TLOG") ELSE UNCHANGED budget
         /\ LET state == IF fault THEN "NOTX" ELSE getTransactionState(t)
                rs == IF state = "NOTX" THEN rec[m].found[t] ELSE joined[t]
                op == IF state = "COMMITTED" THEN "commit" ELSE "abort"
            IN /\ resolve' = resolve \cup {[op |-> op, t |-> t, r |-> r] : r \in rs}
               /\ cause' = [cause EXCEPT ![t] = @
                     \cup (IF fault THEN {"misread"} ELSE {})
                     \cup (IF phase[t] = "preparing" THEN {"early"} ELSE {})]
    /\ rec' = [rec EXCEPT ![m] = Pass({}, [@.found EXCEPT ![t] = {}])]
    /\ UNCHANGED <<reg, logging, znode, tlog, ctrlPt, phase, joined, voted,
                   todo, failed, decision, dropped, restored>>

\* A request of the recovery thread reaches the region, or is given up.
DeliverResolve(q) ==
    /\ q \in resolve
    /\ resolve' = resolve \ {q}
    /\ IF reg[q.r].up THEN Execute(q.r, q.op, q.t)
       ELSE UNCHANGED <<reg, dropped, znode>>
    /\ UNCHANGED <<logging, tlog, ctrlPt, phase, joined, voted, todo, failed,
                   rec, budget, decision, restored, cause>>

----------------------------------------------------------------------------
\* The TM process

\* The process dies and is started again; its transactions are gone.
TmCrash(m) ==
    /\ Spend("TM")
    /\ phase' = [t \in Txns |->
           IF TmOf[t] = m /\ phase[t] # "complete" THEN "lost" ELSE phase[t]]
    /\ LET Gone(f, v) == [t \in Txns |-> IF TmOf[t] = m THEN v ELSE f[t]]
       IN /\ voted' = Gone(voted, {})
          /\ todo' = Gone(todo, {})
          /\ failed' = Gone(failed, FALSE)
    /\ rec' = [rec EXCEPT ![m] = Idle]
    /\ resolve' = {q \in resolve : TmOf[q.t] # m}
    /\ UNCHANGED <<reg, logging, znode, tlog, ctrlPt, joined, decision,
                   dropped, restored, cause>>

Init ==
    /\ reg = [r \in Regions |->
          [Closed({}, <<>>) EXCEPT !.up = TRUE, !.built = TRUE, !.state = 2]]
    /\ logging = {} /\ znode = {} /\ resolve = {}
    /\ tlog = [t \in Txns |-> <<>>]
    /\ ctrlPt = [m \in TMs |-> 0]
    /\ phase = [t \in Txns |-> "active"]
    /\ joined = [t \in Txns |-> {}] /\ voted = joined /\ todo = joined
    /\ failed = [t \in Txns |-> FALSE]
    /\ rec = [m \in TMs |-> Idle]
    /\ budget = MaxFailures
    /\ decision = [t \in Txns |-> "none"]
    /\ dropped = {}
    /\ restored = {}
    /\ cause = [t \in Txns |-> {}]

RegionStep ==
    \/ \E r \in Regions, t \in Txns :
          \/ beginTransaction(r, t)
          \/ commitRequest(r, t)
          \/ LogCommitRequest(r, t)
          \/ choreThreadDetectStaleTransactionBranch(r, t)
    \/ \E r \in Regions : Flush(r) \/ Crash(r) \/ postOpen(r)

ClientStep ==
    \E t \in Txns :
        \/ prepareCommit(t) \/ doCommit(t) \/ abortOfTM(t) \/ Forget(t)
        \/ completeRequest(t) \/ ForgottenFault(t)
        \/ \E r \in Regions : Deliver(t, r)

RecoveryStep ==
    \/ \E m \in TMs :
          \/ addControlPoint(m) \/ checkForRecovery(m)
          \/ TmCrash(m)
          \/ \E r \in Regions : recoveryRequest(m, r)
          \/ \E t \in Txns : Resolve(m, t)
    \/ \E q \in resolve : DeliverResolve(q)

Next == RegionStep \/ ClientStep \/ RecoveryStep

Spec == Init /\ [][Next]_vars

\* Regions are opened again and TMs restarted; the recovery thread polls for
\* ever, the chore runs periodically, and requests are executed.  Nothing is
\* asked of the application or of HBaseTxClient.
Fairness ==
    /\ \A r \in Regions, t \in Txns :
          /\ WF_vars(LogCommitRequest(r, t))
          /\ WF_vars(choreThreadDetectStaleTransactionBranch(r, t))
          /\ \A op \in {"commit", "abort"} :
                WF_vars(DeliverResolve([op |-> op, t |-> t, r |-> r]))
    /\ \A r \in Regions : WF_vars(postOpen(r))
    /\ \A m \in TMs :
          /\ WF_vars(checkForRecovery(m))
          /\ \A r \in Regions : WF_vars(recoveryRequest(m, r))
          /\ \A t \in Txns : WF_vars(Resolve(m, t))

FairSpec == Spec /\ Fairness

----------------------------------------------------------------------------
\* Properties

RegionType ==
    [up : BOOLEAN, pend : [Txns -> {"none", "active", "checked", "pending", "reinstated"}],
     indoubt : SUBSET Txns, count : [TMs -> Nat], built : BOOLEAN, state : {0, 2},
     gen : BOOLEAN, log : Seq([op : Ops, t : Txns]), synced : Nat,
     store : SUBSET Txns, files : SUBSET Txns]

\* The types, and what the parts of a region promise each other: the synced
\* part of the log exists, what is in the files is in the store, and only a
\* region that is up and has rebuilt its lists has reinstated transactions
\* (reconstructIndoubts), all of them in doubt.
TypeOK ==
    /\ reg \in [Regions -> RegionType]
    /\ \A r \in Regions :
          /\ reg[r].synced <= Len(reg[r].log)
          /\ reg[r].files \subseteq reg[r].store
          /\ \A t \in Txns : reg[r].pend[t] = "reinstated" =>
                reg[r].up /\ reg[r].built /\ t \in reg[r].indoubt
    /\ logging \subseteq Regions \X Txns
    /\ znode \subseteq TMs \X Regions
    /\ tlog \in [Txns -> Seq([state : {"COMMITTED", "ABORTED", "FORGOTTEN"}, cp : Nat])]
    /\ ctrlPt \in [TMs -> 0 .. MaxControlPts]
    /\ phase \in [Txns -> {"active", "preparing", "sent", "forgotten",
                           "complete", "lost"}]
    /\ joined \in [Txns -> SUBSET Regions]
    /\ voted \in [Txns -> SUBSET Regions] /\ todo \in [Txns -> SUBSET Regions]
    /\ failed \in [Txns -> BOOLEAN]
    /\ rec \in [TMs -> [regions : SUBSET Regions,
                        found : [Txns -> SUBSET Regions]]]
    /\ resolve \subseteq [op : {"commit", "abort"}, t : Txns, r : Regions]
    /\ decision \in [Txns -> {"none", "commit", "abort"}]
    /\ dropped \subseteq Txns \X Regions
    /\ restored \subseteq Txns \X Regions
    /\ cause \in [Txns -> SUBSET {"early", "aged", "misread"}]
    /\ budget \in 0 .. MaxFailures

\* Writes reach a table only when the TM has decided to commit, as far as this
\* code moves them: neither the replay of a commit record, nor the resolution
\* of a transaction in doubt, nor a late request of phase two brings in a
\* transaction that is undecided or aborted.  What else is there has come with
\* a restore of the log by HBase itself.
StoredIsExplained ==
    \A r \in Regions, t \in Txns :
        t \in reg[r].store => decision[t] = "commit" \/ <<t, r>> \in restored

\* A committed transaction stays in every region it joined: there it is in the
\* table, or pending, or in doubt.  It is lost only in four ways that the code
\* leaves open: the prepare edit left the log too soon (a flush, or a log that
\* was tossed out after the replay, and a crash); or the recovery thread aborted
\* the branch because it looked for the record before the TM had written it, or
\* after it was deleted with age, or could not read it.
LostIsExplained ==
    \A r \in Regions, t \in Txns :
        /\ decision[t] = "commit"
        /\ r \in joined[t]
        /\ reg[r].up
        /\ t \notin reg[r].store \cup reg[r].indoubt \cup CommitPending(reg[r])
        => <<t, r>> \in dropped \/ cause[t] # {}

\* A region in doubt is known to the TMs it waits for: the zNode is there as
\* long as a transaction of the TM is in doubt, and the count by which the
\* region decides to delete it is right, whatever is resolved in which order.
InDoubtAnnounced ==
    \A r \in Regions, m \in TMs :
        LET mine == {t \in reg[r].indoubt : TmOf[t] = m}
        IN /\ reg[r].count[m] = Cardinality(mine)
           /\ mine # {} => <<m, r>> \in znode

\* When all regions have confirmed a commit, the commit records need no sync,
\* as the TLOG tells the outcome again: wherever a crash has left the branch in
\* doubt, the recovery thread finds a record that says COMMITTED.
TlogTellsOutcome ==
    \A t \in Txns, r \in Regions :
        phase[t] = "complete" /\ decision[t] = "commit" /\ t \in reg[r].indoubt =>
            getTransactionState(t) = "COMMITTED"

\* A branch that has voted is resolved, in doubt after a crash of its server or
\* left behind by a crash of the TM: the chore and the recovery thread find it.
BranchResolved ==
    \A r \in Regions, t \in Txns :
        t \in CommitPending(reg[r]) \cup reg[r].indoubt
            ~> reg[r].up /\ t \notin CommitPending(reg[r]) \cup reg[r].indoubt
=============================================================================
