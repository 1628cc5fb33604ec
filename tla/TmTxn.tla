------------------------------- MODULE TmTxn -------------------------------
(***************************************************************************)
(* The state machine of one transaction in the TM process (TM_TX_Info in   *)
(* sqf/src/tm/tmtx.cpp), from its begin until its object is returned.      *)
(*                                                                         *)
(* The main thread receives the requests and queues them to the object;    *)
(* doom, join and suspend it executes itself.  One worker thread at a time *)
(* takes the requests from the queue (module TmThreads shows that it is    *)
(* one) and drives the state machine, one action of this module for one    *)
(* round of the loops of state_change.  The timer thread queues the        *)
(* rollback of a transaction that takes too long, and the redrive of one   *)
(* that is hung.  The regions are reached through the HBase library:       *)
(* prepareCommit, doCommit, abortTransaction and completeRequest, each of  *)
(* which can fail (module TrxClient has what they do).                     *)
(*                                                                         *)
(* Left out: sync mode and the branches of resource managers other than    *)
(* HBase, which a system on HBase does not have; the hand-over of the role *)
(* of the ender; statistics.                                               *)
(***************************************************************************)
EXTENDS Naturals, Sequences, FiniteSets

CONSTANTS
    Serial,        \* TRUE: the application awaits the reply to a request, and
                   \* sends none after the one that ends the transaction
    MaxRequests,   \* bound: requests of the application
    MaxDooms,      \* bound: DOOMTRANSACTION requests and deaths of processes
    MaxJoins,      \* bound: processes that join
    MaxFaults      \* bound: failing calls of the HBase library

ASSUME BoundAssumption ==
    /\ Serial \in BOOLEAN
    /\ MaxRequests \in Nat /\ MaxDooms \in Nat /\ MaxJoins \in Nat /\ MaxFaults \in Nat

Requests == 1 .. MaxRequests
Kinds == {"END", "FOREIGNEND", "ABORT", "REGISTER"}
Internal == {"ROLLBACK", "REDRIVECOMMIT", "REDRIVEROLLBACK"}
Codes == {"FEOK", "FEABORTED", "FELOCKED", "FEENDED", "FEJOINS", "FEINVTRANSID"}

\* TM_TX_STATE, as far as HBase branches lead to it.
States == {"NOTX", "ACTIVE", "PREPARING", "COMMITTING", "COMMITTED", "ABORTING",
           "ABORTING_PART2", "ABORTED", "FORGETTING", "FORGOTTEN",
           "HUNGCOMMITTED", "HUNGABORTED"}
Hung == {"HUNGCOMMITTED", "HUNGABORTED"}

\* The states in which state_change(TX_COMMIT) and state_change(TX_ROLLBACK)
\* may be entered; in any other one they call abort().
CommitStates == {"ACTIVE", "COMMITTING", "COMMITTED", "FORGETTING", "FORGOTTEN",
                 "HUNGCOMMITTED"}
RollbackStates == {"ACTIVE", "ABORTING", "ABORTING_PART2", "ABORTED", "HUNGABORTED",
                   "FORGETTING", "FORGOTTEN"}

VARIABLES
    \* CTmTxBase
    state,       \* iv_tx_state
    mark,        \* iv_mark_for_rollback
    flags,       \* abort_flags(): one of the iv_..._aborted is set
    readOnly,    \* iv_read_only
    partic,      \* iv_num_active_partic
    cleanup,     \* iv_cleanup_sem
    live,        \* iv_in_use
    eventQ,      \* iv_eventQ: [type, id], id 0 for a message without reply
    hungEvent,   \* ip_hung_event is not NULL
    \* the list of the timer thread
    timeout,     \* the abort timeout is armed
    hungTimer,   \* the redrive that is armed, or "none"
    \* the worker
    pc, msg, rsp, err, then,
    \* the main thread in the middle of doom_txn
    dooming,
    \* the application
    kind,        \* the requests that were sent
    answer,      \* the codes they were answered with
    dooms, joins,
    early,       \* earlyCommitReply(), read when the TM starts
    \* the audit trail and the regions
    trail,       \* the records written for the transaction
    votes,       \* "none", "prepared", "readonly" or "refused"
    told,        \* what the regions were told: "commit", "abort"
    faults,
    died         \* abort() was called

objVars == <<mark, flags, readOnly, partic, cleanup, live, hungEvent>>
timerVars == <<timeout, hungTimer>>
appVars == <<kind, dooms, joins, early>>
rmVars == <<trail, votes, told, faults>>
worker == <<pc, msg, rsp, err, then>>
vars == <<state, objVars, eventQ, timerVars, worker, dooming, appVars, answer, rmVars, died>>

NoMsg == [type |-> "none", id |-> 0]
Message == [type : Kinds \cup Internal, id : 0 .. MaxRequests]

\* The types; in particular the codes that ENDTRANSACTION and the others are
\* answered with, and the participants, which never go below none.
TypeOK ==
    /\ state \in States
    /\ mark \in BOOLEAN /\ flags \in BOOLEAN /\ readOnly \in BOOLEAN /\ live \in BOOLEAN
    /\ hungEvent \in BOOLEAN /\ timeout \in BOOLEAN /\ dooming \in BOOLEAN
    /\ early \in BOOLEAN /\ died \in BOOLEAN
    /\ partic \in Nat /\ cleanup \in Nat
    /\ eventQ \in Seq(Message)
    /\ hungTimer \in {"none", "REDRIVECOMMIT", "REDRIVEROLLBACK"}
    /\ pc \in {"idle", "commit", "vote", "complete", "rollback", "resolved",
               "end_complete", "end_reply", "abort_complete", "forget", "done", "cleanup"}
    /\ msg \in Message \cup {NoMsg}
    /\ rsp \in {"FEOK", "FEABORTED", "FELOCKED"}
    /\ err \in {"ok", "conflict", "error"}
    /\ then \in {"none", "end_complete", "end_reply", "abort_complete", "forget"}
    /\ kind \in [Requests -> Kinds \cup {"none"}]
    /\ answer \in [Requests -> Codes \cup {"none"}]
    /\ dooms \in 0 .. MaxDooms /\ joins \in 0 .. MaxJoins /\ faults \in 0 .. MaxFaults
    /\ trail \subseteq {"COMMITTED", "FORGOTTEN"}
    /\ votes \in {"none", "prepared", "readonly", "refused"}
    /\ told \subseteq {"commit", "abort"}

\* A transaction after tm_process_req_begin, which begins the branches, makes
\* it ACTIVE and arms its abort timeout under the lock of the new object.
Init ==
    /\ state = "ACTIVE"
    /\ mark = FALSE /\ flags = FALSE /\ readOnly = FALSE
    /\ partic = 1 /\ cleanup = 0 /\ live = TRUE
    /\ eventQ = << >>
    /\ hungEvent = FALSE /\ hungTimer = "none" /\ timeout \in BOOLEAN
    /\ pc = "idle" /\ msg = NoMsg /\ rsp = "FEOK" /\ err = "ok" /\ then = "none"
    /\ dooming = FALSE
    /\ kind = [i \in Requests |-> "none"]
    /\ answer = [i \in Requests |-> "none"]
    /\ dooms = 0 /\ joins = 0 /\ faults = 0 /\ early \in BOOLEAN
    /\ trail = {} /\ votes = "none" /\ told = {}
    /\ died = FALSE

isAborting ==
    state \in {"ABORTING", "ABORTING_PART2", "ABORTED", "HUNGABORTED"} \/ flags \/ mark

\* The reply to a message, if one is pending.
Reply(code) ==
    answer' = IF msg.id # 0 /\ answer[msg.id] = "none"
              THEN [answer EXCEPT ![msg.id] = code] ELSE answer

-----------------------------------------------------------------------------
(* The main thread and the timer thread.                                   *)

txn_object_good == cleanup = 0 /\ live

queueToTransaction(m) ==
    eventQ' = IF txn_object_good THEN Append(eventQ, m) ELSE eventQ

\* A request of the application: queued, or refused when the object is being
\* cleaned up.
Request(i, k) ==
    /\ ~died /\ ~dooming
    /\ kind[i] = "none"
    /\ \A j \in 1 .. i - 1 : kind[j] # "none"
    /\ Serial => \A j \in 1 .. i - 1 :
          answer[j] # "none" /\ (kind[j] = "REGISTER" \/ answer[j] = "FEJOINS")
    /\ kind' = [kind EXCEPT ![i] = k]
    /\ queueToTransaction([type |-> k, id |-> i])
    /\ answer' = IF txn_object_good THEN answer
                 ELSE [answer EXCEPT ![i] = "FEINVTRANSID"]
    /\ UNCHANGED <<state, objVars, timerVars, worker, dooming, dooms, joins, early, rmVars, died>>

\* doom_txn looks at the state ...
doom_txn ==
    /\ ~died /\ ~dooming
    /\ dooms < MaxDooms
    /\ dooms' = dooms + 1
    /\ dooming' = (live /\ state \in {"NOTX", "ACTIVE", "PREPARING"})
    /\ UNCHANGED <<state, objVars, eventQ, timerVars, worker, kind, joins, early, answer,
                   rmVars, died>>

\* ... and marks the transaction: FEOK.  The worker does not wait for it.
DoomMark ==
    /\ ~died /\ dooming
    /\ mark' = TRUE
    /\ flags' = TRUE
    /\ dooming' = FALSE
    /\ UNCHANGED <<state, readOnly, partic, cleanup, live, hungEvent, eventQ, timerVars,
                   worker, appVars, answer, rmVars, died>>

req_join ==
    /\ ~died /\ ~dooming
    /\ live /\ joins < MaxJoins
    /\ state \in {"NOTX", "ACTIVE"}
    /\ joins' = joins + 1
    /\ partic' = partic + 1
    /\ UNCHANGED <<state, mark, flags, readOnly, cleanup, live, hungEvent, eventQ, timerVars,
                   worker, dooming, kind, dooms, early, answer, rmVars, died>>

\* Mutant: the process that leaves need not be a participant.
SuspendAnyone ==
    /\ ~died /\ ~dooming
    /\ live /\ state # "NOTX"
    /\ partic' = partic - 1
    /\ UNCHANGED <<state, mark, flags, readOnly, cleanup, live, hungEvent, eventQ, timerVars,
                   worker, dooming, appVars, answer, rmVars, died>>

\* A process that had joined leaves.
req_suspend ==
    /\ ~died /\ ~dooming
    /\ live /\ state # "NOTX"
    /\ partic > 1
    /\ partic' = partic - 1
    /\ UNCHANGED <<state, mark, flags, readOnly, cleanup, live, hungEvent, eventQ, timerVars,
                   worker, dooming, appVars, answer, rmVars, died>>

\* A process of the transaction has died.  In phase 1 that queues a rollback.
schedule_abort ==
    /\ ~died /\ ~dooming
    /\ live /\ dooms < MaxDooms
    /\ dooms' = dooms + 1
    /\ state \in {"NOTX", "ACTIVE", "PREPARING"}
    /\ queueToTransaction([type |-> "ROLLBACK", id |-> 0])
    /\ UNCHANGED <<state, objVars, timerVars, worker, dooming, kind, joins, early, answer,
                   rmVars, died>>

\* The abort timeout pops.
AbortTimeout ==
    /\ ~died
    /\ timeout
    /\ timeout' = FALSE
    /\ queueToTransaction([type |-> "ROLLBACK", id |-> 0])
    /\ UNCHANGED <<state, objVars, hungTimer, worker, dooming, appVars, answer, rmVars, died>>

\* The hung timer pops; its event is deleted, ip_hung_event still points to it.
HungTimeout ==
    /\ ~died
    /\ hungTimer # "none"
    /\ hungTimer' = "none"
    /\ queueToTransaction([type |-> hungTimer, id |-> 0])
    /\ UNCHANGED <<state, objVars, timeout, worker, dooming, appVars, answer, rmVars, died>>

-----------------------------------------------------------------------------
(* process_eventQ: the worker takes a message and enters its handler.      *)

\* Take the message m and go to p, with the next call after the state machine.
Take(m, p, next) ==
    /\ ~died
    /\ pc \in {"idle", "done"}
    /\ eventQ # << >> /\ Head(eventQ) = m
    /\ eventQ' = Tail(eventQ)
    /\ live
    /\ msg' = m /\ rsp' = "FEOK" /\ err' = "ok"
    /\ pc' = p /\ then' = next

\* req_end, in a state that is left to its caller.
req_end ==
    /\ eventQ # << >> /\ Head(eventQ).type = "END"
    /\ LET m == Head(eventQ) IN
       \/ /\ state \notin {"ACTIVE", "COMMITTED"}
          /\ Take(m, "forget", "none")
          /\ answer' = [answer EXCEPT ![m.id] = IF isAborting THEN "FEABORTED" ELSE "FEENDED"]
       \/ /\ state \in {"ACTIVE", "COMMITTED"}
          /\ partic > 1
          /\ Take(m, "done", "none")
          /\ answer' = [answer EXCEPT ![m.id] = "FEJOINS"]
       \/ /\ state \in {"ACTIVE", "COMMITTED"}
          /\ partic <= 1
          /\ Take(m, "commit", "end_complete")
          /\ UNCHANGED answer
    /\ UNCHANGED <<state, objVars, timerVars, dooming, appVars, rmVars, died>>

\* ENDTRANSACTION of a process that is not the ender aborts the transaction,
\* whatever state it is in.
ForeignEnd ==
    /\ eventQ # << >> /\ Head(eventQ).type = "FOREIGNEND"
    /\ Take(Head(eventQ), "rollback", "abort_complete")
    /\ answer' = [answer EXCEPT ![Head(eventQ).id] = "FEABORTED"]
    /\ state' = "ABORTING"
    /\ flags' = TRUE
    /\ UNCHANGED <<mark, readOnly, partic, cleanup, live, hungEvent, timerVars, dooming,
                   appVars, rmVars, died>>

\* rollback_txn for ABORTTRANSACTION (req_abort) and for the rollbacks the TM
\* queues itself.  A transaction past phase 1 is left alone, its object is to
\* be cleaned up.
rollback_txn ==
    /\ eventQ # << >> /\ Head(eventQ).type \in {"ABORT", "ROLLBACK"}
    /\ LET m == Head(eventQ)
           aborts == flags \/ m.type = "ABORT"     \* iv_appl_aborted
       IN
       /\ flags' = aborts
       /\ \/ /\ state \in RollbackStates
             /\ Take(m, "rollback", "forget")
             /\ UNCHANGED <<answer, cleanup>>
          \/ /\ state \notin RollbackStates
             /\ Take(m, "forget", "none")
             /\ answer' = IF m.id = 0 THEN answer
                          ELSE [answer EXCEPT ![m.id] =
                                  IF aborts \/ mark THEN "FEABORTED" ELSE "FEENDED"]
             /\ cleanup' = cleanup + 1
    /\ UNCHANGED <<state, mark, readOnly, partic, live, hungEvent, timerVars, dooming,
                   appVars, rmVars, died>>

\* Mutant: ip_hung_event keeps its value after the event was cancelled.
RedriveKeepsEvent(type, s, p) ==
    /\ eventQ # << >> /\ Head(eventQ).type = type
    /\ Take(Head(eventQ), p, "forget")
    /\ hungTimer' = IF hungEvent THEN "none" ELSE hungTimer
    /\ state' = s
    /\ UNCHANGED <<mark, flags, readOnly, partic, cleanup, live, hungEvent, timeout,
                   dooming, appVars, answer, rmVars, died>>

\* redrivecommit_txn and redriverollback_txn: the hung event is cancelled and
\* phase 2 driven again, from whatever state.
Redrive(type, s, p) ==
    /\ eventQ # << >> /\ Head(eventQ).type = type
    /\ Take(Head(eventQ), p, "forget")
    /\ hungEvent' = FALSE
    /\ hungTimer' = IF hungEvent THEN "none" ELSE hungTimer
    /\ state' = s
    /\ UNCHANGED <<mark, flags, readOnly, partic, cleanup, live, timeout, dooming,
                   appVars, answer, rmVars, died>>

redrivecommit_txn == Redrive("REDRIVECOMMIT", "COMMITTED", "commit")
redriverollback_txn == Redrive("REDRIVEROLLBACK", "ABORTING_PART2", "rollback")

\* req_registerRegion, as far as the state machine is concerned.
req_registerRegion ==
    /\ eventQ # << >> /\ Head(eventQ).type = "REGISTER"
    /\ Take(Head(eventQ), "done", "none")
    /\ answer' = [answer EXCEPT ![Head(eventQ).id] = "FEOK"]
    /\ UNCHANGED <<state, objVars, timerVars, dooming, appVars, rmVars, died>>

-----------------------------------------------------------------------------
(* state_change(TX_COMMIT), one round of its loop for each action.         *)

\* ACTIVE: a transaction that is marked is aborted and the answer given.
CommitActive ==
    /\ ~died /\ pc = "commit" /\ state = "ACTIVE"
    /\ \/ /\ ~mark
          /\ state' = "PREPARING"
          /\ UNCHANGED <<flags, pc, answer>>
       \/ /\ mark
          /\ state' = "ABORTING"
          /\ flags' = TRUE
          /\ Reply("FEABORTED")
          /\ pc' = then
    /\ UNCHANGED <<mark, readOnly, partic, cleanup, live, hungEvent, eventQ, timerVars,
                   msg, rsp, err, then, dooming, appVars, rmVars, died>>

\* PREPARING: prepareCommit of the HBase library returns; an error marks the
\* transaction.
prepare_branches ==
    /\ ~died /\ pc = "commit" /\ state = "PREPARING"
    /\ \/ \E v \in {"prepared", "readonly"} :
             votes' = v /\ UNCHANGED <<mark, err, faults>>
       \/ /\ faults < MaxFaults
          /\ faults' = faults + 1
          /\ votes' = "refused"
          /\ mark' = TRUE
          /\ err' \in {"conflict", "error"}
    /\ pc' = "vote"
    /\ UNCHANGED <<state, flags, readOnly, partic, cleanup, live, hungEvent, eventQ,
                   timerVars, msg, rsp, then, dooming, appVars, answer, trail, told, died>>

\* Mutant: the mark is not looked at after prepareCommit.
PrepareUnmarked ==
    /\ ~died /\ pc = "vote"
    /\ readOnly' = (votes = "readonly")
    /\ state' = IF votes = "readonly" THEN "COMMITTED" ELSE "COMMITTING"
    /\ pc' = "commit"
    /\ UNCHANGED <<mark, flags, partic, cleanup, live, hungEvent, eventQ, timerVars, msg,
                   rsp, err, then, dooming, appVars, answer, rmVars, died>>

\* state_change_prepare_helper, and the participants that are left: none in a
\* read-only transaction, which is COMMITTED at once.
state_change_prepare_helper ==
    /\ ~died /\ pc = "vote"
    /\ \/ /\ mark
          /\ state' = "ABORTING"
          /\ flags' = TRUE
          /\ rsp' = IF err = "conflict" THEN "FELOCKED" ELSE "FEABORTED"
          /\ pc' = then
          /\ UNCHANGED readOnly
       \/ /\ ~mark
          /\ readOnly' = (votes = "readonly")
          /\ state' = IF votes = "readonly" THEN "COMMITTED" ELSE "COMMITTING"
          /\ pc' = "commit"
          /\ UNCHANGED <<flags, rsp>>
    /\ UNCHANGED <<mark, partic, cleanup, live, hungEvent, eventQ, timerVars, msg, err,
                   then, dooming, appVars, answer, rmVars, died>>

CommitCommitting ==
    /\ ~died /\ pc = "commit" /\ state = "COMMITTING"
    /\ state' = "COMMITTED"
    /\ UNCHANGED <<objVars, eventQ, timerVars, worker, dooming, appVars, answer, rmVars, died>>

\* addHungTimerEvent: one event at a time, by ip_hung_event.
addHungTimerEvent(type) ==
    /\ hungEvent' = TRUE
    /\ hungTimer' = IF hungEvent THEN hungTimer ELSE type

\* state_change_commit_helper: the audit record, then doCommit.  hbasetm.cpp
\* takes the RET_EXCEPTION of a decision that could not be appended to the TLOG,
\* after which no region was told, for success.  A transaction the library does
\* not know, and the exception of a FORGOTTEN record that could not be appended
\* after the regions were told, leave the transaction hung.
state_change_commit_helper ==
    /\ ~died /\ pc = "commit" /\ state = "COMMITTED"
    /\ \/ /\ readOnly
          /\ state' = "FORGETTING"
          /\ Reply("FEOK")
          /\ UNCHANGED <<trail, told, faults, pc, hungEvent, hungTimer>>
       \/ /\ ~readOnly
          /\ trail' = trail \cup {"COMMITTED"}
          /\ \/ told' = told \cup {"commit"} /\ UNCHANGED faults
             \/ faults < MaxFaults /\ faults' = faults + 1 /\ UNCHANGED told
          /\ state' = "FORGETTING"
          /\ IF early THEN Reply("FEOK") ELSE UNCHANGED answer
          /\ pc' = "complete"
          /\ UNCHANGED <<hungEvent, hungTimer>>
       \/ /\ ~readOnly
          /\ faults < MaxFaults
          /\ faults' = faults + 1
          /\ trail' = trail \cup {"COMMITTED"}
          /\ told' \in {told, told \cup {"commit"}}
          /\ state' = "HUNGCOMMITTED"
          /\ addHungTimerEvent("REDRIVECOMMIT")
          /\ UNCHANGED <<answer, pc>>
    /\ UNCHANGED <<mark, flags, readOnly, partic, cleanup, live, eventQ, timeout, msg, rsp,
                   err, then, dooming, appVars, votes, died>>

\* completeRequest waits for the regions; what it returns is not looked at.  It
\* waits for ever if no doCommit has come to send the requests (commitSendDone).
CommitComplete ==
    /\ ~died /\ pc = "complete"
    /\ "commit" \in told
    /\ pc' = "commit"
    /\ UNCHANGED <<state, objVars, eventQ, timerVars, msg, rsp, err, then, dooming,
                   appVars, answer, rmVars, died>>

CommitForgetting ==
    /\ ~died /\ pc = "commit" /\ state = "FORGETTING"
    /\ state' = "FORGOTTEN"
    /\ trail' = IF readOnly THEN trail ELSE trail \cup {"FORGOTTEN"}
    /\ UNCHANGED <<objVars, eventQ, timerVars, worker, dooming, appVars, answer, votes,
                   told, faults, died>>

\* FORGOTTEN and HUNGCOMMITTED leave the state machine.
CommitLeave ==
    /\ ~died /\ pc = "commit" /\ state \in {"FORGOTTEN", "HUNGCOMMITTED"}
    /\ pc' = then
    /\ UNCHANGED <<state, objVars, eventQ, timerVars, msg, rsp, err, then, dooming,
                   appVars, answer, rmVars, died>>

-----------------------------------------------------------------------------
(* state_change(TX_ROLLBACK).                                              *)

\* ACTIVE to ABORTING to ABORTING_PART2, and ABORTED to FORGETTING to FORGOTTEN.
RollbackAdvance ==
    /\ ~died /\ pc = "rollback"
    /\ \/ state = "ACTIVE" /\ state' = "ABORTING"
       \/ state = "ABORTING" /\ state' = "ABORTING_PART2"
       \/ state = "ABORTED" /\ state' = "FORGETTING"
       \/ state = "FORGETTING" /\ state' = "FORGOTTEN"
    /\ UNCHANGED <<objVars, eventQ, timerVars, worker, dooming, appVars, answer, rmVars, died>>

\* rollback_branches: abortTransaction, whose result is not looked at, and the
\* answer with the error of the message ...
rollback_branches ==
    /\ ~died /\ pc = "rollback" /\ state = "ABORTING_PART2"
    /\ told' = told \cup {"abort"}
    /\ Reply(rsp)
    /\ pc' = "resolved"
    /\ UNCHANGED <<state, objVars, eventQ, timerVars, msg, rsp, err, then, dooming,
                   appVars, trail, votes, faults, died>>

\* ... then completeRequest, and state_change_abort_helper.
state_change_abort_helper ==
    /\ ~died /\ pc = "resolved"
    /\ \/ /\ state' = "ABORTED"
          /\ UNCHANGED <<faults, hungEvent, hungTimer>>
       \/ /\ faults < MaxFaults
          /\ faults' = faults + 1
          /\ state' = "HUNGABORTED"
          /\ addHungTimerEvent("REDRIVEROLLBACK")
    /\ pc' = "rollback"
    /\ UNCHANGED <<mark, flags, readOnly, partic, cleanup, live, eventQ, timeout, msg, rsp,
                   err, then, dooming, appVars, answer, trail, votes, told, died>>

RollbackLeave ==
    /\ ~died /\ pc = "rollback" /\ state \in {"FORGOTTEN", "HUNGABORTED"}
    /\ pc' = then
    /\ UNCHANGED <<state, objVars, eventQ, timerVars, msg, rsp, err, then, dooming,
                   appVars, answer, rmVars, died>>

-----------------------------------------------------------------------------
(* The rest of the handlers, and the end of process_eventQ.                *)

\* Mutant: TX_ROLLBACK does not know the state FORGOTTEN.
EndCompleteStrict ==
    /\ ~died /\ pc = "end_complete"
    /\ died' = (isAborting /\ state \notin RollbackStates \ {"FORGOTTEN"})
    /\ pc' = IF isAborting THEN "rollback" ELSE "commit"
    /\ then' = "end_reply"
    /\ UNCHANGED <<state, objVars, eventQ, timerVars, msg, rsp, err, dooming, appVars,
                   answer, rmVars>>

\* req_end_complete drives the state machine a second time, by TX_ROLLBACK or by
\* TX_COMMIT.  In a state that the event is not for, state_change calls abort().
req_end_complete ==
    /\ ~died /\ pc = "end_complete"
    /\ LET expected == IF isAborting THEN RollbackStates ELSE CommitStates IN
       \/ /\ state \in expected
          /\ rsp' = IF isAborting /\ rsp # "FELOCKED" THEN "FEABORTED" ELSE rsp
          /\ pc' = IF isAborting THEN "rollback" ELSE "commit"
          /\ UNCHANGED died
       \/ /\ state \notin expected
          /\ died' = TRUE
          /\ UNCHANGED <<rsp, pc>>
    /\ then' = "end_reply"
    /\ UNCHANGED <<state, objVars, eventQ, timerVars, msg, err, dooming, appVars, answer, rmVars>>

\* Mutant: no answer at the end of req_end_complete.
EndWithoutReply ==
    /\ ~died /\ pc = "end_reply"
    /\ pc' = "forget"
    /\ UNCHANGED <<state, objVars, eventQ, timerVars, msg, rsp, err, then, dooming,
                   appVars, answer, rmVars, died>>

\* Its last part answers what is not answered yet.
EndReply ==
    /\ ~died /\ pc = "end_reply"
    /\ Reply("FEOK")
    /\ pc' = "forget"
    /\ UNCHANGED <<state, objVars, eventQ, timerVars, msg, rsp, err, then, dooming,
                   appVars, rmVars, died>>

\* req_abort_complete, which only ForeignEnd comes to: the others ask for
\* transactionBusy(), which is not set by a request.
req_abort_complete ==
    /\ ~died /\ pc = "abort_complete"
    /\ Reply(rsp)
    /\ pc' = "forget"
    /\ UNCHANGED <<state, objVars, eventQ, timerVars, msg, rsp, err, then, dooming,
                   appVars, rmVars, died>>

\* req_forget: a hung transaction is kept; the message is deleted.
req_forget ==
    /\ ~died /\ pc = "forget"
    /\ cleanup' = IF state \in Hung THEN cleanup ELSE cleanup + 1
    /\ msg' = NoMsg
    /\ pc' = "done"
    /\ UNCHANGED <<state, mark, flags, readOnly, partic, live, hungEvent, eventQ, timerVars,
                   rsp, err, then, dooming, appVars, answer, rmVars, died>>

\* disassociate, when the queue is empty: the object is cleaned up if one
\* handler has asked for it.
disassociate ==
    /\ ~died /\ pc = "done"
    /\ eventQ = << >>
    /\ cleanup' = IF cleanup > 0 THEN cleanup - 1 ELSE 0
    /\ pc' = IF cleanup = 1 THEN "cleanup" ELSE "idle"
    /\ msg' = NoMsg
    /\ UNCHANGED <<state, mark, flags, readOnly, partic, live, hungEvent, eventQ, timerVars,
                   rsp, err, then, dooming, appVars, answer, rmVars, died>>

\* TM_Info::cleanup, outside the Qmutex: the abort timeout is cancelled, the
\* hung event is not.
Cleanup ==
    /\ ~died /\ pc = "cleanup"
    /\ live' = FALSE
    /\ state' = "NOTX"
    /\ timeout' = FALSE
    /\ pc' = "idle"
    /\ UNCHANGED <<mark, flags, readOnly, partic, cleanup, hungEvent, eventQ, hungTimer,
                   msg, rsp, err, then, dooming, appVars, answer, rmVars, died>>

-----------------------------------------------------------------------------
\* The steps of the worker that take place whatever the regions do, and the
\* returns of completeRequest.
Runs ==
    \/ req_end \/ ForeignEnd \/ rollback_txn \/ redrivecommit_txn
    \/ redriverollback_txn \/ req_registerRegion
    \/ CommitActive \/ prepare_branches \/ state_change_prepare_helper
    \/ CommitCommitting \/ state_change_commit_helper
    \/ CommitForgetting \/ CommitLeave
    \/ RollbackAdvance \/ rollback_branches \/ RollbackLeave
    \/ req_end_complete \/ EndReply \/ req_abort_complete \/ req_forget
    \/ disassociate \/ Cleanup
Returns == CommitComplete \/ state_change_abort_helper

Next ==
    \/ \E i \in Requests, k \in Kinds : Request(i, k)
    \/ doom_txn \/ DoomMark \/ req_join \/ req_suspend \/ schedule_abort
    \/ AbortTimeout \/ HungTimeout
    \/ Runs \/ Returns

Spec == Init /\ [][Next]_vars

\* The worker and the timer thread run; the application may stop, and nothing
\* makes completeRequest return.
FairSpec == Spec /\ WF_vars(Runs) /\ WF_vars(HungTimeout) /\ WF_vars(DoomMark)

-----------------------------------------------------------------------------
(* The transaction implements TxnOutcome.                                  *)

\* The decision, read from the state of the object; one that is forgotten was
\* aborted if its regions were told so.
decision ==
    IF state \in {"COMMITTING", "COMMITTED", "HUNGCOMMITTED"} THEN "commit"
    ELSE IF state \in {"ABORTING", "ABORTING_PART2", "ABORTED", "HUNGABORTED"} THEN "abort"
    ELSE IF state \in {"FORGETTING", "FORGOTTEN", "NOTX"}
    THEN IF "abort" \in told THEN "abort" ELSE "commit"
    ELSE "none"

SaysCommit(code) == code = "FEOK"
SaysAbort(code) == code \in {"FEABORTED", "FELOCKED"}

Outcome == INSTANCE TxnOutcome WITH
    Answers <- Codes,
    MeansCommit <- SaysCommit,
    MeansAbort <- SaysAbort,
    prepared <- votes \in {"prepared", "readonly"},
    answers <- {answer[i] : i \in {j \in Requests :
                   kind[j] \in {"END", "FOREIGNEND"} /\ answer[j] # "none"}}

\* The state machine of tmtx.cpp keeps the promise of TxnOutcome through dooms
\* from the main thread, timeouts, failing calls, hung phases and redrives: one
\* decision, commit only after the votes, the regions told nothing else, and
\* ENDTRANSACTION answered in agreement.
ImplementsOutcome == Outcome!Spec

\* abort() in state_change, which ends the TM process, is reached in one way
\* only: a doom that tested the state before the worker looked at the mark and
\* set it afterwards, in a commit that then hung.  No other state that an event
\* is not for is ever met.
DeathIsLateDoom == died => mark /\ state = "HUNGCOMMITTED" /\ votes = "prepared"

\* The worker is in completeRequest.
InCompleteRequest == pc \in {"complete", "resolved"}

\* ENDTRANSACTION is always answered, whoever else aborts the transaction
\* meanwhile, with three exceptions: the TM dies; the worker stays in
\* completeRequest for ever, in the commit of this request or in a rollback
\* before it; or the request was queued to an object between the dec_cleanup of
\* disassociate and the cleanup, and is lost with it.
Lost(i) == ~live /\ \E n \in 1 .. Len(eventQ) : eventQ[n].id = i
EndAnswered ==
    \A i \in Requests :
        \/ (kind[i] \in {"END", "FOREIGNEND"}) ~> (answer[i] # "none" \/ died \/ Lost(i))
        \/ <>[]InCompleteRequest

\* A hung phase 2 is driven again by its timer until it is through, unless the
\* TM dies or a handler has raised iv_cleanup_sem, which makes
\* queueToTransaction refuse the redrive.
HungResolved ==
    (state \in Hung) ~> (state \notin Hung \/ died \/ cleanup > 0)

\* The object of a hung transaction is not cleaned up: req_forget keeps it for
\* the redrive.
HungIsKept == pc = "cleanup" => state \notin Hung
=============================================================================
