--------------------------- MODULE TmTxnProofs ---------------------------
(***************************************************************************)
(* Theorems about module TmTxn, for every value of its bounds: the type    *)
(* invariant; that a doom of a transaction already being prepared is the   *)
(* only way to the TM's fatal error; and that the state machine implements *)
(* TxnOutcome when the application sends one request at a time.            *)
(*                                                                         *)
(* IInv is the invariant of every behaviour: ControlInv says in which      *)
(* states each part of the worker's code runs, DoomInv what mark, flags    *)
(* and votes can be there, and MessageInv that a request is queued at most *)
(* once and answered only after it has left the queue.                     *)
(*                                                                         *)
(* The refinement needs more, and needs Serial.  Then at most one request  *)
(* can end the transaction (SerialInv), a commit has been asked for by     *)
(* such a request, which is taken (EnderInv), the regions are told nothing *)
(* but the decision (ToldInv), the queued and timed redrives repeat it     *)
(* (RedriveInv), and a worker that rolls back does not answer FEOK         *)
(* (ReplyInv).  Every step then has one of the effects of a step of        *)
(* TxnOutcome on the decision, the votes and the regions (Effect), and     *)
(* gives at most one answer, which agrees with the decision (Agreement).   *)
(***************************************************************************)
EXTENDS TmTxn, SequenceTheorems, TLAPS

\* The worker is inside the commit or the rollback of the transaction.
Driving == {"commit", "vote", "complete", "rollback", "resolved"}

\* The states a drive of the transaction ends in.
Final == {"FORGOTTEN", "HUNGCOMMITTED", "HUNGABORTED"}

\* The states in which each part of the worker's code runs, and where it
\* goes on afterwards.
ControlInv ==
    /\ pc \in {"idle", "done"} => state \in Final \cup {"ACTIVE", "NOTX"}
    /\ pc \in {"end_reply", "abort_complete", "forget", "cleanup"} => state \in Final
    /\ pc = "commit" => state \in {"ACTIVE", "PREPARING", "COMMITTING", "COMMITTED",
                                   "FORGETTING", "FORGOTTEN", "HUNGCOMMITTED"}
    /\ pc = "vote" => state = "PREPARING"
    /\ pc = "complete" => state = "FORGETTING"
    /\ pc = "rollback" => state \in {"ACTIVE", "ABORTING", "ABORTING_PART2", "ABORTED",
                                     "FORGETTING", "FORGOTTEN", "HUNGABORTED"}
    /\ pc = "resolved" => state = "ABORTING_PART2"
    /\ pc = "end_complete" => state \in {"ABORTING", "FORGOTTEN", "HUNGCOMMITTED"}
    /\ pc \in Driving => then # "none"
    /\ then = "end_complete" => pc \in {"commit", "vote", "complete", "end_complete"}
    /\ pc = "end_complete" /\ ~died => then = "end_complete"
    /\ pc \in {"commit", "vote"} /\ state \in {"ACTIVE", "PREPARING", "COMMITTING"} =>
           then = "end_complete"
    /\ live => state # "NOTX"
    /\ pc # "idle" => live
    /\ cleanup > 0 => state \notin {"ACTIVE", "PREPARING"}

\* What the mark for rollback, the flags and the votes are at each point: a
\* worker on its way to commit has seen every doom that came before the
\* votes were asked for.
DoomInv ==
    /\ then = "end_complete" /\ flags => mark
    /\ state = "ACTIVE" /\ pc # "rollback" /\ flags => mark
    /\ state = "ACTIVE" => votes = "none"
    /\ pc = "commit" /\ state = "PREPARING" => votes = "none"
    /\ pc = "vote" => votes # "none" /\ (votes = "refused" => mark)
    /\ then = "end_complete" /\ state \in {"COMMITTING", "COMMITTED", "HUNGCOMMITTED"} =>
           votes \in {"prepared", "readonly"} /\ (readOnly <=> votes = "readonly")
    /\ then = "end_complete" /\ state = "HUNGCOMMITTED" => ~readOnly
    /\ DeathIsLateDoom

\* Request i waits in the queue of the transaction.
Queued(i) == \E n \in 1 .. Len(eventQ) : eventQ[n].id = i

\* A message of the TM itself has no request, any other one is the request
\* of its kind.
Sound(m) ==
    /\ m.type \in Internal => m.id = 0
    /\ m.type \in Kinds => m.id \in Requests /\ kind[m.id] = m.type

\* A request is queued at most once and has no answer while it waits; the
\* one being served is not queued again.
MessageInv ==
    /\ \A i \in Requests : kind[i] = "none" => answer[i] = "none"
    /\ \A n \in 1 .. Len(eventQ) :
          /\ Sound(eventQ[n])
          /\ eventQ[n].id # 0 => answer[eventQ[n].id] = "none"
    /\ \A n, k \in 1 .. Len(eventQ) : eventQ[n].id = eventQ[k].id /\ eventQ[n].id # 0 => n = k
    /\ Sound(msg)
    /\ msg.id # 0 => ~Queued(msg.id)

\* A request is sent after every earlier one was answered, and all of those
\* were registrations or were refused with FEJOINS.
SerialInv ==
    \A i, j \in Requests : i < j /\ kind[j] # "none" =>
        /\ kind[i] # "none" /\ answer[i] # "none"
        /\ kind[i] = "REGISTER" \/ answer[i] = "FEJOINS"

\* Request i asks for the end of the transaction and a worker has taken it.
Ended(i) == kind[i] = "END" /\ answer[i] # "FEJOINS" /\ ~Queued(i)

\* Only an END request makes the TM prepare and commit.
EnderInv ==
    /\ decision = "commit" => \E i \in Requests : Ended(i)
    /\ pc \in {"commit", "vote"} /\ state \in {"ACTIVE", "PREPARING"} =>
           msg.id \in Requests /\ Ended(msg.id)

\* The regions are told the decision and nothing else; past the rollback
\* branches they have been told to abort, on the way of a commit they have
\* not.
ToldInv ==
    /\ told \subseteq {decision}
    /\ state \in {"ABORTED", "HUNGABORTED"} => "abort" \in told
    /\ pc = "resolved" => "abort" \in told
    /\ pc = "rollback" /\ state = "FORGETTING" => "abort" \in told
    /\ pc \in {"commit", "complete", "end_complete"} => "abort" \notin told

\* A redrive that is queued or timed repeats the decision.
RedriveInv ==
    /\ hungTimer = "REDRIVECOMMIT" => decision = "commit"
    /\ hungTimer = "REDRIVEROLLBACK" => decision = "abort"
    /\ \A n \in 1 .. Len(eventQ) :
          /\ eventQ[n].type = "REDRIVECOMMIT" => decision = "commit"
          /\ eventQ[n].type = "REDRIVEROLLBACK" => decision = "abort"

\* The request being served has its answer.
Replied == msg.id # 0 => answer[msg.id] # "none"

\* A rollback never ends with FEOK for an END, and has answered whenever the
\* regions know of the abort and the worker goes on to a reply.
ReplyInv ==
    /\ pc \in {"rollback", "resolved"} =>
          /\ then = "end_reply" => rsp # "FEOK"
          /\ then = "forget" => msg.type \notin {"END", "FOREIGNEND"}
    /\ pc \in {"rollback", "resolved", "end_reply"} /\ then = "end_reply"
          /\ "abort" \in told => Replied
    /\ pc = "end_reply" => then = "end_reply"
    /\ pc \in {"rollback", "resolved", "abort_complete"} /\ then = "abort_complete" => Replied
    /\ pc = "abort_complete" => then = "abort_complete"
    /\ pc \in {"commit", "vote", "complete"} => then # "abort_complete"

\* The inductive invariant of every behaviour.
IInv == TypeOK /\ ControlInv /\ DoomInv /\ MessageInv

\* The invariant that joins it when the application sends one request at a
\* time.
OInv == SerialInv /\ EnderInv /\ ToldInv /\ RedriveInv /\ ReplyInv

\* The Boolean part of TypeOK.
FlagType ==
    /\ mark \in BOOLEAN /\ flags \in BOOLEAN /\ readOnly \in BOOLEAN /\ live \in BOOLEAN
    /\ hungEvent \in BOOLEAN /\ timeout \in BOOLEAN /\ dooming \in BOOLEAN
    /\ early \in BOOLEAN /\ died \in BOOLEAN

\* The part of TypeOK about requests and messages.
QueueType ==
    /\ eventQ \in Seq(Message)
    /\ msg \in Message \cup {NoMsg}
    /\ kind \in [Requests -> Kinds \cup {"none"}]
    /\ hungTimer \in {"none", "REDRIVECOMMIT", "REDRIVEROLLBACK"}

\* The part of TypeOK about answers.
AnswerType ==
    /\ rsp \in {"FEOK", "FEABORTED", "FELOCKED"}
    /\ answer \in [Requests -> Codes \cup {"none"}]

\* The part of TypeOK about the state and the worker.
ControlType ==
    /\ state \in States
    /\ pc \in {"idle", "commit", "vote", "complete", "rollback", "resolved",
               "end_complete", "end_reply", "abort_complete", "forget", "done", "cleanup"}
    /\ err \in {"ok", "conflict", "error"}
    /\ then \in {"none", "end_complete", "end_reply", "abort_complete", "forget"}
    /\ trail \subseteq {"COMMITTED", "FORGOTTEN"}
    /\ votes \in {"none", "prepared", "readonly", "refused"}
    /\ told \subseteq {"commit", "abort"}

\* The part of TypeOK about counters.
CountType ==
    /\ partic \in Nat /\ cleanup \in Nat
    /\ dooms \in 0 .. MaxDooms /\ joins \in 0 .. MaxJoins /\ faults \in 0 .. MaxFaults

\* The actions that take a message from the queue.
Takes == \/ req_end \/ ForeignEnd \/ rollback_txn \/ redrivecommit_txn
         \/ redriverollback_txn \/ req_registerRegion

\* The actions that add a message to the queue.
Pushes == \/ \E i \in Requests, k \in Kinds : Request(i, k)
          \/ schedule_abort \/ AbortTimeout \/ HungTimeout

\* The actions of the main thread that leave the queue alone.
Others == \/ doom_txn \/ DoomMark \/ req_join \/ req_suspend

\* The steps of the commit of the transaction.
Commits == \/ CommitActive \/ prepare_branches \/ state_change_prepare_helper
           \/ CommitCommitting \/ state_change_commit_helper \/ CommitComplete
           \/ CommitForgetting \/ CommitLeave

\* The steps of its rollback.
Rollbacks == \/ RollbackAdvance \/ rollback_branches \/ state_change_abort_helper
             \/ RollbackLeave

\* The steps after the drive.
Ends == \/ req_end_complete \/ EndReply \/ req_abort_complete \/ req_forget
        \/ disassociate \/ Cleanup

\* The type invariant is its parts.
LEMMA Parts == TypeOK <=> FlagType /\ QueueType /\ AnswerType /\ ControlType /\ CountType
  BY DEF TypeOK, FlagType, QueueType, AnswerType, ControlType, CountType

\* The same for the next state.
LEMMA PartsPrimed ==
    TypeOK' <=> FlagType' /\ QueueType' /\ AnswerType' /\ ControlType' /\ CountType'
  BY DEF TypeOK, FlagType, QueueType, AnswerType, ControlType, CountType

\* Every step belongs to one of the groups.
LEMMA Cases == Next => Takes \/ Pushes \/ Others \/ Commits \/ Rollbacks \/ Ends
  BY DEF Next, Runs, Returns, Takes, Pushes, Others, Commits, Rollbacks, Ends

\* Every step keeps the types of the flags.
LEMMA FlagStep ==
    ASSUME FlagType, [Next]_vars
    PROVE  FlagType'
<1> USE DEF FlagType, objVars, timerVars, appVars, rmVars, worker
<1>1. CASE Takes
  <2>1. CASE req_end
    BY <2>1, Zenon DEF req_end, Take
  <2>2. CASE ForeignEnd
    BY <2>2, Zenon DEF ForeignEnd, Take
  <2>3. CASE rollback_txn
    BY <2>3, Zenon DEF rollback_txn, Take
  <2>4. CASE redrivecommit_txn
    BY <2>4, Zenon DEF redrivecommit_txn, Redrive, Take
  <2>5. CASE redriverollback_txn
    BY <2>5, Zenon DEF redriverollback_txn, Redrive, Take
  <2>6. CASE req_registerRegion
    BY <2>6, Zenon DEF req_registerRegion, Take
  <2>. QED
    BY <1>1, <2>1, <2>2, <2>3, <2>4, <2>5, <2>6 DEF Takes
<1>2. CASE Pushes
  <2>1. ASSUME NEW i \in Requests, NEW k \in Kinds, Request(i, k) PROVE FlagType'
    BY <2>1, Zenon DEF Request
  <2>2. CASE schedule_abort
    BY <2>2, Zenon DEF schedule_abort
  <2>3. CASE AbortTimeout
    BY <2>3, Zenon DEF AbortTimeout
  <2>4. CASE HungTimeout
    BY <2>4, Zenon DEF HungTimeout
  <2>. QED
    BY <1>2, <2>1, <2>2, <2>3, <2>4 DEF Pushes
<1>3. CASE Others
  BY <1>3, Zenon DEF Others, doom_txn, DoomMark, req_join, req_suspend
<1>4. CASE Commits
  <2>1. CASE CommitActive
    BY <2>1, Zenon DEF CommitActive
  <2>2. CASE prepare_branches
    BY <2>2, Zenon DEF prepare_branches
  <2>3. CASE state_change_prepare_helper
    BY <2>3, Zenon DEF state_change_prepare_helper
  <2>4. CASE CommitCommitting
    BY <2>4, Zenon DEF CommitCommitting
  <2>5. CASE state_change_commit_helper
    BY <2>5, Zenon DEF state_change_commit_helper, addHungTimerEvent
  <2>6. CASE CommitComplete
    BY <2>6, Zenon DEF CommitComplete
  <2>7. CASE CommitForgetting
    BY <2>7, Zenon DEF CommitForgetting
  <2>8. CASE CommitLeave
    BY <2>8, Zenon DEF CommitLeave
  <2>. QED
    BY <1>4, <2>1, <2>2, <2>3, <2>4, <2>5, <2>6, <2>7, <2>8 DEF Commits
<1>5. CASE Rollbacks
  <2>1. CASE RollbackAdvance
    BY <2>1, Zenon DEF RollbackAdvance
  <2>2. CASE rollback_branches
    BY <2>2, Zenon DEF rollback_branches
  <2>3. CASE state_change_abort_helper
    BY <2>3, Zenon DEF state_change_abort_helper, addHungTimerEvent
  <2>4. CASE RollbackLeave
    BY <2>4, Zenon DEF RollbackLeave
  <2>. QED
    BY <1>5, <2>1, <2>2, <2>3, <2>4 DEF Rollbacks
<1>6. CASE Ends
  <2>1. CASE req_end_complete
    BY <2>1, Zenon DEF req_end_complete
  <2>2. CASE EndReply
    BY <2>2, Zenon DEF EndReply
  <2>3. CASE req_abort_complete
    BY <2>3, Zenon DEF req_abort_complete
  <2>4. CASE req_forget
    BY <2>4, Zenon DEF req_forget
  <2>5. CASE disassociate
    BY <2>5, Zenon DEF disassociate
  <2>6. CASE Cleanup
    BY <2>6, Zenon DEF Cleanup
  <2>. QED
    BY <1>6, <2>1, <2>2, <2>3, <2>4, <2>5, <2>6 DEF Ends
<1>7. CASE UNCHANGED vars
  BY <1>7 DEF vars
<1>. QED
  BY <1>1, <1>2, <1>3, <1>4, <1>5, <1>6, <1>7, Cases

\* Every step keeps the types of the counters.
LEMMA CountStep ==
    ASSUME CountType, [Next]_vars
    PROVE  CountType'
<1> USE BoundAssumption DEF CountType, objVars, timerVars, appVars, rmVars, worker
<1>1. CASE Takes
  BY <1>1 DEF Takes, req_end, ForeignEnd, rollback_txn, redrivecommit_txn, Redrive,
     redriverollback_txn, req_registerRegion
<1>2. CASE Pushes
  <2>1. ASSUME NEW i \in Requests, NEW k \in Kinds, Request(i, k) PROVE CountType'
    BY <2>1 DEF Request
  <2>2. CASE schedule_abort
    BY <2>2 DEF schedule_abort
  <2>3. CASE AbortTimeout
    BY <2>3 DEF AbortTimeout
  <2>4. CASE HungTimeout
    BY <2>4 DEF HungTimeout
  <2>. QED
    BY <1>2, <2>1, <2>2, <2>3, <2>4 DEF Pushes
<1>3. CASE Others
  BY <1>3 DEF Others, doom_txn, DoomMark, req_join, req_suspend
<1>4. CASE Commits
  BY <1>4 DEF Commits, CommitActive, prepare_branches, state_change_prepare_helper,
     CommitCommitting, state_change_commit_helper, CommitComplete, CommitForgetting,
     CommitLeave
<1>5. CASE Rollbacks
  BY <1>5 DEF Rollbacks, RollbackAdvance, rollback_branches,
     state_change_abort_helper, RollbackLeave
<1>6. CASE Ends
  BY <1>6 DEF Ends, req_end_complete, EndReply, req_abort_complete, req_forget,
     disassociate, Cleanup
<1>7. CASE UNCHANGED vars
  BY <1>7 DEF vars
<1>. QED
  BY <1>1, <1>2, <1>3, <1>4, <1>5, <1>6, <1>7, Cases

\* Every step keeps the types of the state machine.
LEMMA ControlTypeStep ==
    ASSUME ControlType, ControlInv, [Next]_vars
    PROVE  ControlType'
<1> USE DEF ControlType, States, ControlInv, Driving, objVars, timerVars, appVars,
   rmVars, worker
<1>1. CASE Takes
  BY <1>1 DEF Takes, req_end, Take, ForeignEnd, rollback_txn, redrivecommit_txn,
     Redrive, redriverollback_txn, req_registerRegion
<1>2. CASE Pushes
  <2>1. ASSUME NEW i \in Requests, NEW k \in Kinds, Request(i, k) PROVE ControlType'
    BY <2>1 DEF Request
  <2>2. CASE schedule_abort
    BY <2>2 DEF schedule_abort
  <2>3. CASE AbortTimeout
    BY <2>3 DEF AbortTimeout
  <2>4. CASE HungTimeout
    BY <2>4 DEF HungTimeout
  <2>. QED
    BY <1>2, <2>1, <2>2, <2>3, <2>4 DEF Pushes
<1>3. CASE Others
  <2>1. CASE doom_txn
    BY <2>1 DEF doom_txn
  <2>2. CASE DoomMark
    BY <2>2 DEF DoomMark
  <2>3. CASE req_join
    BY <2>3 DEF req_join
  <2>4. CASE req_suspend
    BY <2>4 DEF req_suspend
  <2>. QED
    BY <1>3, <2>1, <2>2, <2>3, <2>4 DEF Others
<1>4. CASE Commits
  <2>1. CASE CommitActive
    BY <2>1 DEF CommitActive
  <2>2. CASE prepare_branches
    BY <2>2 DEF prepare_branches
  <2>3. CASE state_change_prepare_helper
    BY <2>3 DEF state_change_prepare_helper
  <2>4. CASE CommitCommitting
    BY <2>4 DEF CommitCommitting
  <2>5. CASE state_change_commit_helper
    BY <2>5 DEF state_change_commit_helper
  <2>6. CASE CommitComplete
    BY <2>6 DEF CommitComplete
  <2>7. CASE CommitForgetting
    BY <2>7 DEF CommitForgetting
  <2>8. CASE CommitLeave
    BY <2>8 DEF CommitLeave
  <2>. QED
    BY <1>4, <2>1, <2>2, <2>3, <2>4, <2>5, <2>6, <2>7, <2>8 DEF Commits
<1>5. CASE Rollbacks
  <2>1. CASE RollbackAdvance
    BY <2>1 DEF RollbackAdvance
  <2>2. CASE rollback_branches
    BY <2>2 DEF rollback_branches
  <2>3. CASE state_change_abort_helper
    BY <2>3 DEF state_change_abort_helper
  <2>4. CASE RollbackLeave
    BY <2>4 DEF RollbackLeave
  <2>. QED
    BY <1>5, <2>1, <2>2, <2>3, <2>4 DEF Rollbacks
<1>6. CASE Ends
  <2>1. CASE req_end_complete
    BY <2>1 DEF req_end_complete
  <2>2. CASE EndReply
    BY <2>2 DEF EndReply
  <2>3. CASE req_abort_complete
    BY <2>3 DEF req_abort_complete
  <2>4. CASE req_forget
    BY <2>4 DEF req_forget
  <2>5. CASE disassociate
    BY <2>5 DEF disassociate
  <2>6. CASE Cleanup
    BY <2>6 DEF Cleanup
  <2>. QED
    BY <1>6, <2>1, <2>2, <2>3, <2>4, <2>5, <2>6 DEF Ends
<1>7. CASE UNCHANGED vars
  BY <1>7 DEF vars
<1>. QED
  BY <1>1, <1>2, <1>3, <1>4, <1>5, <1>6, <1>7, Cases

\* Every step keeps the invariant of the control flow.
LEMMA ControlStep ==
    ASSUME FlagType, ControlType, CountType, ControlInv, [Next]_vars
    PROVE  ControlInv'
<1> USE DEF ControlType, CountType, States, ControlInv, Driving, Final, objVars,
   timerVars, appVars, rmVars, worker
<1>1. CASE Takes
  <2>1. CASE req_end
    BY <2>1 DEF req_end, Take
  <2>2. CASE ForeignEnd
    BY <2>2 DEF ForeignEnd, Take
  <2>3. CASE rollback_txn
    BY <2>3 DEF rollback_txn, Take, RollbackStates
  <2>4. CASE redrivecommit_txn
    BY <2>4 DEF redrivecommit_txn, Redrive, Take
  <2>5. CASE redriverollback_txn
    BY <2>5 DEF redriverollback_txn, Redrive, Take
  <2>6. CASE req_registerRegion
    BY <2>6 DEF req_registerRegion, Take
  <2>. QED
    BY <1>1, <2>1, <2>2, <2>3, <2>4, <2>5, <2>6 DEF Takes
<1>2. CASE Pushes
  <2>1. ASSUME NEW i \in Requests, NEW k \in Kinds, Request(i, k) PROVE ControlInv'
    BY <2>1 DEF Request
  <2>2. CASE schedule_abort
    BY <2>2 DEF schedule_abort
  <2>3. CASE AbortTimeout
    BY <2>3 DEF AbortTimeout
  <2>4. CASE HungTimeout
    BY <2>4 DEF HungTimeout
  <2>. QED
    BY <1>2, <2>1, <2>2, <2>3, <2>4 DEF Pushes
<1>3. CASE Others
  <2>1. CASE doom_txn
    BY <2>1 DEF doom_txn
  <2>2. CASE DoomMark
    BY <2>2 DEF DoomMark
  <2>3. CASE req_join
    BY <2>3 DEF req_join
  <2>4. CASE req_suspend
    BY <2>4 DEF req_suspend
  <2>. QED
    BY <1>3, <2>1, <2>2, <2>3, <2>4 DEF Others
<1>4. CASE Commits
  <2>1. CASE CommitActive
    BY <2>1 DEF CommitActive
  <2>2. CASE prepare_branches
    BY <2>2 DEF prepare_branches
  <2>3. CASE state_change_prepare_helper
    BY <2>3 DEF state_change_prepare_helper
  <2>4. CASE CommitCommitting
    BY <2>4 DEF CommitCommitting
  <2>5. CASE state_change_commit_helper
    BY <2>5 DEF state_change_commit_helper
  <2>6. CASE CommitComplete
    BY <2>6 DEF CommitComplete
  <2>7. CASE CommitForgetting
    BY <2>7 DEF CommitForgetting
  <2>8. CASE CommitLeave
    BY <2>8 DEF CommitLeave
  <2>. QED
    BY <1>4, <2>1, <2>2, <2>3, <2>4, <2>5, <2>6, <2>7, <2>8 DEF Commits
<1>5. CASE Rollbacks
  <2>1. CASE RollbackAdvance
    BY <2>1 DEF RollbackAdvance
  <2>2. CASE rollback_branches
    BY <2>2 DEF rollback_branches
  <2>3. CASE state_change_abort_helper
    BY <2>3 DEF state_change_abort_helper, addHungTimerEvent
  <2>4. CASE RollbackLeave
    BY <2>4 DEF RollbackLeave
  <2>. QED
    BY <1>5, <2>1, <2>2, <2>3, <2>4 DEF Rollbacks
<1>6. CASE Ends
  <2>1. CASE req_end_complete
    BY <2>1 DEF req_end_complete, isAborting, RollbackStates, CommitStates
  <2>2. CASE EndReply
    BY <2>2 DEF EndReply
  <2>3. CASE req_abort_complete
    BY <2>3 DEF req_abort_complete
  <2>4. CASE req_forget
    BY <2>4 DEF req_forget, Hung
  <2>5. CASE disassociate
    BY <2>5 DEF disassociate
  <2>6. CASE Cleanup
    BY <2>6 DEF Cleanup
  <2>. QED
    BY <1>6, <2>1, <2>2, <2>3, <2>4, <2>5, <2>6 DEF Ends
<1>7. CASE UNCHANGED vars
  BY <1>7 DEF vars
<1>. QED
  BY <1>1, <1>2, <1>3, <1>4, <1>5, <1>6, <1>7, Cases

\* Every step keeps the invariant of dooms and votes.
LEMMA DoomStep ==
    ASSUME FlagType, ControlType, ControlInv, DoomInv, [Next]_vars
    PROVE  DoomInv'
<1> USE DEF ControlType, DoomInv, DeathIsLateDoom, States, ControlInv, Driving,
   Final, objVars, timerVars, appVars, rmVars, worker
<1>1. CASE Takes
  <2>1. CASE req_end
    BY <2>1 DEF req_end, Take
  <2>2. CASE ForeignEnd
    BY <2>2 DEF ForeignEnd, Take
  <2>3. CASE rollback_txn
    BY <2>3 DEF rollback_txn, Take, RollbackStates
  <2>4. CASE redrivecommit_txn
    BY <2>4 DEF redrivecommit_txn, Redrive, Take
  <2>5. CASE redriverollback_txn
    BY <2>5 DEF redriverollback_txn, Redrive, Take
  <2>6. CASE req_registerRegion
    BY <2>6 DEF req_registerRegion, Take
  <2>. QED
    BY <1>1, <2>1, <2>2, <2>3, <2>4, <2>5, <2>6 DEF Takes
<1>2. CASE Pushes
  <2>1. ASSUME NEW i \in Requests, NEW k \in Kinds, Request(i, k) PROVE DoomInv'
    BY <2>1 DEF Request
  <2>2. CASE schedule_abort
    BY <2>2 DEF schedule_abort
  <2>3. CASE AbortTimeout
    BY <2>3 DEF AbortTimeout
  <2>4. CASE HungTimeout
    BY <2>4 DEF HungTimeout
  <2>. QED
    BY <1>2, <2>1, <2>2, <2>3, <2>4 DEF Pushes
<1>3. CASE Others
  <2>1. CASE doom_txn
    BY <2>1 DEF doom_txn
  <2>2. CASE DoomMark
    BY <2>2 DEF DoomMark
  <2>3. CASE req_join
    BY <2>3 DEF req_join
  <2>4. CASE req_suspend
    BY <2>4 DEF req_suspend
  <2>. QED
    BY <1>3, <2>1, <2>2, <2>3, <2>4 DEF Others
<1>4. CASE Commits
  <2>1. CASE CommitActive
    BY <2>1 DEF CommitActive
  <2>2. CASE prepare_branches
    BY <2>2 DEF prepare_branches
  <2>3. CASE state_change_prepare_helper
    <3>1. ~mark => (readOnly' <=> votes = "readonly")
      BY <2>3, Zenon DEF state_change_prepare_helper
    <3>2. readOnly' = readOnly \/ ~mark
      BY <2>3 DEF state_change_prepare_helper
    <3>. HIDE DEF DoomInv
    <3>. QED
      BY <2>3, <3>1, <3>2 DEF state_change_prepare_helper, DoomInv
  <2>4. CASE CommitCommitting
    BY <2>4 DEF CommitCommitting
  <2>5. CASE state_change_commit_helper
    BY <2>5 DEF state_change_commit_helper
  <2>6. CASE CommitComplete
    BY <2>6 DEF CommitComplete
  <2>7. CASE CommitForgetting
    BY <2>7 DEF CommitForgetting
  <2>8. CASE CommitLeave
    BY <2>8 DEF CommitLeave
  <2>. QED
    BY <1>4, <2>1, <2>2, <2>3, <2>4, <2>5, <2>6, <2>7, <2>8 DEF Commits
<1>5. CASE Rollbacks
  <2>1. CASE RollbackAdvance
    BY <2>1 DEF RollbackAdvance
  <2>2. CASE rollback_branches
    BY <2>2 DEF rollback_branches
  <2>3. CASE state_change_abort_helper
    BY <2>3 DEF state_change_abort_helper
  <2>4. CASE RollbackLeave
    BY <2>4 DEF RollbackLeave
  <2>. QED
    BY <1>5, <2>1, <2>2, <2>3, <2>4 DEF Rollbacks
<1>6. CASE Ends
  <2>1. CASE req_end_complete
    BY <2>1 DEF req_end_complete, isAborting, RollbackStates, CommitStates
  <2>2. CASE EndReply
    BY <2>2 DEF EndReply
  <2>3. CASE req_abort_complete
    BY <2>3 DEF req_abort_complete
  <2>4. CASE req_forget
    BY <2>4 DEF req_forget
  <2>5. CASE disassociate
    BY <2>5 DEF disassociate
  <2>6. CASE Cleanup
    BY <2>6 DEF Cleanup
  <2>. QED
    BY <1>6, <2>1, <2>2, <2>3, <2>4, <2>5, <2>6 DEF Ends
<1>7. CASE UNCHANGED vars
  BY <1>7 DEF vars
<1>. QED
  BY <1>1, <1>2, <1>3, <1>4, <1>5, <1>6, <1>7, Cases

\* Taking a message shifts the queue by one.
LEMMA TakeFacts ==
    ASSUME QueueType, NEW m, NEW p, NEW next, Take(m, p, next)
    PROVE  /\ m \in Message /\ msg' = m /\ m = eventQ[1] /\ eventQ' \in Seq(Message)
           /\ 1 \in 1 .. Len(eventQ)
           /\ \A n \in 1 .. Len(eventQ') : n + 1 \in 1 .. Len(eventQ) /\ eventQ'[n] = eventQ[n + 1]
  BY DEF Take, QueueType

\* Adding a message leaves the others where they are.
LEMMA PushFacts ==
    ASSUME QueueType, NEW m \in Message, queueToTransaction(m)
    PROVE  /\ eventQ' \in Seq(Message)
           /\ \A n \in 1 .. Len(eventQ') :
                 \/ n \in 1 .. Len(eventQ) /\ eventQ'[n] = eventQ[n]
                 \/ n = Len(eventQ) + 1 /\ eventQ'[n] = m /\ txn_object_good
  BY DEF queueToTransaction, QueueType

\* The TM's own messages are messages.
LEMMA InternalMessage ==
    \A type \in Internal :
        LET m == [type |-> type, id |-> 0] IN m \in Message /\ m.type \in Internal /\ m.id = 0
  BY BoundAssumption DEF Message

\* Reply answers the request being served, unless it has an answer.
LEMMA ReplyFacts ==
    ASSUME QueueType, AnswerType, NEW code \in Codes, Reply(code)
    PROVE  /\ answer' \in [Requests -> Codes \cup {"none"}]
           /\ \A i \in Requests : answer'[i] # answer[i] =>
                 i = msg.id /\ answer[i] = "none" /\ answer'[i] = code
           /\ msg.id \in Requests => answer'[msg.id] # "none"
<1>1. "none" \notin Codes
  BY DEF Codes
<1>. QED
  BY <1>1 DEF Reply, QueueType, AnswerType, Message, NoMsg, Requests

\* What MessageInv says of queued messages and of the one served.
LEMMA MessageFacts ==
    ASSUME QueueType, MessageInv
    PROVE  /\ \A n \in 1 .. Len(eventQ) :
                 /\ eventQ[n] \in Message
                 /\ eventQ[n].id # 0 =>
                       /\ eventQ[n].id \in Requests
                       /\ kind[eventQ[n].id] = eventQ[n].type
                       /\ kind[eventQ[n].id] # "none"
           /\ msg.id # 0 => msg.id \in Requests /\ kind[msg.id] = msg.type /\ kind[msg.id] # "none"
<1>1. \A n \in 1 .. Len(eventQ) : eventQ[n] \in Message
  BY DEF QueueType
<1> USE DEF MessageInv, Sound, Message, Kinds, Internal, QueueType
<1>2. \A n \in 1 .. Len(eventQ) : eventQ[n].id # 0 =>
                       /\ eventQ[n].id \in Requests
                       /\ kind[eventQ[n].id] = eventQ[n].type
                       /\ kind[eventQ[n].id] # "none"
  BY <1>1
<1>3. msg.id # 0 => msg.id \in Requests /\ kind[msg.id] = msg.type /\ kind[msg.id] # "none"
  BY DEF NoMsg
<1>. QED
  BY <1>1, <1>2, <1>3

\* Taking a message keeps MessageInv.
LEMMA MessageTake ==
    ASSUME QueueType, MessageInv, NEW m, NEW p, NEW next, Take(m, p, next), UNCHANGED kind,
           \A i \in Requests : answer'[i] # answer[i] => i = m.id
    PROVE  MessageInv'
<1> USE DEF MessageInv, Sound, Queued, QueueType
<1>1. /\ m \in Message /\ msg' = m /\ m = eventQ[1] /\ eventQ' \in Seq(Message)
      /\ 1 \in 1 .. Len(eventQ)
      /\ \A n \in 1 .. Len(eventQ') : n + 1 \in 1 .. Len(eventQ) /\ eventQ'[n] = eventQ[n + 1]
  BY TakeFacts
<1>2. Len(eventQ') \in Nat /\ Len(eventQ) \in Nat
  BY <1>1
<1>3. Sound(msg)'
  BY <1>1
<1>4. \A i \in Requests : kind'[i] = "none" => answer'[i] = "none"
  BY <1>1 DEF Message, Kinds, Internal, Requests
<1>5. \A n \in 1 .. Len(eventQ') : Sound(eventQ[n])'
  BY <1>1, <1>2
<1>6. \A n \in 1 .. Len(eventQ') : eventQ'[n].id # m.id \/ m.id = 0
  BY <1>1, <1>2
<1>7. \A n \in 1 .. Len(eventQ') : eventQ'[n].id # 0 => answer'[eventQ'[n].id] = "none"
  <2> SUFFICES ASSUME NEW n \in 1 .. Len(eventQ'), eventQ'[n].id # 0
               PROVE  answer'[eventQ'[n].id] = "none"
    OBVIOUS
  <2>1. n + 1 \in 1 .. Len(eventQ) /\ eventQ'[n] = eventQ[n + 1]
    BY <1>1
  <2>2. eventQ[n + 1] \in Message /\ answer[eventQ[n + 1].id] = "none"
    BY <2>1
  <2>. QED
    BY <1>6, <2>1, <2>2 DEF Message, Requests, Kinds, Internal
<1>8. \A n, k \in 1 .. Len(eventQ') : eventQ'[n].id = eventQ'[k].id /\ eventQ'[n].id # 0 => n = k
  <2> SUFFICES ASSUME NEW n \in 1 .. Len(eventQ'), NEW k \in 1 .. Len(eventQ'),
                      eventQ'[n].id = eventQ'[k].id, eventQ'[n].id # 0
               PROVE  n = k
    OBVIOUS
  <2>1. /\ n + 1 \in 1 .. Len(eventQ) /\ eventQ'[n] = eventQ[n + 1]
        /\ k + 1 \in 1 .. Len(eventQ) /\ eventQ'[k] = eventQ[k + 1]
    BY <1>1
  <2>2. n + 1 = k + 1
    BY <2>1
  <2>. QED
    BY <2>2, <1>2
<1>. QED
  BY <1>1, <1>3, <1>4, <1>5, <1>6, <1>7, <1>8

\* A step that leaves the queue alone and answers the request being served
\* keeps MessageInv.
LEMMA MessageFrame ==
    ASSUME QueueType, MessageInv, UNCHANGED <<kind, eventQ>>, msg' \in {msg, NoMsg},
           \A i \in Requests : answer'[i] # answer[i] => i = msg.id
    PROVE  MessageInv'
<1> USE DEF MessageInv, Sound, Queued, QueueType
<1>1. msg \in Message => msg.id \in 0 .. MaxRequests /\ (msg.id # 0 => kind[msg.id] # "none")
  BY DEF Message, Kinds, Internal, Requests
<1>2. \A i \in Requests : kind[i] = "none" => answer'[i] = "none"
  BY <1>1, BoundAssumption DEF NoMsg, Requests
<1>3. \A n \in 1 .. Len(eventQ) : eventQ[n].id # 0 => answer'[eventQ[n].id] = "none"
  <2> SUFFICES ASSUME NEW n \in 1 .. Len(eventQ), eventQ[n].id # 0
               PROVE  answer'[eventQ[n].id] = "none"
    OBVIOUS
  <2>1. eventQ[n].id \in Requests /\ eventQ[n].id # msg.id
    BY MessageFacts
  <2>. QED
    BY <2>1
<1>4. Sound(msg)' /\ (msg'.id # 0 => ~Queued(msg.id)')
  BY DEF NoMsg, Kinds, Internal
<1>. QED
  BY <1>2, <1>3, <1>4

\* Adding a message of the TM itself keeps MessageInv.
LEMMA MessagePush ==
    ASSUME QueueType, MessageInv, NEW m \in Message, queueToTransaction(m), m.id = 0,
           m.type \in Internal, UNCHANGED <<kind, answer, msg>>
    PROVE  MessageInv'
<1> USE DEF MessageInv, Sound, Queued, QueueType
<1>1. /\ eventQ' \in Seq(Message)
      /\ \A n \in 1 .. Len(eventQ') :
            \/ n \in 1 .. Len(eventQ) /\ eventQ'[n] = eventQ[n]
            \/ n = Len(eventQ) + 1 /\ eventQ'[n] = m /\ txn_object_good
  BY PushFacts
<1>2. \A n \in 1 .. Len(eventQ') :
            /\ Sound(eventQ[n])'
            /\ eventQ'[n].id # 0 => answer'[eventQ'[n].id] = "none"
  <2> SUFFICES ASSUME NEW n \in 1 .. Len(eventQ')
               PROVE  /\ Sound(eventQ[n])'
                      /\ eventQ'[n].id # 0 => answer'[eventQ'[n].id] = "none"
    OBVIOUS
  <2>1. CASE n \in 1 .. Len(eventQ) /\ eventQ'[n] = eventQ[n]
    BY <2>1
  <2>2. CASE eventQ'[n] = m
    BY <2>2 DEF Kinds, Internal
  <2>. QED
    BY <1>1, <2>1, <2>2
<1>3. \A n, k \in 1 .. Len(eventQ') : eventQ'[n].id = eventQ'[k].id /\ eventQ'[n].id # 0 => n = k
  BY <1>1
<1>. QED
  BY <1>1, <1>2, <1>3

\* A new request keeps MessageInv.
LEMMA MessageRequest ==
    ASSUME QueueType, AnswerType, MessageInv, NEW i \in Requests, NEW k \in Kinds, Request(i, k)
    PROVE  MessageInv'
<1> USE DEF MessageInv, Sound, Queued, QueueType, AnswerType
<1> DEFINE m == [type |-> k, id |-> i]
<1>1. m \in Message
  BY DEF Message, Requests
<1>2. /\ eventQ' \in Seq(Message)
      /\ \A n \in 1 .. Len(eventQ') :
            \/ n \in 1 .. Len(eventQ) /\ eventQ'[n] = eventQ[n]
            \/ n = Len(eventQ) + 1 /\ eventQ'[n] = m /\ txn_object_good
  BY <1>1, PushFacts DEF Request
<1>3. /\ kind[i] = "none" /\ kind' = [kind EXCEPT ![i] = k] /\ msg' = msg /\ answer[i] = "none"
      /\ answer' = IF txn_object_good THEN answer ELSE [answer EXCEPT ![i] = "FEINVTRANSID"]
  BY DEF Request, worker
<1>. i # 0
  BY DEF Requests
<1>4. \A n \in 1 .. Len(eventQ) : eventQ[n].id # i
  BY <1>3, MessageFacts
<1>5. msg.id # i
  BY <1>3, MessageFacts DEF Requests
<1>6. \A j \in Requests : kind'[j] = "none" => answer'[j] = "none"
  BY <1>3 DEF Kinds
<1>7. \A n \in 1 .. Len(eventQ') : Sound(eventQ[n])'
  <2> SUFFICES ASSUME NEW n \in 1 .. Len(eventQ') PROVE Sound(eventQ[n])'
    OBVIOUS
  <2>1. CASE n \in 1 .. Len(eventQ) /\ eventQ'[n] = eventQ[n]
    BY <1>3, <1>4, <2>1
  <2>2. CASE eventQ'[n] = m
    BY <1>3, <2>2 DEF Kinds, Internal
  <2>. QED
    BY <1>2, <2>1, <2>2
<1>8. \A n \in 1 .. Len(eventQ') : eventQ'[n].id # 0 => answer'[eventQ'[n].id] = "none"
  <2> SUFFICES ASSUME NEW n \in 1 .. Len(eventQ'), eventQ'[n].id # 0
               PROVE  answer'[eventQ'[n].id] = "none"
    OBVIOUS
  <2>1. CASE n \in 1 .. Len(eventQ) /\ eventQ'[n] = eventQ[n]
    BY <1>3, <1>4, <2>1
  <2>2. CASE eventQ'[n] = m /\ txn_object_good
    BY <1>3, <2>2
  <2>. QED
    BY <1>2, <2>1, <2>2
<1>9. \A n, j \in 1 .. Len(eventQ') : eventQ'[n].id = eventQ'[j].id /\ eventQ'[n].id # 0 => n = j
  <2> SUFFICES ASSUME NEW n \in 1 .. Len(eventQ'), NEW j \in 1 .. Len(eventQ'),
                      eventQ'[n].id = eventQ'[j].id, eventQ'[n].id # 0
               PROVE  n = j
    OBVIOUS
  <2>1. CASE eventQ'[n].id = i
    BY <1>2, <1>4, <2>1
  <2>2. CASE eventQ'[n].id # i
    <3>1. /\ n \in 1 .. Len(eventQ) /\ eventQ'[n] = eventQ[n]
          /\ j \in 1 .. Len(eventQ) /\ eventQ'[j] = eventQ[j]
      BY <1>2, <2>2
    <3>. QED
      BY <3>1
  <2>. QED
    BY <2>1, <2>2
<1>10. Sound(msg)'
  BY <1>3, <1>5
<1>11. msg'.id # 0 => ~Queued(msg.id)'
  BY <1>2, <1>3, <1>5
<1>. QED
  BY <1>6, <1>7, <1>8, <1>9, <1>10, <1>11

\* Every step keeps the types of the answers.
LEMMA AnswerTypeStep ==
    ASSUME QueueType, AnswerType, [Next]_vars
    PROVE  AnswerType'
<1> USE DEF AnswerType, Codes, objVars, timerVars, appVars, rmVars, worker
<1>1. CASE Takes
  <2>1. CASE req_end
    BY <2>1 DEF req_end, Take
  <2>2. CASE ForeignEnd
    BY <2>2 DEF ForeignEnd, Take
  <2>3. CASE rollback_txn
    BY <2>3 DEF rollback_txn, Take
  <2>4. CASE redrivecommit_txn
    BY <2>4 DEF redrivecommit_txn, Redrive, Take
  <2>5. CASE redriverollback_txn
    BY <2>5 DEF redriverollback_txn, Redrive, Take
  <2>6. CASE req_registerRegion
    BY <2>6 DEF req_registerRegion, Take
  <2>. QED
    BY <1>1, <2>1, <2>2, <2>3, <2>4, <2>5, <2>6 DEF Takes
<1>2. CASE Pushes
  <2>1. ASSUME NEW i \in Requests, NEW k \in Kinds, Request(i, k) PROVE AnswerType'
    BY <2>1 DEF Request
  <2>2. CASE schedule_abort
    BY <2>2 DEF schedule_abort
  <2>3. CASE AbortTimeout
    BY <2>3 DEF AbortTimeout
  <2>4. CASE HungTimeout
    BY <2>4 DEF HungTimeout
  <2>. QED
    BY <1>2, <2>1, <2>2, <2>3, <2>4 DEF Pushes
<1>3. CASE Others
  BY <1>3 DEF Others, doom_txn, DoomMark, req_join, req_suspend
<1>4. CASE Commits
  <2>1. CASE CommitActive
    BY <2>1, ReplyFacts DEF CommitActive
  <2>2. CASE prepare_branches
    BY <2>2 DEF prepare_branches
  <2>3. CASE state_change_prepare_helper
    BY <2>3 DEF state_change_prepare_helper
  <2>4. CASE CommitCommitting
    BY <2>4 DEF CommitCommitting
  <2>5. CASE state_change_commit_helper
    BY <2>5, ReplyFacts DEF state_change_commit_helper
  <2>6. CASE CommitComplete
    BY <2>6 DEF CommitComplete
  <2>7. CASE CommitForgetting
    BY <2>7 DEF CommitForgetting
  <2>8. CASE CommitLeave
    BY <2>8 DEF CommitLeave
  <2>. QED
    BY <1>4, <2>1, <2>2, <2>3, <2>4, <2>5, <2>6, <2>7, <2>8 DEF Commits
<1>5. CASE Rollbacks
  <2>1. CASE RollbackAdvance
    BY <2>1 DEF RollbackAdvance
  <2>2. CASE rollback_branches
    BY <2>2, ReplyFacts DEF rollback_branches
  <2>3. CASE state_change_abort_helper
    BY <2>3 DEF state_change_abort_helper
  <2>4. CASE RollbackLeave
    BY <2>4 DEF RollbackLeave
  <2>. QED
    BY <1>5, <2>1, <2>2, <2>3, <2>4 DEF Rollbacks
<1>6. CASE Ends
  <2>1. CASE req_end_complete
    BY <2>1 DEF req_end_complete
  <2>2. CASE EndReply
    BY <2>2, ReplyFacts DEF EndReply
  <2>3. CASE req_abort_complete
    BY <2>3, ReplyFacts DEF req_abort_complete
  <2>4. CASE req_forget
    BY <2>4 DEF req_forget
  <2>5. CASE disassociate
    BY <2>5 DEF disassociate
  <2>6. CASE Cleanup
    BY <2>6 DEF Cleanup
  <2>. QED
    BY <1>6, <2>1, <2>2, <2>3, <2>4, <2>5, <2>6 DEF Ends
<1>7. CASE UNCHANGED vars
  BY <1>7 DEF vars
<1>. QED
  BY <1>1, <1>2, <1>3, <1>4, <1>5, <1>6, <1>7, Cases

\* Every step keeps the types of requests and messages.
LEMMA QueueTypeStep ==
    ASSUME QueueType, [Next]_vars
    PROVE  QueueType'
<1> USE BoundAssumption DEF QueueType, objVars, timerVars, appVars, rmVars, worker
<1>1. CASE Takes
  <2>1. CASE req_end
    BY <2>1, TakeFacts DEF req_end
  <2>2. CASE ForeignEnd
    BY <2>2, TakeFacts DEF ForeignEnd
  <2>3. CASE rollback_txn
    BY <2>3, TakeFacts DEF rollback_txn
  <2>4. CASE redrivecommit_txn
    BY <2>4, TakeFacts DEF redrivecommit_txn, Redrive
  <2>5. CASE redriverollback_txn
    BY <2>5, TakeFacts DEF redriverollback_txn, Redrive
  <2>6. CASE req_registerRegion
    BY <2>6, TakeFacts DEF req_registerRegion
  <2>. QED
    BY <1>1, <2>1, <2>2, <2>3, <2>4, <2>5, <2>6 DEF Takes
<1>2. CASE Pushes
  <2>1. ASSUME NEW i \in Requests, NEW k \in Kinds, Request(i, k) PROVE QueueType'
    <3>1. [type |-> k, id |-> i] \in Message
      BY DEF Message, Requests
    <3>. QED
      BY <2>1, <3>1, PushFacts DEF Request
  <2>2. CASE schedule_abort
    <3>1. "ROLLBACK" \in Internal /\ queueToTransaction([type |-> "ROLLBACK", id |-> 0])
      BY <2>2 DEF schedule_abort, Internal, QueueType
    <3>. QED
      BY <2>2, <3>1, InternalMessage, PushFacts DEF schedule_abort
  <2>3. CASE AbortTimeout
    <3>1. "ROLLBACK" \in Internal /\ queueToTransaction([type |-> "ROLLBACK", id |-> 0])
      BY <2>3 DEF AbortTimeout, Internal, QueueType
    <3>. QED
      BY <2>3, <3>1, InternalMessage, PushFacts DEF AbortTimeout
  <2>4. CASE HungTimeout
    <3>1. hungTimer \in Internal /\ queueToTransaction([type |-> hungTimer, id |-> 0])
      BY <2>4 DEF HungTimeout, Internal, QueueType
    <3>. QED
      BY <2>4, <3>1, InternalMessage, PushFacts DEF HungTimeout
  <2>. QED
    BY <1>2, <2>1, <2>2, <2>3, <2>4 DEF Pushes
<1>3. CASE Others
  BY <1>3 DEF Others, doom_txn, DoomMark, req_join, req_suspend
<1>4. CASE Commits
  <2>1. CASE CommitActive
    BY <2>1 DEF CommitActive
  <2>2. CASE prepare_branches
    BY <2>2 DEF prepare_branches
  <2>3. CASE state_change_prepare_helper
    BY <2>3 DEF state_change_prepare_helper
  <2>4. CASE CommitCommitting
    BY <2>4 DEF CommitCommitting
  <2>5. CASE state_change_commit_helper
    BY <2>5 DEF state_change_commit_helper, addHungTimerEvent
  <2>6. CASE CommitComplete
    BY <2>6 DEF CommitComplete
  <2>7. CASE CommitForgetting
    BY <2>7 DEF CommitForgetting
  <2>8. CASE CommitLeave
    BY <2>8 DEF CommitLeave
  <2>. QED
    BY <1>4, <2>1, <2>2, <2>3, <2>4, <2>5, <2>6, <2>7, <2>8 DEF Commits
<1>5. CASE Rollbacks
  <2>1. CASE RollbackAdvance
    BY <2>1 DEF RollbackAdvance
  <2>2. CASE rollback_branches
    BY <2>2 DEF rollback_branches
  <2>3. CASE state_change_abort_helper
    BY <2>3 DEF state_change_abort_helper, addHungTimerEvent
  <2>4. CASE RollbackLeave
    BY <2>4 DEF RollbackLeave
  <2>. QED
    BY <1>5, <2>1, <2>2, <2>3, <2>4 DEF Rollbacks
<1>6. CASE Ends
  <2>1. CASE req_end_complete
    BY <2>1 DEF req_end_complete
  <2>2. CASE EndReply
    BY <2>2 DEF EndReply
  <2>3. CASE req_abort_complete
    BY <2>3 DEF req_abort_complete
  <2>4. CASE req_forget
    BY <2>4 DEF req_forget
  <2>5. CASE disassociate
    BY <2>5 DEF disassociate
  <2>6. CASE Cleanup
    BY <2>6 DEF Cleanup
  <2>. QED
    BY <1>6, <2>1, <2>2, <2>3, <2>4, <2>5, <2>6 DEF Ends
<1>7. CASE UNCHANGED vars
  BY <1>7 DEF vars
<1>. QED
  BY <1>1, <1>2, <1>3, <1>4, <1>5, <1>6, <1>7, Cases

\* Every step keeps MessageInv.
LEMMA MessageStep ==
    ASSUME QueueType, AnswerType, MessageInv, [Next]_vars
    PROVE  MessageInv'
<1> USE DEF objVars, timerVars, appVars, rmVars, worker
<1>1. CASE Takes
  <2>1. CASE req_end
    BY <2>1, MessageTake DEF req_end, appVars, AnswerType
  <2>2. CASE ForeignEnd
    BY <2>2, MessageTake DEF ForeignEnd, appVars, AnswerType
  <2>3. CASE rollback_txn
    BY <2>3, MessageTake DEF rollback_txn, appVars, AnswerType
  <2>4. CASE redrivecommit_txn
    BY <2>4, MessageTake DEF redrivecommit_txn, Redrive, appVars, AnswerType
  <2>5. CASE redriverollback_txn
    BY <2>5, MessageTake DEF redriverollback_txn, Redrive, appVars, AnswerType
  <2>6. CASE req_registerRegion
    BY <2>6, MessageTake DEF req_registerRegion, appVars, AnswerType
  <2>. QED
    BY <1>1, <2>1, <2>2, <2>3, <2>4, <2>5, <2>6 DEF Takes
<1>2. CASE Pushes
  <2>1. ASSUME NEW i \in Requests, NEW k \in Kinds, Request(i, k) PROVE MessageInv'
    BY <2>1, MessageRequest
  <2>2. CASE schedule_abort
    <3>1. "ROLLBACK" \in Internal /\ queueToTransaction([type |-> "ROLLBACK", id |-> 0])
      BY <2>2 DEF schedule_abort, Internal, QueueType
    <3>. QED
      BY <2>2, <3>1, InternalMessage, MessagePush DEF schedule_abort
  <2>3. CASE AbortTimeout
    <3>1. "ROLLBACK" \in Internal /\ queueToTransaction([type |-> "ROLLBACK", id |-> 0])
      BY <2>3 DEF AbortTimeout, Internal, QueueType
    <3>. QED
      BY <2>3, <3>1, InternalMessage, MessagePush DEF AbortTimeout
  <2>4. CASE HungTimeout
    <3>1. hungTimer \in Internal /\ queueToTransaction([type |-> hungTimer, id |-> 0])
      BY <2>4 DEF HungTimeout, Internal, QueueType
    <3>. QED
      BY <2>4, <3>1, InternalMessage, MessagePush DEF HungTimeout
  <2>. QED
    BY <1>2, <2>1, <2>2, <2>3, <2>4 DEF Pushes
<1>3. CASE Others
  <2>1. CASE doom_txn
    BY <2>1, MessageFrame DEF doom_txn
  <2>2. CASE DoomMark
    BY <2>2, MessageFrame DEF DoomMark
  <2>3. CASE req_join
    BY <2>3, MessageFrame DEF req_join
  <2>4. CASE req_suspend
    BY <2>4, MessageFrame DEF req_suspend
  <2>. QED
    BY <1>3, <2>1, <2>2, <2>3, <2>4 DEF Others
<1>4. CASE Commits
  <2>1. CASE CommitActive
    BY <2>1, MessageFrame, ReplyFacts DEF CommitActive, Codes, AnswerType
  <2>2. CASE prepare_branches
    BY <2>2, MessageFrame DEF prepare_branches
  <2>3. CASE state_change_prepare_helper
    BY <2>3, MessageFrame DEF state_change_prepare_helper
  <2>4. CASE CommitCommitting
    BY <2>4, MessageFrame DEF CommitCommitting
  <2>5. CASE state_change_commit_helper
    BY <2>5, MessageFrame, ReplyFacts DEF state_change_commit_helper, Codes, AnswerType
  <2>6. CASE CommitComplete
    BY <2>6, MessageFrame DEF CommitComplete
  <2>7. CASE CommitForgetting
    BY <2>7, MessageFrame DEF CommitForgetting
  <2>8. CASE CommitLeave
    BY <2>8, MessageFrame DEF CommitLeave
  <2>. QED
    BY <1>4, <2>1, <2>2, <2>3, <2>4, <2>5, <2>6, <2>7, <2>8 DEF Commits
<1>5. CASE Rollbacks
  <2>1. CASE RollbackAdvance
    BY <2>1, MessageFrame DEF RollbackAdvance
  <2>2. CASE rollback_branches
    BY <2>2, MessageFrame, ReplyFacts DEF rollback_branches, Codes, AnswerType
  <2>3. CASE state_change_abort_helper
    BY <2>3, MessageFrame DEF state_change_abort_helper
  <2>4. CASE RollbackLeave
    BY <2>4, MessageFrame DEF RollbackLeave
  <2>. QED
    BY <1>5, <2>1, <2>2, <2>3, <2>4 DEF Rollbacks
<1>6. CASE Ends
  <2>1. CASE req_end_complete
    BY <2>1, MessageFrame DEF req_end_complete
  <2>2. CASE EndReply
    BY <2>2, MessageFrame, ReplyFacts DEF EndReply, Codes, AnswerType
  <2>3. CASE req_abort_complete
    BY <2>3, MessageFrame, ReplyFacts DEF req_abort_complete, Codes, AnswerType
  <2>4. CASE req_forget
    BY <2>4, MessageFrame DEF req_forget
  <2>5. CASE disassociate
    BY <2>5, MessageFrame DEF disassociate
  <2>6. CASE Cleanup
    BY <2>6, MessageFrame DEF Cleanup
  <2>. QED
    BY <1>6, <2>1, <2>2, <2>3, <2>4, <2>5, <2>6 DEF Ends
<1>7. CASE UNCHANGED vars
  BY <1>7, MessageFrame DEF vars
<1>. QED
  BY <1>1, <1>2, <1>3, <1>4, <1>5, <1>6, <1>7, Cases

\* Only Request sends requests.
LEMMA Unasked ==
    ASSUME [Next]_vars, kind' # kind
    PROVE  \E i \in Requests, k \in Kinds : Request(i, k)
<1> USE DEF objVars, timerVars, appVars, rmVars, worker
<1>2. CASE Takes
  BY <1>2 DEF Takes, req_end, ForeignEnd, rollback_txn, redrivecommit_txn,
     redriverollback_txn, req_registerRegion, Redrive
<1>3. CASE schedule_abort \/ AbortTimeout \/ HungTimeout \/ Others
  BY <1>3 DEF schedule_abort, AbortTimeout, HungTimeout, Others, doom_txn, DoomMark,
     req_join, req_suspend
<1>4. CASE Commits
  BY <1>4 DEF Commits, CommitActive, prepare_branches, state_change_prepare_helper,
     CommitCommitting, state_change_commit_helper, CommitComplete, CommitForgetting,
     CommitLeave
<1>5. CASE Rollbacks \/ Ends
  BY <1>5 DEF Rollbacks, RollbackAdvance, rollback_branches, state_change_abort_helper,
     RollbackLeave, Ends, req_end_complete, EndReply, req_abort_complete, req_forget,
     disassociate, Cleanup
<1>6. CASE UNCHANGED vars
  BY <1>6 DEF vars
<1>. QED
  BY <1>2, <1>3, <1>4, <1>5, <1>6, Cases DEF Pushes

\* A request keeps its kind.
LEMMA KindStep ==
    ASSUME QueueType, [Next]_vars
    PROVE  \A i \in Requests : kind[i] # "none" => kind'[i] = kind[i]
  BY Unasked DEF Request, QueueType

\* A request that is taken from the queue has no answer yet.
LEMMA TakenFacts ==
    ASSUME QueueType, MessageInv, NEW m, NEW p, NEW next, Take(m, p, next)
    PROVE  m.id # 0 => m.id \in Requests /\ Queued(m.id) /\ answer[m.id] = "none"
<1>1. m = eventQ[1] /\ 1 \in 1 .. Len(eventQ)
  BY TakeFacts
<1>2. m.id # 0 => m.id \in Requests
  BY <1>1, MessageFacts
<1>3. m.id # 0 => Queued(m.id)
  BY <1>1 DEF Queued
<1>4. m.id # 0 => answer[m.id] = "none"
  BY <1>1 DEF MessageInv
<1>. QED
  BY <1>2, <1>3, <1>4

\* An answer is given once, and FEJOINS only to a request that waits in the
\* queue.
AnswerOnce ==
    \A i \in Requests : answer'[i] # answer[i] =>
        answer[i] = "none" /\ (answer'[i] = "FEJOINS" => Queued(i))

\* Every step gives answers as AnswerOnce says.
LEMMA AnswerStep ==
    ASSUME QueueType, AnswerType, MessageInv, [Next]_vars
    PROVE  AnswerOnce
<1> USE DEF AnswerOnce, QueueType, AnswerType, objVars, timerVars, appVars, rmVars,
   worker
<1>1. CASE Takes
  <2>1. CASE req_end
    <3> DEFINE m == Head(eventQ)
    <3>1. PICK p, next : Take(m, p, next)
      BY <2>1 DEF req_end
    <3>2. m.id # 0 => m.id \in Requests /\ Queued(m.id) /\ answer[m.id] = "none"
      BY <3>1, TakenFacts
    <3>3. answer' = answer \/ \E c \in Codes : answer' = [answer EXCEPT ![m.id] = c]
      BY <2>1 DEF req_end, Codes
    <3>4. \A i \in Requests : i # 0
      BY DEF Requests
    <3>. QED
      BY <3>2, <3>3, <3>4
  <2>2. CASE ForeignEnd
    BY <2>2, TakenFacts DEF ForeignEnd
  <2>3. CASE rollback_txn
    BY <2>3, TakenFacts DEF rollback_txn
  <2>4. CASE redrivecommit_txn
    BY <2>4, TakenFacts DEF redrivecommit_txn, Redrive
  <2>5. CASE redriverollback_txn
    BY <2>5, TakenFacts DEF redriverollback_txn, Redrive
  <2>6. CASE req_registerRegion
    BY <2>6, TakenFacts DEF req_registerRegion
  <2>. QED
    BY <1>1, <2>1, <2>2, <2>3, <2>4, <2>5, <2>6 DEF Takes
<1>2. CASE Pushes
  <2>1. ASSUME NEW i \in Requests, NEW k \in Kinds, Request(i, k) PROVE AnswerOnce
    BY <2>1 DEF Request, MessageInv
  <2>2. CASE schedule_abort
    BY <2>2 DEF schedule_abort
  <2>3. CASE AbortTimeout
    BY <2>3 DEF AbortTimeout
  <2>4. CASE HungTimeout
    BY <2>4 DEF HungTimeout
  <2>. QED
    BY <1>2, <2>1, <2>2, <2>3, <2>4 DEF Pushes
<1>3. CASE Others
  <2>1. CASE doom_txn
    BY <2>1 DEF doom_txn
  <2>2. CASE DoomMark
    BY <2>2 DEF DoomMark
  <2>3. CASE req_join
    BY <2>3 DEF req_join
  <2>4. CASE req_suspend
    BY <2>4 DEF req_suspend
  <2>. QED
    BY <1>3, <2>1, <2>2, <2>3, <2>4 DEF Others
<1>4. CASE Commits
  <2>1. CASE CommitActive
    BY <2>1, ReplyFacts DEF CommitActive, Codes
  <2>2. CASE prepare_branches
    BY <2>2 DEF prepare_branches
  <2>3. CASE state_change_prepare_helper
    BY <2>3 DEF state_change_prepare_helper
  <2>4. CASE CommitCommitting
    BY <2>4 DEF CommitCommitting
  <2>5. CASE state_change_commit_helper
    BY <2>5, ReplyFacts DEF state_change_commit_helper, Codes
  <2>6. CASE CommitComplete
    BY <2>6 DEF CommitComplete
  <2>7. CASE CommitForgetting
    BY <2>7 DEF CommitForgetting
  <2>8. CASE CommitLeave
    BY <2>8 DEF CommitLeave
  <2>. QED
    BY <1>4, <2>1, <2>2, <2>3, <2>4, <2>5, <2>6, <2>7, <2>8 DEF Commits
<1>5. CASE Rollbacks
  <2>1. CASE RollbackAdvance
    BY <2>1 DEF RollbackAdvance
  <2>2. CASE rollback_branches
    BY <2>2, ReplyFacts DEF rollback_branches, Codes
  <2>3. CASE state_change_abort_helper
    BY <2>3 DEF state_change_abort_helper
  <2>4. CASE RollbackLeave
    BY <2>4 DEF RollbackLeave
  <2>. QED
    BY <1>5, <2>1, <2>2, <2>3, <2>4 DEF Rollbacks
<1>6. CASE Ends
  <2>1. CASE req_end_complete
    BY <2>1 DEF req_end_complete
  <2>2. CASE EndReply
    BY <2>2, ReplyFacts DEF EndReply, Codes
  <2>3. CASE req_abort_complete
    BY <2>3, ReplyFacts DEF req_abort_complete, Codes
  <2>4. CASE req_forget
    BY <2>4 DEF req_forget
  <2>5. CASE disassociate
    BY <2>5 DEF disassociate
  <2>6. CASE Cleanup
    BY <2>6 DEF Cleanup
  <2>. QED
    BY <1>6, <2>1, <2>2, <2>3, <2>4, <2>5, <2>6 DEF Ends
<1>7. CASE UNCHANGED vars
  BY <1>7 DEF vars
<1>. QED
  BY <1>1, <1>2, <1>3, <1>4, <1>5, <1>6, <1>7, Cases

\* Only a new request is added to the queue.
Requeued == \A i \in Requests : Queued(i)' => Queued(i) \/ kind[i] = "none"

\* Every step adds to the queue as Requeued says.
LEMMA QueueStep ==
    ASSUME QueueType, [Next]_vars
    PROVE  Requeued
<1> USE DEF Requeued, Queued, objVars, timerVars, appVars, rmVars, worker
<1>1. CASE Takes
  <2>1. CASE req_end
    <3>1. PICK m, p, next : Take(m, p, next)
      BY <2>1 DEF req_end
    <3>. QED
      BY <3>1, TakeFacts
  <2>2. CASE ForeignEnd
    <3>1. PICK m, p, next : Take(m, p, next)
      BY <2>2 DEF ForeignEnd
    <3>. QED
      BY <3>1, TakeFacts
  <2>3. CASE rollback_txn
    <3>1. PICK m, p, next : Take(m, p, next)
      BY <2>3 DEF rollback_txn
    <3>. QED
      BY <3>1, TakeFacts
  <2>4. CASE redrivecommit_txn
    <3>1. PICK m, p, next : Take(m, p, next)
      BY <2>4 DEF redrivecommit_txn, Redrive
    <3>. QED
      BY <3>1, TakeFacts
  <2>5. CASE redriverollback_txn
    <3>1. PICK m, p, next : Take(m, p, next)
      BY <2>5 DEF redriverollback_txn, Redrive
    <3>. QED
      BY <3>1, TakeFacts
  <2>6. CASE req_registerRegion
    <3>1. PICK m, p, next : Take(m, p, next)
      BY <2>6 DEF req_registerRegion
    <3>. QED
      BY <3>1, TakeFacts
  <2>. QED
    BY <1>1, <2>1, <2>2, <2>3, <2>4, <2>5, <2>6 DEF Takes
<1>2. CASE Pushes
  <2>1. ASSUME NEW i \in Requests, NEW k \in Kinds, Request(i, k) PROVE Requeued
    <3>1. [type |-> k, id |-> i] \in Message /\ queueToTransaction([type |-> k, id |-> i])
      BY <2>1 DEF Request, Message, Requests
    <3>2. kind[i] = "none"
      BY <2>1 DEF Request
    <3>. QED
      BY <3>1, <3>2, PushFacts
  <2>2. CASE schedule_abort
    <3>1. PICK m \in Message : queueToTransaction(m) /\ m.id = 0
      BY <2>2, InternalMessage DEF schedule_abort, Internal, QueueType
    <3>2. \A i \in Requests : i # 0
      BY DEF Requests
    <3>. QED
      BY <3>1, <3>2, PushFacts
  <2>3. CASE AbortTimeout
    <3>1. PICK m \in Message : queueToTransaction(m) /\ m.id = 0
      BY <2>3, InternalMessage DEF AbortTimeout, Internal, QueueType
    <3>2. \A i \in Requests : i # 0
      BY DEF Requests
    <3>. QED
      BY <3>1, <3>2, PushFacts
  <2>4. CASE HungTimeout
    <3>1. PICK m \in Message : queueToTransaction(m) /\ m.id = 0
      BY <2>4, InternalMessage DEF HungTimeout, Internal, QueueType
    <3>2. \A i \in Requests : i # 0
      BY DEF Requests
    <3>. QED
      BY <3>1, <3>2, PushFacts
  <2>. QED
    BY <1>2, <2>1, <2>2, <2>3, <2>4 DEF Pushes
<1>3. CASE Others
  BY <1>3 DEF Others, doom_txn, DoomMark, req_join, req_suspend
<1>4. CASE Commits
  BY <1>4 DEF Commits, CommitActive, prepare_branches, state_change_prepare_helper,
     CommitCommitting, state_change_commit_helper, CommitComplete, CommitForgetting,
     CommitLeave
<1>5. CASE Rollbacks
  BY <1>5 DEF Rollbacks, RollbackAdvance, rollback_branches,
     state_change_abort_helper, RollbackLeave
<1>6. CASE Ends
  BY <1>6 DEF Ends, req_end_complete, EndReply, req_abort_complete, req_forget,
     disassociate, Cleanup
<1>7. CASE UNCHANGED vars
  BY <1>7 DEF vars
<1>. QED
  BY <1>1, <1>2, <1>3, <1>4, <1>5, <1>6, <1>7, Cases

\* A request that ends the transaction keeps doing so.
LEMMA EndedStep ==
    ASSUME QueueType, AnswerType, MessageInv, [Next]_vars, NEW i \in Requests, Ended(i)
    PROVE  Ended(i)'
<1>1. kind'[i] = "END"
  BY KindStep DEF Ended
<1>2. answer'[i] # "FEJOINS"
  BY AnswerStep DEF Ended, AnswerOnce
<1>3. ~Queued(i)'
  BY QueueStep DEF Ended, Requeued
<1>. QED
  BY <1>1, <1>2, <1>3 DEF Ended

\* Every step keeps SerialInv.
LEMMA SerialStep ==
    ASSUME Serial, QueueType, AnswerType, MessageInv, SerialInv, [Next]_vars
    PROVE  SerialInv'
<1> SUFFICES ASSUME NEW i \in Requests, NEW j \in Requests, i < j, kind'[j] # "none"
             PROVE  /\ kind'[i] # "none" /\ answer'[i] # "none"
                    /\ kind'[i] = "REGISTER" \/ answer'[i] = "FEJOINS"
  BY DEF SerialInv
<1>1. /\ kind[i] # "none" /\ answer[i] # "none"
      /\ kind[i] = "REGISTER" \/ answer[i] = "FEJOINS"
  <2>1. CASE kind[j] # "none"
    BY <2>1 DEF SerialInv
  <2>2. CASE kind[j] = "none"
    <3>1. PICK k \in Kinds : Request(j, k)
      <4>1. kind' # kind
        BY <2>2
      <4>2. PICK l \in Requests, k \in Kinds : Request(l, k)
        BY <4>1, Unasked
      <4>3. l = j
        BY <2>2, <4>2 DEF Request, QueueType
      <4>. QED
        BY <4>2, <4>3
    <3>. QED
      BY <3>1 DEF Request, Requests
  <2>. QED
    BY <2>1, <2>2
<1>2. kind'[i] = kind[i] /\ answer'[i] = answer[i]
  BY <1>1, KindStep, AnswerStep DEF AnswerOnce
<1>. QED
  BY <1>1, <1>2

\* Once a request that ends the transaction is taken, only the TM's own
\* messages are queued and no request follows.
LEMMA Quiet ==
    ASSUME Serial, QueueType, MessageInv, SerialInv, NEW i \in Requests, Ended(i)
    PROVE  /\ \A n \in 1 .. Len(eventQ) : eventQ[n].id = 0 /\ eventQ[n].type \in Internal
           /\ \A j \in Requests, k \in Kinds : ~Request(j, k)
<1>1. ASSUME NEW n \in 1 .. Len(eventQ), eventQ[n].id # 0 PROVE FALSE
  <2>1. eventQ[n].id \in Requests /\ kind[eventQ[n].id] # "none"
    BY <1>1, MessageFacts
  <2>2. answer[eventQ[n].id] = "none" /\ eventQ[n].id # i
    BY <1>1 DEF MessageInv, Ended, Queued
  <2>. QED
    BY <2>1, <2>2 DEF SerialInv, Ended, Requests
<1>2. \A n \in 1 .. Len(eventQ) : eventQ[n].type \in Internal
  <2> SUFFICES ASSUME NEW n \in 1 .. Len(eventQ) PROVE eventQ[n].type \in Internal
    OBVIOUS
  <2>1. eventQ[n] \in Message /\ Sound(eventQ[n])
    BY MessageFacts DEF MessageInv
  <2>. QED
    BY <1>1, <2>1 DEF Message, Sound, Requests
<1>3. ASSUME NEW j \in Requests, NEW k \in Kinds, Request(j, k) PROVE FALSE
  <2>1. kind[j] = "none" /\ \A l \in 1 .. j - 1 : kind[l] = "REGISTER" \/ answer[l] = "FEJOINS"
    BY <1>3 DEF Request
  <2>2. ~(i < j)
    BY <2>1 DEF Ended, Requests
  <2>3. ~(j < i) /\ i # j
    BY <2>1 DEF Ended, SerialInv
  <2>. QED
    BY <2>2, <2>3 DEF Requests
<1>. QED
  BY <1>1, <1>2, <1>3

\* After a commit decision a worker takes only the TM's own messages.
LEMMA TakeQuiet ==
    ASSUME Serial, QueueType, MessageInv, SerialInv, EnderInv, decision = "commit",
           NEW m, NEW p, NEW next, Take(m, p, next)
    PROVE  m.type \in Internal
<1>1. m = eventQ[1] /\ 1 \in 1 .. Len(eventQ)
  BY TakeFacts
<1>2. PICK i \in Requests : Ended(i)
  BY DEF EnderInv
<1>. QED
  BY <1>1, <1>2, Quiet

\* A decision is final.
DecidedOnce == decision # "none" => decision' = decision

\* Every step leaves a decision as it is.
LEMMA DecidedStep ==
    ASSUME Serial, QueueType, ControlType, ControlInv, MessageInv, SerialInv, EnderInv,
           ToldInv, RedriveInv, [Next]_vars
    PROVE  DecidedOnce
<1> USE DEF ControlType, ControlInv, Driving, Final, ToldInv, decision, DecidedOnce,
   objVars, timerVars, appVars, rmVars, worker
<1>1. CASE Takes
  <2>1. CASE req_end
    BY <2>1 DEF req_end
  <2>2. CASE ForeignEnd
    <3>1. Take(Head(eventQ), "rollback", "abort_complete") /\ Head(eventQ).type = "FOREIGNEND"
      BY <2>2 DEF ForeignEnd
    <3>2. decision # "commit"
      BY <3>1, TakeQuiet DEF Internal
    <3>. QED
      BY <2>2, <3>2 DEF ForeignEnd, decision, DecidedOnce
  <2>3. CASE rollback_txn
    BY <2>3 DEF rollback_txn
  <2>4. CASE redrivecommit_txn
    <3>1. Take(Head(eventQ), "commit", "forget") /\ Head(eventQ).type = "REDRIVECOMMIT"
      BY <2>4 DEF redrivecommit_txn, Redrive
    <3>2. decision = "commit"
      BY <3>1, TakeFacts DEF RedriveInv
    <3>. QED
      BY <2>4, <3>2 DEF redrivecommit_txn, Redrive, decision, DecidedOnce
  <2>5. CASE redriverollback_txn
    <3>1. Take(Head(eventQ), "rollback", "forget") /\ Head(eventQ).type = "REDRIVEROLLBACK"
      BY <2>5 DEF redriverollback_txn, Redrive
    <3>2. decision = "abort"
      BY <3>1, TakeFacts DEF RedriveInv
    <3>. QED
      BY <2>5, <3>2 DEF redriverollback_txn, Redrive, decision, DecidedOnce
  <2>6. CASE req_registerRegion
    BY <2>6 DEF req_registerRegion
  <2>. QED
    BY <1>1, <2>1, <2>2, <2>3, <2>4, <2>5, <2>6 DEF Takes
<1>2. CASE Pushes
  <2>1. ASSUME NEW i \in Requests, NEW k \in Kinds, Request(i, k) PROVE DecidedOnce
    BY <2>1 DEF Request
  <2>2. CASE schedule_abort
    BY <2>2 DEF schedule_abort
  <2>3. CASE AbortTimeout
    BY <2>3 DEF AbortTimeout
  <2>4. CASE HungTimeout
    BY <2>4 DEF HungTimeout
  <2>. QED
    BY <1>2, <2>1, <2>2, <2>3, <2>4 DEF Pushes
<1>3. CASE Others
  <2>1. CASE doom_txn
    BY <2>1 DEF doom_txn
  <2>2. CASE DoomMark
    BY <2>2 DEF DoomMark
  <2>3. CASE req_join
    BY <2>3 DEF req_join
  <2>4. CASE req_suspend
    BY <2>4 DEF req_suspend
  <2>. QED
    BY <1>3, <2>1, <2>2, <2>3, <2>4 DEF Others
<1>4. CASE Commits
  <2>1. CASE CommitActive
    BY <2>1 DEF CommitActive
  <2>2. CASE prepare_branches
    BY <2>2 DEF prepare_branches
  <2>3. CASE state_change_prepare_helper
    BY <2>3 DEF state_change_prepare_helper
  <2>4. CASE CommitCommitting
    BY <2>4 DEF CommitCommitting
  <2>5. CASE state_change_commit_helper
    BY <2>5 DEF state_change_commit_helper
  <2>6. CASE CommitComplete
    BY <2>6 DEF CommitComplete
  <2>7. CASE CommitForgetting
    BY <2>7 DEF CommitForgetting
  <2>8. CASE CommitLeave
    BY <2>8 DEF CommitLeave
  <2>. QED
    BY <1>4, <2>1, <2>2, <2>3, <2>4, <2>5, <2>6, <2>7, <2>8 DEF Commits
<1>5. CASE Rollbacks
  <2>1. CASE RollbackAdvance
    BY <2>1 DEF RollbackAdvance
  <2>2. CASE rollback_branches
    BY <2>2 DEF rollback_branches
  <2>3. CASE state_change_abort_helper
    BY <2>3 DEF state_change_abort_helper
  <2>4. CASE RollbackLeave
    BY <2>4 DEF RollbackLeave
  <2>. QED
    BY <1>5, <2>1, <2>2, <2>3, <2>4 DEF Rollbacks
<1>6. CASE Ends
  <2>1. CASE req_end_complete
    BY <2>1 DEF req_end_complete
  <2>2. CASE EndReply
    BY <2>2 DEF EndReply
  <2>3. CASE req_abort_complete
    BY <2>3 DEF req_abort_complete
  <2>4. CASE req_forget
    BY <2>4 DEF req_forget
  <2>5. CASE disassociate
    BY <2>5 DEF disassociate
  <2>6. CASE Cleanup
    BY <2>6 DEF Cleanup
  <2>. QED
    BY <1>6, <2>1, <2>2, <2>3, <2>4, <2>5, <2>6 DEF Ends
<1>7. CASE UNCHANGED vars
  BY <1>7 DEF vars
<1>. QED
  BY <1>1, <1>2, <1>3, <1>4, <1>5, <1>6, <1>7, Cases

\* Every step keeps ToldInv.
LEMMA ToldStep ==
    ASSUME Serial, QueueType, ControlType, ControlInv, MessageInv, SerialInv, EnderInv,
           ToldInv, RedriveInv, [Next]_vars
    PROVE  ToldInv'
<1> USE DEF ControlType, ControlInv, Driving, Final, ToldInv, decision, objVars,
   timerVars, appVars, rmVars, worker
<1>0. decision # "none" => decision' = decision
  BY DecidedStep DEF DecidedOnce
<1>1. CASE Takes
  <2>1. CASE req_end
    BY <2>1, <1>0 DEF req_end, Take
  <2>2. CASE ForeignEnd
    BY <2>2, <1>0 DEF ForeignEnd, Take
  <2>3. CASE rollback_txn
    BY <2>3, <1>0 DEF rollback_txn, Take
  <2>4. CASE redrivecommit_txn
    <3>1. Take(Head(eventQ), "commit", "forget") /\ Head(eventQ).type = "REDRIVECOMMIT"
      BY <2>4 DEF redrivecommit_txn, Redrive
    <3>2. decision = "commit"
      BY <3>1, TakeFacts DEF RedriveInv
    <3>. QED
      BY <2>4, <3>2, <3>1 DEF redrivecommit_txn, Redrive, Take
  <2>5. CASE redriverollback_txn
    <3>1. Take(Head(eventQ), "rollback", "forget") /\ Head(eventQ).type = "REDRIVEROLLBACK"
      BY <2>5 DEF redriverollback_txn, Redrive
    <3>2. decision = "abort"
      BY <3>1, TakeFacts DEF RedriveInv
    <3>. QED
      BY <2>5, <3>2, <3>1 DEF redriverollback_txn, Redrive, Take
  <2>6. CASE req_registerRegion
    BY <2>6, <1>0 DEF req_registerRegion, Take
  <2>. QED
    BY <1>1, <2>1, <2>2, <2>3, <2>4, <2>5, <2>6 DEF Takes
<1>2. CASE Pushes
  <2>1. ASSUME NEW i \in Requests, NEW k \in Kinds, Request(i, k) PROVE ToldInv'
    BY <2>1 DEF Request
  <2>2. CASE schedule_abort
    BY <2>2 DEF schedule_abort
  <2>3. CASE AbortTimeout
    BY <2>3 DEF AbortTimeout
  <2>4. CASE HungTimeout
    BY <2>4 DEF HungTimeout
  <2>. QED
    BY <1>2, <2>1, <2>2, <2>3, <2>4 DEF Pushes
<1>3. CASE Others
  <2>1. CASE doom_txn
    BY <2>1 DEF doom_txn
  <2>2. CASE DoomMark
    BY <2>2 DEF DoomMark
  <2>3. CASE req_join
    BY <2>3 DEF req_join
  <2>4. CASE req_suspend
    BY <2>4 DEF req_suspend
  <2>. QED
    BY <1>3, <2>1, <2>2, <2>3, <2>4 DEF Others
<1>4. CASE Commits
  <2>1. CASE CommitActive
    BY <2>1 DEF CommitActive
  <2>2. CASE prepare_branches
    BY <2>2 DEF prepare_branches
  <2>3. CASE state_change_prepare_helper
    BY <2>3 DEF state_change_prepare_helper
  <2>4. CASE CommitCommitting
    BY <2>4 DEF CommitCommitting
  <2>5. CASE state_change_commit_helper
    BY <2>5 DEF state_change_commit_helper
  <2>6. CASE CommitComplete
    BY <2>6 DEF CommitComplete
  <2>7. CASE CommitForgetting
    BY <2>7 DEF CommitForgetting
  <2>8. CASE CommitLeave
    BY <2>8 DEF CommitLeave
  <2>. QED
    BY <1>4, <2>1, <2>2, <2>3, <2>4, <2>5, <2>6, <2>7, <2>8 DEF Commits
<1>5. CASE Rollbacks
  <2>1. CASE RollbackAdvance
    BY <2>1 DEF RollbackAdvance
  <2>2. CASE rollback_branches
    BY <2>2 DEF rollback_branches
  <2>3. CASE state_change_abort_helper
    BY <2>3 DEF state_change_abort_helper
  <2>4. CASE RollbackLeave
    BY <2>4 DEF RollbackLeave
  <2>. QED
    BY <1>5, <2>1, <2>2, <2>3, <2>4 DEF Rollbacks
<1>6. CASE Ends
  <2>1. CASE req_end_complete
    BY <2>1 DEF req_end_complete
  <2>2. CASE EndReply
    BY <2>2 DEF EndReply
  <2>3. CASE req_abort_complete
    BY <2>3 DEF req_abort_complete
  <2>4. CASE req_forget
    BY <2>4 DEF req_forget
  <2>5. CASE disassociate
    BY <2>5 DEF disassociate
  <2>6. CASE Cleanup
    BY <2>6 DEF Cleanup
  <2>. QED
    BY <1>6, <2>1, <2>2, <2>3, <2>4, <2>5, <2>6 DEF Ends
<1>7. CASE UNCHANGED vars
  BY <1>7 DEF vars
<1>. QED
  BY <1>1, <1>2, <1>3, <1>4, <1>5, <1>6, <1>7, Cases

\* The decision to commit is the one of state_change_prepare_helper.
DecidesByVote == decision = "none" /\ decision' = "commit" => state_change_prepare_helper

\* Every step decides to commit by the votes or not at all.
LEMMA Deciding ==
    ASSUME Serial, QueueType, ControlType, ControlInv, MessageInv, SerialInv, EnderInv,
           ToldInv, RedriveInv, DoomInv, [Next]_vars
    PROVE  DecidesByVote
<1> USE DEF ControlType, ControlInv, Driving, Final, DecidesByVote, decision,
   objVars, timerVars, appVars, rmVars, worker
<1>1. CASE Takes
  <2>1. CASE req_end
    BY <2>1 DEF req_end, Take
  <2>2. CASE ForeignEnd
    BY <2>2 DEF ForeignEnd, Take
  <2>3. CASE rollback_txn
    BY <2>3 DEF rollback_txn, Take
  <2>4. CASE redrivecommit_txn
    <3>1. Take(Head(eventQ), "commit", "forget") /\ Head(eventQ).type = "REDRIVECOMMIT"
      BY <2>4 DEF redrivecommit_txn, Redrive
    <3>2. decision = "commit"
      BY <3>1, TakeFacts DEF RedriveInv
    <3>. QED
      BY <3>2
  <2>5. CASE redriverollback_txn
    BY <2>5 DEF redriverollback_txn, Redrive, Take
  <2>6. CASE req_registerRegion
    BY <2>6 DEF req_registerRegion, Take
  <2>. QED
    BY <1>1, <2>1, <2>2, <2>3, <2>4, <2>5, <2>6 DEF Takes
<1>2. CASE Pushes
  BY <1>2 DEF Pushes, Request, schedule_abort, AbortTimeout, HungTimeout
<1>3. CASE Others
  BY <1>3 DEF Others, doom_txn, DoomMark, req_join, req_suspend
<1>4. CASE Commits
  <2>1. CASE CommitActive
    BY <2>1 DEF CommitActive
  <2>2. CASE prepare_branches
    BY <2>2 DEF prepare_branches
  <2>3. CASE state_change_prepare_helper
    BY <2>3 DEF state_change_prepare_helper
  <2>4. CASE CommitCommitting
    BY <2>4 DEF CommitCommitting
  <2>5. CASE state_change_commit_helper
    BY <2>5 DEF state_change_commit_helper
  <2>6. CASE CommitComplete
    BY <2>6 DEF CommitComplete
  <2>7. CASE CommitForgetting
    BY <2>7 DEF CommitForgetting
  <2>8. CASE CommitLeave
    BY <2>8 DEF CommitLeave
  <2>. QED
    BY <1>4, <2>1, <2>2, <2>3, <2>4, <2>5, <2>6, <2>7, <2>8 DEF Commits
<1>5. CASE Rollbacks
  <2>1. CASE RollbackAdvance
    BY <2>1 DEF RollbackAdvance
  <2>2. CASE rollback_branches
    BY <2>2 DEF rollback_branches
  <2>3. CASE state_change_abort_helper
    BY <2>3 DEF state_change_abort_helper
  <2>4. CASE RollbackLeave
    BY <2>4 DEF RollbackLeave
  <2>. QED
    BY <1>5, <2>1, <2>2, <2>3, <2>4 DEF Rollbacks
<1>6. CASE Ends
  <2>1. CASE req_end_complete
    BY <2>1 DEF req_end_complete
  <2>2. CASE EndReply
    BY <2>2 DEF EndReply
  <2>3. CASE req_abort_complete
    BY <2>3 DEF req_abort_complete
  <2>4. CASE req_forget
    BY <2>4 DEF req_forget
  <2>5. CASE disassociate
    BY <2>5 DEF disassociate
  <2>6. CASE Cleanup
    BY <2>6 DEF Cleanup
  <2>. QED
    BY <1>6, <2>1, <2>2, <2>3, <2>4, <2>5, <2>6 DEF Ends
<1>7. CASE UNCHANGED vars
  BY <1>7 DEF vars
<1>. QED
  BY <1>1, <1>2, <1>3, <1>4, <1>5, <1>6, <1>7, Cases

\* A worker that takes an END request has one that ends the transaction.
LEMMA EnderTake ==
    ASSUME QueueType, AnswerType, MessageInv, [Next]_vars, UNCHANGED <<kind, answer>>,
           NEW p, NEW next, Take(Head(eventQ), p, next), Head(eventQ).type = "END"
    PROVE  msg'.id \in Requests /\ Ended(msg.id)'
<1>1. msg' = eventQ[1] /\ 1 \in 1 .. Len(eventQ) /\ eventQ[1].type = "END"
  BY TakeFacts
<1>2. msg'.id \in Requests /\ kind[msg'.id] = "END"
  BY <1>1 DEF MessageInv, Sound, Kinds
<1>3. answer[msg'.id] = "none" /\ msg'.id # 0
  BY <1>1, <1>2 DEF MessageInv, Requests
<1>4. ~Queued(msg.id)'
  BY <1>3, MessageStep DEF MessageInv
<1>. QED
  BY <1>2, <1>3, <1>4 DEF Ended

\* Every step keeps EnderInv.
LEMMA EnderStep ==
    ASSUME Serial, QueueType, ControlType, ControlInv, MessageInv, SerialInv, EnderInv,
           ToldInv, RedriveInv, AnswerType, DoomInv, [Next]_vars
    PROVE  EnderInv'
<1>1. ASSUME pc' \in {"commit", "vote"}, state' \in {"ACTIVE", "PREPARING"}
      PROVE  msg'.id \in Requests /\ Ended(msg.id)'
  <2>1. CASE msg' = msg /\ pc \in {"commit", "vote"} /\ state \in {"ACTIVE", "PREPARING"}
    BY <2>1, EndedStep DEF EnderInv
  <2>2. CASE req_end
    <3>1. Take(Head(eventQ), "commit", "end_complete") /\ UNCHANGED answer
      BY <1>1, <2>2 DEF req_end, Take
    <3>. QED
      BY <2>2, <3>1, EnderTake DEF req_end, appVars
  <2>3. CASE /\ ~req_end
             /\ ~(msg' = msg /\ pc \in {"commit", "vote"} /\ state \in {"ACTIVE", "PREPARING"})
    <3> USE <1>1, <2>3 DEF ControlInv, ControlType, Driving, Final, objVars,
       timerVars, appVars, rmVars, worker
    <3>1. ~Takes
      BY DEF Takes, ForeignEnd, rollback_txn, redrivecommit_txn, redriverollback_txn,
         req_registerRegion, Redrive, Take
    <3>2. ~Pushes /\ ~Others
      BY DEF Pushes, Request, schedule_abort, AbortTimeout, HungTimeout, Others, doom_txn,
         DoomMark, req_join, req_suspend
    <3>3. ~Commits
      BY DEF Commits, CommitActive, prepare_branches, state_change_prepare_helper,
         CommitCommitting, state_change_commit_helper, CommitComplete, CommitForgetting,
         CommitLeave
    <3>4. ~Rollbacks /\ ~Ends
      BY DEF Rollbacks, RollbackAdvance, rollback_branches, state_change_abort_helper,
         RollbackLeave, Ends, req_end_complete, EndReply, req_abort_complete, req_forget,
         disassociate, Cleanup
    <3>. QED
      BY <3>1, <3>2, <3>3, <3>4, Cases DEF vars
  <2>. QED
    BY <2>1, <2>2, <2>3
<1>2. ASSUME decision' = "commit" PROVE \E i \in Requests : Ended(i)'
  <2>1. CASE decision = "commit"
    BY <2>1, EndedStep DEF EnderInv
  <2>2. CASE decision # "commit"
    <3>1. decision = "none"
      BY <1>2, <2>2, DecidedStep DEF DecidedOnce
    <3>2. state_change_prepare_helper
      BY <1>2, <3>1, Deciding DEF DecidesByVote
    <3>3. pc = "vote" /\ state = "PREPARING"
      BY <3>2 DEF state_change_prepare_helper, ControlInv
    <3>. QED
      BY <3>3, EndedStep DEF EnderInv
  <2>. QED
    BY <2>1, <2>2
<1>. QED
  BY <1>1, <1>2 DEF EnderInv

\* Every step keeps RedriveInv.
LEMMA RedriveStep ==
    ASSUME Serial, QueueType, ControlType, ControlInv, MessageInv, SerialInv, EnderInv,
           ToldInv, RedriveInv, [Next]_vars
    PROVE  RedriveInv'
<1> USE DEF RedriveInv, objVars, timerVars, appVars, rmVars, worker
<1>0. decision # "none" => decision' = decision
  BY DecidedStep DEF DecidedOnce
<1>1. CASE Takes
  <2>1. CASE req_end
    <3>1. PICK m, p, next : Take(m, p, next)
      BY <2>1 DEF req_end
    <3>2. hungTimer' = hungTimer \/ hungTimer' = "none"
      BY <2>1 DEF req_end
    <3>. QED
      BY <1>0, <3>1, <3>2, TakeFacts
  <2>2. CASE ForeignEnd
    <3>1. PICK m, p, next : Take(m, p, next)
      BY <2>2 DEF ForeignEnd
    <3>2. hungTimer' = hungTimer \/ hungTimer' = "none"
      BY <2>2 DEF ForeignEnd
    <3>. QED
      BY <1>0, <3>1, <3>2, TakeFacts
  <2>3. CASE rollback_txn
    <3>1. PICK m, p, next : Take(m, p, next)
      BY <2>3 DEF rollback_txn
    <3>2. hungTimer' = hungTimer \/ hungTimer' = "none"
      BY <2>3 DEF rollback_txn
    <3>. QED
      BY <1>0, <3>1, <3>2, TakeFacts
  <2>4. CASE redrivecommit_txn
    <3>1. PICK m, p, next : Take(m, p, next)
      BY <2>4 DEF redrivecommit_txn, Redrive
    <3>2. hungTimer' = hungTimer \/ hungTimer' = "none"
      BY <2>4 DEF redrivecommit_txn, Redrive
    <3>. QED
      BY <1>0, <3>1, <3>2, TakeFacts
  <2>5. CASE redriverollback_txn
    <3>1. PICK m, p, next : Take(m, p, next)
      BY <2>5 DEF redriverollback_txn, Redrive
    <3>2. hungTimer' = hungTimer \/ hungTimer' = "none"
      BY <2>5 DEF redriverollback_txn, Redrive
    <3>. QED
      BY <1>0, <3>1, <3>2, TakeFacts
  <2>6. CASE req_registerRegion
    <3>1. PICK m, p, next : Take(m, p, next)
      BY <2>6 DEF req_registerRegion
    <3>2. hungTimer' = hungTimer \/ hungTimer' = "none"
      BY <2>6 DEF req_registerRegion
    <3>. QED
      BY <1>0, <3>1, <3>2, TakeFacts
  <2>. QED
    BY <1>1, <2>1, <2>2, <2>3, <2>4, <2>5, <2>6 DEF Takes
<1>2. CASE Pushes
  <2>1. ASSUME NEW i \in Requests, NEW k \in Kinds, Request(i, k) PROVE RedriveInv'
    <3>1. [type |-> k, id |-> i] \in Message /\ queueToTransaction([type |-> k, id |-> i])
      BY <2>1 DEF Request, Message, Requests
    <3>2. hungTimer' = hungTimer /\ k \notin {"REDRIVECOMMIT", "REDRIVEROLLBACK"}
      BY <2>1 DEF Request, Kinds
    <3>. QED
      BY <1>0, <3>1, <3>2, PushFacts
  <2>2. CASE schedule_abort
    <3>1. "ROLLBACK" \in Internal /\ queueToTransaction([type |-> "ROLLBACK", id |-> 0])
      BY <2>2 DEF schedule_abort, Internal, QueueType
    <3>2. hungTimer' \in {hungTimer, "none"}
      BY <2>2 DEF schedule_abort
    <3>. QED
      BY <1>0, <3>1, <3>2, InternalMessage, PushFacts
  <2>3. CASE AbortTimeout
    <3>1. "ROLLBACK" \in Internal /\ queueToTransaction([type |-> "ROLLBACK", id |-> 0])
      BY <2>3 DEF AbortTimeout, Internal, QueueType
    <3>2. hungTimer' \in {hungTimer, "none"}
      BY <2>3 DEF AbortTimeout
    <3>. QED
      BY <1>0, <3>1, <3>2, InternalMessage, PushFacts
  <2>4. CASE HungTimeout
    <3>1. hungTimer \in Internal /\ queueToTransaction([type |-> hungTimer, id |-> 0])
      BY <2>4 DEF HungTimeout, Internal, QueueType
    <3>2. hungTimer' \in {hungTimer, "none"}
      BY <2>4 DEF HungTimeout
    <3>. QED
      BY <1>0, <3>1, <3>2, InternalMessage, PushFacts
  <2>. QED
    BY <1>2, <2>1, <2>2, <2>3, <2>4 DEF Pushes
<1>3. CASE Others
  <2>1. CASE doom_txn
    BY <2>1, <1>0 DEF doom_txn
  <2>2. CASE DoomMark
    BY <2>2, <1>0 DEF DoomMark
  <2>3. CASE req_join
    BY <2>3, <1>0 DEF req_join
  <2>4. CASE req_suspend
    BY <2>4, <1>0 DEF req_suspend
  <2>. QED
    BY <1>3, <2>1, <2>2, <2>3, <2>4 DEF Others
<1>4. CASE Commits
  <2>1. CASE CommitActive
    BY <2>1, <1>0 DEF CommitActive
  <2>2. CASE prepare_branches
    BY <2>2, <1>0 DEF prepare_branches
  <2>3. CASE state_change_prepare_helper
    BY <2>3, <1>0 DEF state_change_prepare_helper
  <2>4. CASE CommitCommitting
    BY <2>4, <1>0 DEF CommitCommitting
  <2>5. CASE state_change_commit_helper
    <3>1. hungTimer' # hungTimer => decision' = "commit" /\ hungTimer' = "REDRIVECOMMIT"
      BY <2>5 DEF state_change_commit_helper, addHungTimerEvent, decision
    <3>2. eventQ' = eventQ
      BY <2>5 DEF state_change_commit_helper
    <3>. QED
      BY <1>0, <3>1, <3>2
  <2>6. CASE CommitComplete
    BY <2>6, <1>0 DEF CommitComplete
  <2>7. CASE CommitForgetting
    BY <2>7, <1>0 DEF CommitForgetting
  <2>8. CASE CommitLeave
    BY <2>8, <1>0 DEF CommitLeave
  <2>. QED
    BY <1>4, <2>1, <2>2, <2>3, <2>4, <2>5, <2>6, <2>7, <2>8 DEF Commits
<1>5. CASE Rollbacks
  <2>1. CASE RollbackAdvance
    BY <2>1, <1>0 DEF RollbackAdvance
  <2>2. CASE rollback_branches
    BY <2>2, <1>0 DEF rollback_branches
  <2>3. CASE state_change_abort_helper
    <3>1. hungTimer' # hungTimer => decision' = "abort" /\ hungTimer' = "REDRIVEROLLBACK"
      BY <2>3 DEF state_change_abort_helper, addHungTimerEvent, decision
    <3>2. eventQ' = eventQ
      BY <2>3 DEF state_change_abort_helper
    <3>. QED
      BY <1>0, <3>1, <3>2
  <2>4. CASE RollbackLeave
    BY <2>4, <1>0 DEF RollbackLeave
  <2>. QED
    BY <1>5, <2>1, <2>2, <2>3, <2>4 DEF Rollbacks
<1>6. CASE Ends
  <2>1. CASE req_end_complete
    BY <2>1, <1>0 DEF req_end_complete
  <2>2. CASE EndReply
    BY <2>2, <1>0 DEF EndReply
  <2>3. CASE req_abort_complete
    BY <2>3, <1>0 DEF req_abort_complete
  <2>4. CASE req_forget
    BY <2>4, <1>0 DEF req_forget
  <2>5. CASE disassociate
    BY <2>5, <1>0 DEF disassociate
  <2>6. CASE Cleanup
    BY <2>6, <1>0 DEF Cleanup
  <2>. QED
    BY <1>6, <2>1, <2>2, <2>3, <2>4, <2>5, <2>6 DEF Ends
<1>7. CASE UNCHANGED vars
  BY <1>7, <1>0 DEF vars
<1>. QED
  BY <1>1, <1>2, <1>3, <1>4, <1>5, <1>6, <1>7, Cases

\* An answer given to the request being served stays.
LEMMA RepliedKept ==
    ASSUME QueueType, AnswerType, MessageInv, [Next]_vars, Replied, msg' = msg
    PROVE  Replied'
<1>1. msg.id # 0 => msg.id \in Requests
  BY MessageFacts
<1>. QED
  BY <1>1, AnswerStep DEF AnswerOnce, Replied

\* Every step keeps ReplyInv.
LEMMA ReplyStep ==
    ASSUME Serial, QueueType, ControlType, ControlInv, MessageInv, SerialInv, EnderInv,
           ToldInv, RedriveInv, AnswerType, ReplyInv, [Next]_vars
    PROVE  ReplyInv'
<1> USE DEF ReplyInv, ControlType, ControlInv, ToldInv, Driving, Final, objVars,
   timerVars, appVars, rmVars, worker
<1>0. Replied /\ msg' = msg => Replied'
  BY RepliedKept
<1>1. CASE Takes
  <2>1. CASE req_end
    BY <2>1, <1>0 DEF req_end, Take
  <2>2. CASE ForeignEnd
    <3>1. Replied'
      <4>1. Take(Head(eventQ), "rollback", "abort_complete")
            /\ answer' = [answer EXCEPT ![Head(eventQ).id] = "FEABORTED"]
        BY <2>2 DEF ForeignEnd
      <4>. QED
        BY <4>1, TakenFacts, TakeFacts DEF Replied, AnswerType
    <3>. QED
      BY <2>2, <3>1 DEF ForeignEnd, Take, ReplyInv
  <2>3. CASE rollback_txn
    BY <2>3, <1>0 DEF rollback_txn, Kinds, Take
  <2>4. CASE redrivecommit_txn
    BY <2>4, <1>0 DEF redrivecommit_txn, Redrive, Take
  <2>5. CASE redriverollback_txn
    BY <2>5, <1>0 DEF redriverollback_txn, Redrive, Take
  <2>6. CASE req_registerRegion
    BY <2>6, <1>0 DEF req_registerRegion, Take
  <2>. QED
    BY <1>1, <2>1, <2>2, <2>3, <2>4, <2>5, <2>6 DEF Takes
<1>2. CASE Pushes
  <2>1. ASSUME NEW i \in Requests, NEW k \in Kinds, Request(i, k) PROVE ReplyInv'
    BY <2>1, <1>0 DEF Request
  <2>2. CASE schedule_abort
    BY <2>2, <1>0 DEF schedule_abort
  <2>3. CASE AbortTimeout
    BY <2>3, <1>0 DEF AbortTimeout
  <2>4. CASE HungTimeout
    BY <2>4, <1>0 DEF HungTimeout
  <2>. QED
    BY <1>2, <2>1, <2>2, <2>3, <2>4 DEF Pushes
<1>3. CASE Others
  <2>1. CASE doom_txn
    BY <2>1, <1>0 DEF doom_txn
  <2>2. CASE DoomMark
    BY <2>2, <1>0 DEF DoomMark
  <2>3. CASE req_join
    BY <2>3, <1>0 DEF req_join
  <2>4. CASE req_suspend
    BY <2>4, <1>0 DEF req_suspend
  <2>. QED
    BY <1>3, <2>1, <2>2, <2>3, <2>4 DEF Others
<1>4. CASE Commits
  <2>1. CASE CommitActive
    BY <2>1, <1>0 DEF CommitActive
  <2>2. CASE prepare_branches
    BY <2>2, <1>0 DEF prepare_branches
  <2>3. CASE state_change_prepare_helper
    BY <2>3, <1>0 DEF state_change_prepare_helper
  <2>4. CASE CommitCommitting
    BY <2>4, <1>0 DEF CommitCommitting
  <2>5. CASE state_change_commit_helper
    BY <2>5, <1>0 DEF state_change_commit_helper
  <2>6. CASE CommitComplete
    BY <2>6, <1>0 DEF CommitComplete
  <2>7. CASE CommitForgetting
    BY <2>7, <1>0 DEF CommitForgetting
  <2>8. CASE CommitLeave
    BY <2>8, <1>0 DEF CommitLeave
  <2>. QED
    BY <1>4, <2>1, <2>2, <2>3, <2>4, <2>5, <2>6, <2>7, <2>8 DEF Commits
<1>5. CASE Rollbacks
  <2>1. CASE RollbackAdvance
    BY <2>1, <1>0 DEF RollbackAdvance
  <2>2. CASE rollback_branches
    <3>1. /\ answer' \in [Requests -> Codes \cup {"none"}]
          /\ (msg.id \in Requests => answer'[msg.id] # "none")
      BY <2>2, ReplyFacts DEF rollback_branches, Codes, AnswerType
    <3>2. Replied'
      BY <2>2, <3>1, MessageFacts DEF rollback_branches, Replied
    <3>. QED
      BY <2>2, <3>2 DEF rollback_branches
  <2>3. CASE state_change_abort_helper
    BY <2>3, <1>0 DEF state_change_abort_helper
  <2>4. CASE RollbackLeave
    BY <2>4, <1>0 DEF RollbackLeave
  <2>. QED
    BY <1>5, <2>1, <2>2, <2>3, <2>4 DEF Rollbacks
<1>6. CASE Ends
  <2>1. CASE req_end_complete
    BY <2>1, <1>0 DEF req_end_complete
  <2>2. CASE EndReply
    BY <2>2, <1>0 DEF EndReply
  <2>3. CASE req_abort_complete
    BY <2>3, <1>0 DEF req_abort_complete
  <2>4. CASE req_forget
    BY <2>4, <1>0 DEF req_forget
  <2>5. CASE disassociate
    BY <2>5, <1>0 DEF disassociate
  <2>6. CASE Cleanup
    BY <2>6, <1>0 DEF Cleanup
  <2>. QED
    BY <1>6, <2>1, <2>2, <2>3, <2>4, <2>5, <2>6 DEF Ends
<1>7. CASE UNCHANGED vars
  BY <1>7, <1>0 DEF vars
<1>. QED
  BY <1>1, <1>2, <1>3, <1>4, <1>5, <1>6, <1>7, Cases

\* The requests whose answer tells the application an outcome.
Enders == {"END", "FOREIGNEND"}

\* The outcomes the application was told.
EndAnswers == {answer[i] : i \in {j \in Requests : kind[j] \in Enders /\ answer[j] # "none"}}

\* A step tells the application at most one outcome, and one that agrees
\* with the decision.
Agreement ==
    \/ EndAnswers' = EndAnswers
    \/ \E code \in Codes : Outcome!Agrees(code, decision') /\ EndAnswers' = EndAnswers \cup {code}

\* One new answer that agrees with the decision is in accordance with
\* Agreement.
LEMMA AnswerEffect ==
    ASSUME QueueType, AnswerType, NEW j \in Requests, NEW code \in Codes, answer[j] = "none",
           answer' = [answer EXCEPT ![j] = code], \A i \in Requests : i # j => kind'[i] = kind[i],
           kind'[j] \in Enders => Outcome!Agrees(code, decision')
    PROVE  Agreement
<1>1. code # "none"
  BY DEF Codes
<1>2. \A i \in Requests : i # j => answer'[i] = answer[i]
  BY DEF AnswerType
<1>3. answer'[j] = code
  BY DEF AnswerType
<1>4. CASE kind'[j] \in Enders
  <2>1. EndAnswers' = EndAnswers \cup {code}
    BY <1>1, <1>2, <1>3, <1>4 DEF EndAnswers
  <2>. QED
    BY <1>4, <2>1 DEF Agreement
<1>5. CASE kind'[j] \notin Enders
  <2>1. EndAnswers' = EndAnswers
    BY <1>1, <1>2, <1>3, <1>5 DEF EndAnswers
  <2>. QED
    BY <2>1 DEF Agreement
<1>. QED
  BY <1>4, <1>5

\* So is a Reply.
LEMMA ReplyEffect ==
    ASSUME QueueType, AnswerType, MessageInv, NEW code \in Codes, Reply(code), kind' = kind,
           ~Replied /\ msg.type \in Enders => Outcome!Agrees(code, decision')
    PROVE  Agreement
<1>1. CASE answer' = answer
  BY <1>1 DEF Agreement, EndAnswers
<1>2. CASE answer' # answer
  <2>1. msg.id # 0 /\ answer[msg.id] = "none" /\ answer' = [answer EXCEPT ![msg.id] = code]
    BY <1>2 DEF Reply
  <2>2. msg.id \in Requests /\ kind[msg.id] = msg.type
    BY <2>1, MessageFacts
  <2>. QED
    BY <2>1, <2>2, AnswerEffect DEF Replied
<1>. QED
  BY <1>1, <1>2

\* So is an answer to a request that is just taken.
LEMMA TakeEffect ==
    ASSUME QueueType, AnswerType, MessageInv, NEW code \in Codes, kind' = kind,
           NEW m, NEW p, NEW next, Take(m, p, next), m.type \in Kinds,
           answer' = [answer EXCEPT ![m.id] = code],
           m.type \in Enders => Outcome!Agrees(code, decision')
    PROVE  Agreement
<1>1. m = eventQ[1] /\ 1 \in 1 .. Len(eventQ)
  BY TakeFacts
<1>2. m.id \in Requests /\ kind[m.id] = m.type
  BY <1>1 DEF MessageInv, Sound
<1>3. answer[m.id] = "none"
  BY <1>1, <1>2 DEF MessageInv, Requests
<1>. QED
  BY <1>2, <1>3, AnswerEffect

\* Every step is in accordance with Agreement.
LEMMA AgreementStep ==
    ASSUME Serial, QueueType, ControlType, ControlInv, MessageInv, SerialInv, EnderInv,
           ToldInv, RedriveInv, AnswerType, ReplyInv, [Next]_vars
    PROVE  Agreement
<1> USE DEF objVars, timerVars, appVars, rmVars, worker
<1>1. CASE Takes
  <2>1. CASE req_end
    <3> DEFINE m == Head(eventQ)
    <3>1. m.type = "END" /\ m.type \in Kinds /\ kind' = kind
      BY <2>1 DEF req_end, Kinds
    <3>2. ASSUME NEW p, NEW next, Take(m, p, next) PROVE decision # "commit"
      BY <3>1, <3>2, TakeQuiet DEF Internal
    <3>3. ASSUME state \notin {"ACTIVE", "COMMITTED"}, Take(m, "forget", "none"),
                 answer' = [answer EXCEPT ![m.id] = IF isAborting THEN "FEABORTED" ELSE "FEENDED"]
          PROVE  Agreement
      <4>1. decision' = "abort"
        <5>1. state' = state /\ told' = told /\ live /\ pc \in {"idle", "done"}
          BY <2>1, <3>3 DEF req_end, Take
        <5>. QED
          BY <5>1, <3>2, <3>3 DEF decision, ControlInv, Final
      <4>2. \A code \in {"FEABORTED", "FEENDED"} : code \in Codes /\ Outcome!Agrees(code, decision')
        BY <4>1 DEF Codes, Outcome!Agrees, SaysCommit, SaysAbort
      <4>. QED
        BY <3>1, <3>3, <4>2, TakeEffect
    <3>4. ASSUME Take(m, "done", "none"), answer' = [answer EXCEPT ![m.id] = "FEJOINS"]
          PROVE  Agreement
      <4>1. "FEJOINS" \in Codes /\ Outcome!Agrees("FEJOINS", decision')
        BY DEF Codes, Outcome!Agrees, SaysCommit, SaysAbort
      <4>. QED
        BY <3>1, <3>4, <4>1, TakeEffect
    <3>5. CASE UNCHANGED answer
      BY <3>1, <3>5 DEF EndAnswers, Agreement
    <3>. QED
      BY <2>1, <3>3, <3>4, <3>5 DEF req_end
  <2>2. CASE ForeignEnd
    <3> DEFINE m == Head(eventQ)
    <3>1. /\ Take(m, "rollback", "abort_complete") /\ m.type \in Kinds /\ kind' = kind
          /\ answer' = [answer EXCEPT ![m.id] = "FEABORTED"] /\ decision' = "abort"
      BY <2>2 DEF ForeignEnd, Kinds, decision
    <3>2. "FEABORTED" \in Codes /\ Outcome!Agrees("FEABORTED", decision')
      BY <3>1 DEF Codes, Outcome!Agrees, SaysCommit, SaysAbort
    <3>. QED
      BY <3>1, <3>2, TakeEffect
  <2>3. CASE rollback_txn
    <3> DEFINE m == Head(eventQ)
    <3>1. PICK p, next : Take(m, p, next)
      BY <2>3 DEF rollback_txn
    <3>2. m.type \in {"ABORT", "ROLLBACK"} /\ kind' = kind
      BY <2>3 DEF rollback_txn
    <3>3. CASE answer' = answer
      BY <3>2, <3>3 DEF EndAnswers, Agreement
    <3>4. CASE answer' # answer
      <4>1. m.id # 0
        BY <2>3, <3>4 DEF rollback_txn
      <4>2. m.type = "ABORT"
        BY <3>1, <3>2, <4>1, TakeFacts DEF MessageInv, Sound, Internal
      <4>3. PICK code \in {"FEABORTED", "FEENDED"} : answer' = [answer EXCEPT ![m.id] = code]
        BY <2>3, <3>4 DEF rollback_txn
      <4>4. code \in Codes
        BY DEF Codes
      <4>. QED
        BY <3>1, <3>2, <4>2, <4>3, <4>4, TakeEffect DEF Kinds, Enders
    <3>. QED
      BY <3>3, <3>4
  <2>4. CASE redrivecommit_txn
    BY <2>4 DEF redrivecommit_txn, Redrive, EndAnswers, Agreement
  <2>5. CASE redriverollback_txn
    BY <2>5 DEF redriverollback_txn, Redrive, EndAnswers, Agreement
  <2>6. CASE req_registerRegion
    <3> DEFINE m == Head(eventQ)
    <3>1. /\ Take(m, "done", "none") /\ m.type = "REGISTER" /\ kind' = kind
          /\ answer' = [answer EXCEPT ![m.id] = "FEOK"]
      BY <2>6 DEF req_registerRegion
    <3>. QED
      BY <3>1, TakeEffect DEF Codes, Kinds, Enders
  <2>. QED
    BY <1>1, <2>1, <2>2, <2>3, <2>4, <2>5, <2>6 DEF Takes
<1>2. CASE Pushes
  <2>1. ASSUME NEW i \in Requests, NEW k \in Kinds, Request(i, k) PROVE Agreement
    <3>1. CASE txn_object_good
      BY <2>1, <3>1 DEF Request, EndAnswers, Agreement, QueueType, MessageInv
    <3>2. CASE ~txn_object_good
      <4>1. /\ answer[i] = "none" /\ answer' = [answer EXCEPT ![i] = "FEINVTRANSID"]
            /\ \A j \in Requests : j # i => kind'[j] = kind[j]
        BY <2>1, <3>2 DEF Request, QueueType, MessageInv
      <4>2. "FEINVTRANSID" \in Codes /\ Outcome!Agrees("FEINVTRANSID", decision')
        BY DEF Codes, Outcome!Agrees, SaysCommit, SaysAbort
      <4>. QED
        BY <4>1, <4>2, AnswerEffect
    <3>. QED
      BY <3>1, <3>2
  <2>2. CASE schedule_abort
    BY <2>2 DEF schedule_abort, EndAnswers, Agreement
  <2>3. CASE AbortTimeout
    BY <2>3 DEF AbortTimeout, EndAnswers, Agreement
  <2>4. CASE HungTimeout
    BY <2>4 DEF HungTimeout, EndAnswers, Agreement
  <2>. QED
    BY <1>2, <2>1, <2>2, <2>3, <2>4 DEF Pushes
<1>3. CASE Others
  <2>1. CASE doom_txn
    BY <2>1 DEF doom_txn, EndAnswers, Agreement
  <2>2. CASE DoomMark
    BY <2>2 DEF DoomMark, EndAnswers, Agreement
  <2>3. CASE req_join
    BY <2>3 DEF req_join, EndAnswers, Agreement
  <2>4. CASE req_suspend
    BY <2>4 DEF req_suspend, EndAnswers, Agreement
  <2>. QED
    BY <1>3, <2>1, <2>2, <2>3, <2>4 DEF Others
<1>4. CASE Commits
  <2>1. CASE CommitActive
    <3>1. kind' = kind
      BY <2>1 DEF CommitActive
    <3>2. CASE answer' = answer
      BY <3>1, <3>2 DEF EndAnswers, Agreement
    <3>3. CASE answer' # answer
      <4>1. Reply("FEABORTED") /\ decision' = "abort"
        BY <2>1, <3>3 DEF CommitActive, decision
      <4>2. "FEABORTED" \in Codes /\ Outcome!Agrees("FEABORTED", decision')
        BY <4>1 DEF Codes, Outcome!Agrees, SaysCommit, SaysAbort
      <4>. QED
        BY <3>1, <4>1, <4>2, ReplyEffect
    <3>. QED
      BY <3>2, <3>3
  <2>2. CASE prepare_branches
    BY <2>2 DEF prepare_branches, EndAnswers, Agreement
  <2>3. CASE state_change_prepare_helper
    BY <2>3 DEF state_change_prepare_helper, EndAnswers, Agreement
  <2>4. CASE CommitCommitting
    BY <2>4 DEF CommitCommitting, EndAnswers, Agreement
  <2>5. CASE state_change_commit_helper
    <3>1. kind' = kind
      BY <2>5 DEF state_change_commit_helper
    <3>2. CASE answer' = answer
      BY <3>1, <3>2 DEF EndAnswers, Agreement
    <3>3. CASE answer' # answer
      <4>1. Reply("FEOK") /\ state' = "FORGETTING" /\ "abort" \notin told'
        BY <2>5, <3>3 DEF state_change_commit_helper, ToldInv
      <4>2. "FEOK" \in Codes /\ Outcome!Agrees("FEOK", decision')
        BY <4>1 DEF Codes, Outcome!Agrees, SaysCommit, SaysAbort, decision
      <4>. QED
        BY <3>1, <4>1, <4>2, ReplyEffect
    <3>. QED
      BY <3>2, <3>3
  <2>6. CASE CommitComplete
    BY <2>6 DEF CommitComplete, EndAnswers, Agreement
  <2>7. CASE CommitForgetting
    BY <2>7 DEF CommitForgetting, EndAnswers, Agreement
  <2>8. CASE CommitLeave
    BY <2>8 DEF CommitLeave, EndAnswers, Agreement
  <2>. QED
    BY <1>4, <2>1, <2>2, <2>3, <2>4, <2>5, <2>6, <2>7, <2>8 DEF Commits
<1>5. CASE Rollbacks
  <2>1. CASE RollbackAdvance
    BY <2>1 DEF RollbackAdvance, EndAnswers, Agreement
  <2>2. CASE rollback_branches
    <3>1. kind' = kind /\ Reply(rsp) /\ decision' = "abort" /\ rsp \in Codes
      BY <2>2 DEF rollback_branches, decision, AnswerType, Codes
    <3>2. ~Replied /\ msg.type \in Enders => rsp # "FEOK"
      BY <2>2 DEF rollback_branches, ReplyInv, ControlInv, ControlType, Driving, Enders
    <3>3. rsp # "FEOK" => Outcome!Agrees(rsp, decision')
      BY <3>1 DEF Outcome!Agrees, SaysCommit, SaysAbort
    <3>. QED
      BY <3>1, <3>2, <3>3, ReplyEffect
  <2>3. CASE state_change_abort_helper
    BY <2>3 DEF state_change_abort_helper, EndAnswers, Agreement
  <2>4. CASE RollbackLeave
    BY <2>4 DEF RollbackLeave, EndAnswers, Agreement
  <2>. QED
    BY <1>5, <2>1, <2>2, <2>3, <2>4 DEF Rollbacks
<1>6. CASE Ends
  <2>1. CASE req_end_complete
    BY <2>1 DEF req_end_complete, EndAnswers, Agreement
  <2>2. CASE EndReply
    <3>1. kind' = kind /\ Reply("FEOK") /\ state' = state /\ told' = told /\ "FEOK" \in Codes
      BY <2>2 DEF EndReply, Codes
    <3>2. ~Replied => decision' = "commit"
      BY <2>2, <3>1 DEF EndReply, ReplyInv, ControlInv, Final, ToldInv, decision
    <3>3. decision' = "commit" => Outcome!Agrees("FEOK", decision')
      BY DEF Outcome!Agrees, SaysCommit, SaysAbort
    <3>. QED
      BY <3>1, <3>2, <3>3, ReplyEffect
  <2>3. CASE req_abort_complete
    <3>1. kind' = kind /\ Reply(rsp) /\ rsp \in Codes
      BY <2>3 DEF req_abort_complete, AnswerType, Codes
    <3>2. Replied
      BY <2>3 DEF req_abort_complete, ReplyInv
    <3>. QED
      BY <3>1, <3>2, ReplyEffect
  <2>4. CASE req_forget
    BY <2>4 DEF req_forget, EndAnswers, Agreement
  <2>5. CASE disassociate
    BY <2>5 DEF disassociate, EndAnswers, Agreement
  <2>6. CASE Cleanup
    BY <2>6 DEF Cleanup, EndAnswers, Agreement
  <2>. QED
    BY <1>6, <2>1, <2>2, <2>3, <2>4, <2>5, <2>6 DEF Ends
<1>7. CASE UNCHANGED vars
  BY <1>7 DEF vars, EndAnswers, Agreement
<1>. QED
  BY <1>1, <1>2, <1>3, <1>4, <1>5, <1>6, <1>7, Cases

\* All regions have voted for the commit.
Prepared == votes \in {"prepared", "readonly"}

\* What a step does to votes, decision and regions, as TxnOutcome has it:
\* nothing, the votes arrive, the decision is made, or the regions are told.
Effect ==
    \/ Prepared' = Prepared /\ decision' = decision /\ told' = told
    \/ /\ decision = "none" /\ decision' = decision /\ told' = told
       /\ Prepared' = TRUE /\ UNCHANGED <<kind, answer>>
    \/ /\ decision = "none" /\ Prepared' = Prepared /\ told' = told
       /\ decision' = "abort" \/ (Prepared /\ decision' = "commit")
    \/ /\ decision # "none" /\ decision' = decision /\ Prepared' = Prepared
       /\ told' = told \cup {decision}

\* Every step has one of the effects TxnOutcome knows.
LEMMA EffectStep ==
    ASSUME Serial, QueueType, ControlType, ControlInv, MessageInv, SerialInv, EnderInv,
           ToldInv, RedriveInv, AnswerType, ReplyInv, DoomInv, [Next]_vars
    PROVE  Effect
<1> USE DEF ControlType, ControlInv, Driving, Final, ToldInv, Effect, objVars,
   timerVars, appVars, rmVars, worker
<1>0. /\ decision # "none" => decision' = decision
      /\ decision \in {"none", "abort", "commit"}
  BY DecidedStep DEF DecidedOnce, decision
<1>1. CASE Takes
  <2>1. CASE req_end
    BY <2>1, <1>0 DEF req_end, Prepared, decision
  <2>2. CASE ForeignEnd
    <3>1. Prepared' = Prepared /\ told' = told /\ decision' \in {"abort", "commit"}
      BY <2>2 DEF ForeignEnd, Prepared, decision
    <3>2. decision' = "commit" => decision = "commit"
      BY <2>2, <1>0, Deciding DEF DecidesByVote, ForeignEnd, state_change_prepare_helper, Take
    <3>. QED
      BY <1>0, <3>1, <3>2
  <2>3. CASE rollback_txn
    BY <2>3, <1>0 DEF rollback_txn, Prepared, decision
  <2>4. CASE redrivecommit_txn
    <3>1. Prepared' = Prepared /\ told' = told /\ decision' \in {"abort", "commit"}
      BY <2>4 DEF redrivecommit_txn, Redrive, Prepared, decision
    <3>2. decision' = "commit" => decision = "commit"
      BY <2>4, <1>0, Deciding DEF DecidesByVote, redrivecommit_txn, Redrive,
         state_change_prepare_helper, Take
    <3>. QED
      BY <1>0, <3>1, <3>2
  <2>5. CASE redriverollback_txn
    <3>1. Prepared' = Prepared /\ told' = told /\ decision' \in {"abort", "commit"}
      BY <2>5 DEF redriverollback_txn, Redrive, Prepared, decision
    <3>2. decision' = "commit" => decision = "commit"
      BY <2>5, <1>0, Deciding DEF DecidesByVote, redriverollback_txn, Redrive,
         state_change_prepare_helper, Take
    <3>. QED
      BY <1>0, <3>1, <3>2
  <2>6. CASE req_registerRegion
    BY <2>6, <1>0 DEF req_registerRegion, Prepared, decision
  <2>. QED
    BY <1>1, <2>1, <2>2, <2>3, <2>4, <2>5, <2>6 DEF Takes
<1>2. CASE Pushes
  <2>1. ASSUME NEW i \in Requests, NEW k \in Kinds, Request(i, k) PROVE Effect
    BY <2>1, <1>0 DEF Request, Prepared, decision
  <2>2. CASE schedule_abort
    BY <2>2, <1>0 DEF schedule_abort, Prepared, decision
  <2>3. CASE AbortTimeout
    BY <2>3, <1>0 DEF AbortTimeout, Prepared, decision
  <2>4. CASE HungTimeout
    BY <2>4, <1>0 DEF HungTimeout, Prepared, decision
  <2>. QED
    BY <1>2, <2>1, <2>2, <2>3, <2>4 DEF Pushes
<1>3. CASE Others
  <2>1. CASE doom_txn
    BY <2>1, <1>0 DEF doom_txn, Prepared, decision
  <2>2. CASE DoomMark
    BY <2>2, <1>0 DEF DoomMark, Prepared, decision
  <2>3. CASE req_join
    BY <2>3, <1>0 DEF req_join, Prepared, decision
  <2>4. CASE req_suspend
    BY <2>4, <1>0 DEF req_suspend, Prepared, decision
  <2>. QED
    BY <1>3, <2>1, <2>2, <2>3, <2>4 DEF Others
<1>4. CASE Commits
  <2>1. CASE CommitActive
    BY <2>1, <1>0 DEF CommitActive, Prepared, decision
  <2>2. CASE prepare_branches
    <3>1. decision = "none" /\ decision' = "none" /\ votes = "none"
      BY <2>2 DEF prepare_branches, decision, DoomInv
    <3>. QED
      BY <2>2, <3>1 DEF prepare_branches, Prepared
  <2>3. CASE state_change_prepare_helper
    <3>1. /\ decision = "none" /\ (votes = "refused" => mark)
          /\ votes \in {"prepared", "readonly", "refused"}
      BY <2>3 DEF state_change_prepare_helper, decision, DoomInv
    <3>2. Prepared' = Prepared /\ told' = told
      BY <2>3 DEF state_change_prepare_helper, Prepared
    <3>3. mark => decision' = "abort"
      BY <2>3 DEF state_change_prepare_helper, decision
    <3>4. ~mark => decision' = "commit"
      BY <2>3 DEF state_change_prepare_helper, decision
    <3>. QED
      BY <3>1, <3>2, <3>3, <3>4 DEF Prepared
  <2>4. CASE CommitCommitting
    BY <2>4, <1>0 DEF CommitCommitting, Prepared, decision
  <2>5. CASE state_change_commit_helper
    BY <2>5, <1>0 DEF state_change_commit_helper, Prepared, decision
  <2>6. CASE CommitComplete
    BY <2>6, <1>0 DEF CommitComplete, Prepared, decision
  <2>7. CASE CommitForgetting
    BY <2>7, <1>0 DEF CommitForgetting, Prepared, decision
  <2>8. CASE CommitLeave
    BY <2>8, <1>0 DEF CommitLeave, Prepared, decision
  <2>. QED
    BY <1>4, <2>1, <2>2, <2>3, <2>4, <2>5, <2>6, <2>7, <2>8 DEF Commits
<1>5. CASE Rollbacks
  <2>1. CASE RollbackAdvance
    BY <2>1, <1>0 DEF RollbackAdvance, Prepared, decision
  <2>2. CASE rollback_branches
    BY <2>2, <1>0 DEF rollback_branches, Prepared, decision
  <2>3. CASE state_change_abort_helper
    BY <2>3, <1>0 DEF state_change_abort_helper, Prepared, decision
  <2>4. CASE RollbackLeave
    BY <2>4, <1>0 DEF RollbackLeave, Prepared, decision
  <2>. QED
    BY <1>5, <2>1, <2>2, <2>3, <2>4 DEF Rollbacks
<1>6. CASE Ends
  <2>1. CASE req_end_complete
    BY <2>1, <1>0 DEF req_end_complete, Prepared, decision
  <2>2. CASE EndReply
    BY <2>2, <1>0 DEF EndReply, Prepared, decision
  <2>3. CASE req_abort_complete
    BY <2>3, <1>0 DEF req_abort_complete, Prepared, decision
  <2>4. CASE req_forget
    BY <2>4, <1>0 DEF req_forget, Prepared, decision
  <2>5. CASE disassociate
    BY <2>5, <1>0 DEF disassociate, Prepared, decision
  <2>6. CASE Cleanup
    BY <2>6, <1>0 DEF Cleanup, Prepared, decision
  <2>. QED
    BY <1>6, <2>1, <2>2, <2>3, <2>4, <2>5, <2>6 DEF Ends
<1>7. CASE UNCHANGED vars
  BY <1>7 DEF vars, Prepared, decision
<1>. QED
  BY <1>1, <1>2, <1>3, <1>4, <1>5, <1>6, <1>7, Cases

\* Every step is a step of TxnOutcome or leaves its variables alone.
LEMMA OutcomeStep ==
    ASSUME Serial, QueueType, ControlType, ControlInv, MessageInv, SerialInv, EnderInv,
           ToldInv, RedriveInv, AnswerType, ReplyInv, DoomInv, [Next]_vars
    PROVE  [Outcome!Next]_(Outcome!vars)
<1> DEFINE answers == {answer[i] : i \in {j \in Requests :
                          kind[j] \in {"END", "FOREIGNEND"} /\ answer[j] # "none"}}
<1>1. /\ Agreement /\ Effect
      /\ answers = EndAnswers /\ answers' = EndAnswers'
  BY AgreementStep, EffectStep DEF EndAnswers, Enders
<1>2. CASE Prepared' = Prepared /\ decision' = decision /\ told' = told
  <2>1. CASE EndAnswers' = EndAnswers
    BY <1>1, <1>2, <2>1 DEF Outcome!vars, Prepared
  <2>2. CASE \E code \in Codes :
             Outcome!Agrees(code, decision') /\ EndAnswers' = EndAnswers \cup {code}
    BY <1>1, <1>2, <2>2 DEF Outcome!Next, Outcome!Answer, Prepared
  <2>. QED
    BY <1>1, <2>1, <2>2 DEF Agreement
<1>3. CASE /\ decision = "none" /\ decision' = decision /\ told' = told
           /\ Prepared' = TRUE /\ UNCHANGED <<kind, answer>>
  BY <1>3 DEF Outcome!Next, Outcome!Prepare, Prepared
<1>4. CASE /\ decision = "none" /\ Prepared' = Prepared /\ told' = told
           /\ decision' = "abort" \/ (Prepared /\ decision' = "commit")
  BY <1>1, <1>4 DEF Outcome!Next, Outcome!Decide, Outcome!Decisions, Agreement, Prepared
<1>5. CASE /\ decision # "none" /\ decision' = decision /\ Prepared' = Prepared
           /\ told' = told \cup {decision}
  BY <1>1, <1>5 DEF Outcome!Next, Outcome!Tell, Agreement, Prepared
<1>. QED
  BY <1>1, <1>2, <1>3, <1>4, <1>5 DEF Effect

\* The invariants hold initially.
LEMMA InitInv == Init => IInv /\ OInv
<1> SUFFICES ASSUME Init PROVE IInv /\ OInv
  OBVIOUS
<1>1. TypeOK
  <2>1. FlagType
    BY Zenon DEF Init, FlagType
  <2>2. QueueType
    BY DEF Init, QueueType
  <2>3. AnswerType /\ ControlType /\ CountType
    BY BoundAssumption DEF Init, AnswerType, ControlType, CountType, States
  <2>. QED
    BY <2>1, <2>2, <2>3, Parts
<1>2. ControlInv /\ DoomInv
  BY DEF Init, ControlInv, DoomInv, DeathIsLateDoom, Driving, Final
<1>3. MessageInv
  BY DEF Init, MessageInv, Sound, NoMsg, Kinds, Internal
<1>4. SerialInv /\ EnderInv /\ ToldInv /\ RedriveInv /\ ReplyInv
  BY DEF Init, SerialInv, EnderInv, ToldInv, RedriveInv, ReplyInv, decision
<1>. QED
  BY <1>1, <1>2, <1>3, <1>4 DEF IInv, OInv

\* IInv is inductive.
LEMMA IInvStep == IInv /\ [Next]_vars => IInv'
  BY Parts, PartsPrimed, FlagStep, CountStep, ControlTypeStep, ControlStep, DoomStep, QueueTypeStep,
     AnswerTypeStep, MessageStep DEF IInv

\* With one request at a time OInv is inductive relative to IInv.
LEMMA OInvStep ==
    ASSUME Serial, IInv, OInv, [Next]_vars
    PROVE  OInv'
  BY Parts, SerialStep, EnderStep, ToldStep, RedriveStep, ReplyStep DEF IInv, OInv

\* Every behaviour of the transaction object keeps IInv.
THEOREM TxnInvariant == Spec => []IInv
  BY InitInv, IInvStep, PTL DEF Spec

\* The variables of the transaction object and of its worker stay in their
\* types.
THEOREM TxnTypeCorrect == Spec => []TypeOK
  BY TxnInvariant, PTL DEF IInv

\* abort() in state_change, which ends the TM process, is reached only after
\* a doom that set the mark when the worker had looked at it, in a commit
\* that then hung, whatever the application sends and however it interleaves
\* with timers and dooms.
THEOREM DeathOnlyByLateDoom == Spec => []DeathIsLateDoom
<1>1. IInv => DeathIsLateDoom
  BY DEF IInv, DoomInv
<1>. QED
  BY <1>1, TxnInvariant, PTL

\* With one request at a time the state machine of the TM implements
\* TxnOutcome: the transaction is decided once, commits only after every
\* region has voted for it, tells the regions only the decision, and every
\* answer to END agrees with it.
THEOREM OutcomeImplemented == Serial => (Spec => ImplementsOutcome)
<1> SUFFICES ASSUME Serial PROVE Spec => ImplementsOutcome
  OBVIOUS
<1>1. Spec => [](IInv /\ OInv)
  <2>1. IInv /\ OInv /\ [Next]_vars => (IInv /\ OInv)'
    BY IInvStep, OInvStep
  <2>. QED
    BY <2>1, InitInv, PTL DEF Spec
<1>2. Init => Outcome!Init
  BY DEF Init, Outcome!Init, decision
<1>3. IInv /\ OInv /\ [Next]_vars => [Outcome!Next]_(Outcome!vars)
  BY OutcomeStep, Parts DEF IInv, OInv
<1>. QED
  BY <1>1, <1>2, <1>3, PTL DEF Spec, ImplementsOutcome, Outcome!Spec

=========================================================================
