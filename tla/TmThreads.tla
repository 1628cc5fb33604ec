----------------------------- MODULE TmThreads -----------------------------
(***************************************************************************)
(* How the TM process (sqf/src/tm) gets a worker thread to the events of a *)
(* transaction object, and the object back into its pool.                  *)
(*                                                                         *)
(* The main thread finds the object of a transaction and queues the        *)
(* request to it (queueToTransaction).  An object without a thread is      *)
(* given one from the thread pool; when the pool is exhausted it is put on *)
(* txdisassociatedQ, which a worker looks at before it returns to the pool.*)
(* A worker associates itself with the object, handles its events, and     *)
(* disassociates when the queue is empty.  A request that ends the         *)
(* transaction raises iv_cleanup_sem; the worker that disassociates from   *)
(* such an object returns it to the transaction pool, where the next       *)
(* transaction finds it.                                                   *)
(*                                                                         *)
(* Requests are reduced to what the threads can tell apart: "keep" (the    *)
(* transaction goes on) and "forget" (req_forget raises iv_cleanup_sem).   *)
(* Module TmTxn has the handlers.  The thread model is "worker" and the    *)
(* steady state of the thread pool is its maximum, both the defaults; the  *)
(* transaction pool deletes objects above its steady state.                *)
(*                                                                         *)
(* A client awaits the reply to a request before it sends the next one,    *)
(* but the TM also queues requests of its own accord, beside the client:   *)
(* when a timer pops, when a client or a joiner dies, when a region is     *)
(* registered.  The history variable overlap says that this has happened.  *)
(***************************************************************************)
EXTENDS Integers, Sequences, FiniteSets

CONSTANTS
    MaxThreads,   \* iv_max of the thread pool
    LowThreads,   \* iv_steadyLow of the thread pool
    MaxObjects,   \* iv_max of the transaction pool
    LowObjects,   \* iv_steadyLow of the transaction pool
    HighObjects,  \* iv_steadyHigh of the transaction pool
    Pushers,      \* threads that queue requests
    MaxTxns,      \* bound: transactions that begin
    MaxRequests   \* bound: requests that are sent

ASSUME PoolAssumption ==
    /\ MaxThreads \in Nat \ {0} /\ LowThreads \in 0 .. MaxThreads
    /\ MaxObjects \in Nat \ {0} /\ LowObjects \in 0 .. MaxObjects
    /\ HighObjects \in LowObjects .. MaxObjects
ASSUME EnvironmentAssumption ==
    /\ {MaxTxns, MaxRequests} \subseteq Nat
    /\ "nobody" \notin Pushers

None == 0                    \* the NULL pointer
Threads == 1 .. MaxThreads   \* worker threads, in the order of construction
Objects == 1 .. MaxObjects   \* transaction objects, likewise

VARIABLES
    \* CTmPool<CTxThread>
    inUse,      \* ip_inUseList
    freeList,   \* ip_freeList, its front first
    total,      \* iv_total
    \* CTmPool<CTmTxBase>
    objFree,    \* ip_freeList; ip_inUseList is the set of live objects
    objTotal,   \* iv_total
    \* CTmTxBase
    live,       \* iv_in_use
    seq,        \* iv_transid.iv_seq_num
    thread,     \* ip_Thread
    pending,    \* iv_threadPending
    eventQ,     \* iv_eventQ, the oldest event first
    cleanup,    \* iv_cleanup_sem
    qlock,      \* holder of the Qmutex
    \* TM_Info
    disQ,       \* iv_txdisassociatedQ, the oldest entry first
    nextSeq,
    \* CTxThread
    pc,
    threadQ,    \* its event queue: the objects of INITIALIZE events
    txn,        \* ip_txn
    msg,        \* the event process_eventQ is handling
    \* the threads that queue requests
    push,
    \* the clients
    waiting,    \* transactions with a request that is not answered
    ended,      \* transactions whose end was asked for
    sent,
    overlap,    \* history: a request came while another one of its
                \* transaction was under way, or after its end was asked for
    aborted     \* abort() was called, or a NULL pointer used

poolVars == <<inUse, freeList, total>>
objPool == <<objFree, objTotal>>
objVars == <<live, seq, thread, pending, eventQ, cleanup, qlock>>
workVars == <<pc, threadQ, txn, msg>>
clientVars == <<waiting, ended, sent, overlap>>
vars == <<poolVars, objPool, objVars, disQ, nextSeq, workVars, push, clientVars, aborted>>

Event == [seq : 1 .. MaxTxns, kind : {"keep", "forget"}]
NoEvent == [seq |-> 0, kind |-> "none"]

WorkerPc == {"none", "idle", "purge", "pop", "wait", "handle", "forget",
             "next", "disassociate", "cleanup", "release", "free"}
PusherPc == {"good", "test", "new_thread", "push", "signal", "park"}
Idle == [at |-> "idle", obj |-> None, ev |-> NoEvent, assoc |-> FALSE]

\* The types; in particular the totals of the pools stay within iv_max, though
\* elements are made by the main thread and released by the workers.
TypeOK ==
    /\ inUse \subseteq Threads
    /\ freeList \in Seq(Threads)
    /\ total \in 0 .. MaxThreads
    /\ objFree \in Seq(Objects)
    /\ objTotal \in 0 .. MaxObjects
    /\ live \in [Objects -> BOOLEAN]
    /\ seq \in [Objects -> 0 .. MaxTxns]
    /\ thread \in [Objects -> Threads \cup {None}]
    /\ pending \in [Objects -> BOOLEAN]
    /\ eventQ \in [Objects -> Seq(Event)]
    /\ cleanup \in [Objects -> Nat]
    /\ qlock \in [Objects -> Pushers \cup {"nobody"}]
    /\ disQ \in Seq(Objects)
    /\ nextSeq \in 1 .. MaxTxns + 1
    /\ pc \in [Threads -> WorkerPc]
    /\ threadQ \in [Threads -> Seq(Objects)]
    /\ txn \in [Threads -> Objects \cup {None}]
    /\ msg \in [Threads -> Event \cup {NoEvent}]
    /\ push \in [Pushers -> {Idle} \cup [at : PusherPc, obj : Objects,
                                         ev : Event, assoc : BOOLEAN]]
    /\ waiting \subseteq 1 .. MaxTxns
    /\ ended \subseteq 1 .. MaxTxns
    /\ sent \in 0 .. MaxRequests
    /\ overlap \in BOOLEAN
    /\ aborted \in BOOLEAN

Init ==
    /\ inUse = {}
    /\ freeList = << >>
    /\ total = 0
    /\ objFree = << >>
    /\ objTotal = 0
    /\ live = [o \in Objects |-> FALSE]
    /\ seq = [o \in Objects |-> 0]
    /\ thread = [o \in Objects |-> None]
    /\ pending = [o \in Objects |-> FALSE]
    /\ eventQ = [o \in Objects |-> << >>]
    /\ cleanup = [o \in Objects |-> 0]
    /\ qlock = [o \in Objects |-> "nobody"]
    /\ disQ = << >>
    /\ nextSeq = 1
    /\ pc = [t \in Threads |-> "none"]
    /\ threadQ = [t \in Threads |-> << >>]
    /\ txn = [t \in Threads |-> None]
    /\ msg = [t \in Threads |-> NoEvent]
    /\ push = [p \in Pushers |-> Idle]
    /\ waiting = {}
    /\ ended = {}
    /\ sent = 0
    /\ overlap = FALSE
    /\ aborted = FALSE

-----------------------------------------------------------------------------
(* The main thread begins transactions and receives requests.              *)

\* Mutant: one element more than the maximum.
NewElementAtMax(free, count, low, max) ==
    IF count >= low /\ free # << >> THEN Head(free)
    ELSE IF count <= max THEN count + 1 ELSE None

\* newElement: the front of the free list once there are low elements, a new
\* one while there are fewer than max, or NULL.
newElement(free, count, low, max) ==
    IF count >= low /\ free # << >> THEN Head(free)
    ELSE IF count < max THEN count + 1 ELSE None

\* The memory of an object that was not constructed, or was deleted: the first
\* such object.
FirstUnmade(o) ==
    LET unmade == {u \in Objects : ~live[u] /\ \A i \in 1 .. Len(objFree) : objFree[i] # u}
    IN o \in unmade /\ \A u \in unmade : o <= u

\* tm_process_req_begin takes an object of the pool (newElement again: from the
\* free list, or a new one, or FETOOMANYTRANSBEGINS) and initializes it.  The
\* event queue of an object of the free list is left as it is.
new_tx ==
    \E o \in Objects :
    /\ ~aborted
    /\ nextSeq <= MaxTxns
    /\ nextSeq' = nextSeq + 1
    /\ \/ /\ objTotal >= LowObjects /\ objFree # << >>
          /\ o = Head(objFree)
          /\ objFree' = Tail(objFree)
          /\ UNCHANGED <<objTotal, eventQ>>
       \/ /\ objTotal < LowObjects \/ objFree = << >>
          /\ objTotal < MaxObjects
          /\ FirstUnmade(o)
          /\ objTotal' = objTotal + 1
          /\ eventQ' = [eventQ EXCEPT ![o] = << >>]
          /\ UNCHANGED objFree
    /\ live' = [live EXCEPT ![o] = TRUE]
    /\ seq' = [seq EXCEPT ![o] = nextSeq]
    /\ thread' = [thread EXCEPT ![o] = None]
    /\ pending' = [pending EXCEPT ![o] = FALSE]
    /\ cleanup' = [cleanup EXCEPT ![o] = 0]
    /\ UNCHANGED <<poolVars, qlock, disQ, workVars, push, clientVars, aborted>>

\* A request arrives and get_tx finds the object of its transaction.
Request(p, o, k) ==
    /\ ~aborted
    /\ push[p] = Idle
    /\ live[o]
    /\ sent < MaxRequests
    /\ push' = [push EXCEPT ![p] =
          [at |-> "good", obj |-> o, ev |-> [seq |-> seq[o], kind |-> k], assoc |-> FALSE]]
    /\ waiting' = waiting \cup {seq[o]}
    /\ ended' = IF k = "forget" THEN ended \cup {seq[o]} ELSE ended
    /\ sent' = sent + 1
    /\ overlap' = (overlap \/ seq[o] \in waiting \cup ended)
    /\ UNCHANGED <<objPool, poolVars, objVars, disQ, nextSeq, workVars, aborted>>

txn_object_good(o, s) == cleanup[o] = 0 /\ live[o] /\ seq[o] = s

\* queueToTransaction: under the Qmutex a request for a transaction that has
\* gone is refused; otherwise eventQ_push runs to its end under the Qmutex.
\* ip_Thread and iv_threadPending are read one after the other, and associate
\* does not hold the Qmutex.
queueToTransaction(p) ==
    LET o == push[p].obj  s == push[p].ev.seq IN
    /\ ~aborted
    /\ push[p].at = "good"
    /\ qlock[o] = "nobody"
    /\ IF txn_object_good(o, s)
       THEN /\ qlock' = [qlock EXCEPT ![o] = p]
            /\ push' = [push EXCEPT
                  ![p].at = IF thread[o] # None THEN "push" ELSE "test",
                  ![p].assoc = thread[o] # None]
            /\ UNCHANGED waiting
       ELSE /\ push' = [push EXCEPT ![p] = Idle]
            /\ waiting' = waiting \ {s}      \* the reply is FEINVTRANSID
            /\ UNCHANGED qlock
    /\ UNCHANGED <<objPool, poolVars, live, seq, thread, pending, eventQ, cleanup,
                   disQ, nextSeq, workVars, ended, sent, overlap, aborted>>

TestPending(p) ==
    LET o == push[p].obj IN
    /\ ~aborted
    /\ push[p].at = "test"
    /\ push' = [push EXCEPT ![p].at = IF pending[o] THEN "push" ELSE "new_thread"]
    /\ pending' = [pending EXCEPT ![o] = TRUE]
    /\ UNCHANGED <<objPool, poolVars, live, seq, thread, eventQ, cleanup, qlock, disQ,
                   nextSeq, workVars, clientVars, aborted>>

\* new_thread puts an INITIALIZE event on top of the queue of the thread, which
\* newElement has reset; without a thread iv_threadPending is taken back.
new_thread(p) ==
    LET o == push[p].obj
        t == newElement(freeList, total, LowThreads, MaxThreads) IN
    /\ ~aborted
    /\ push[p].at = "new_thread"
    /\ \/ /\ t # None
          /\ IF t > total
             THEN total' = t /\ UNCHANGED freeList
             ELSE freeList' = Tail(freeList) /\ UNCHANGED total
          /\ inUse' = inUse \cup {t}
          /\ pc' = [pc EXCEPT ![t] = "idle"]
          /\ txn' = [txn EXCEPT ![t] = None]
          /\ threadQ' = [threadQ EXCEPT ![t] = <<o>> \o @]
          /\ push' = [push EXCEPT ![p].at = "push", ![p].assoc = TRUE]
          /\ UNCHANGED pending
       \/ /\ t = None
          /\ pending' = [pending EXCEPT ![o] = FALSE]
          /\ push' = [push EXCEPT ![p].at = "push"]
          /\ UNCHANGED <<poolVars, pc, txn, threadQ>>
    /\ UNCHANGED <<objPool, live, seq, thread, eventQ, cleanup, qlock, disQ,
                   nextSeq, msg, clientVars, aborted>>

eventQ_push(p) ==
    LET o == push[p].obj IN
    /\ ~aborted
    /\ push[p].at = "push"
    /\ eventQ' = [eventQ EXCEPT ![o] = Append(@, push[p].ev)]
    /\ push' = [push EXCEPT ![p].at = "signal"]
    /\ UNCHANGED <<objPool, poolVars, live, seq, thread, pending, cleanup, qlock, disQ,
                   nextSeq, workVars, clientVars, aborted>>

\* An object with a thread is signalled.
Signal(p) ==
    LET o == push[p].obj IN
    /\ ~aborted
    /\ push[p].at = "signal"
    /\ IF thread[o] # None
       THEN /\ push' = [push EXCEPT ![p] = Idle]
            /\ qlock' = [qlock EXCEPT ![o] = "nobody"]
       ELSE /\ push' = [push EXCEPT ![p].at = "park"]
            /\ UNCHANGED qlock
    /\ UNCHANGED <<objPool, poolVars, live, seq, thread, pending, eventQ, cleanup,
                   disQ, nextSeq, workVars, clientVars, aborted>>

\* Mutant: pv_threadAssociated is not looked at.
ParkAlways(p) ==
    LET o == push[p].obj IN
    /\ ~aborted
    /\ push[p].at = "park"
    /\ disQ' = Append(disQ, o)
    /\ push' = [push EXCEPT ![p] = Idle]
    /\ qlock' = [qlock EXCEPT ![o] = "nobody"]
    /\ UNCHANGED <<objPool, poolVars, live, seq, thread, pending, eventQ, cleanup,
                   nextSeq, workVars, clientVars, aborted>>

\* One with no thread, no pending thread and none asked for here is put on
\* txdisassociatedQ.
Park(p) ==
    LET o == push[p].obj IN
    /\ ~aborted
    /\ push[p].at = "park"
    /\ disQ' = IF pending[o] \/ push[p].assoc THEN disQ ELSE Append(disQ, o)
    /\ push' = [push EXCEPT ![p] = Idle]
    /\ qlock' = [qlock EXCEPT ![o] = "nobody"]
    /\ UNCHANGED <<objPool, poolVars, live, seq, thread, pending, eventQ, cleanup,
                   nextSeq, workVars, clientVars, aborted>>

-----------------------------------------------------------------------------
(* The worker threads: txThread_main.                                      *)

\* An INITIALIZE event: the first half of associate, under the locks of the
\* thread and of the object.
associate(t) ==
    LET o == Head(threadQ[t]) IN
    /\ ~aborted
    /\ pc[t] = "idle"
    /\ threadQ[t] # << >>
    /\ threadQ' = [threadQ EXCEPT ![t] = Tail(@)]
    /\ txn' = [txn EXCEPT ![t] = o]
    /\ thread' = [thread EXCEPT ![o] = t]
    /\ pending' = [pending EXCEPT ![o] = FALSE]
    /\ pc' = [pc EXCEPT ![t] = "purge"]
    /\ UNCHANGED <<objPool, poolVars, live, seq, eventQ, cleanup, qlock, disQ, nextSeq,
                   msg, push, clientVars, aborted>>

\* Its second half: the object leaves txdisassociatedQ.  erase leaves the
\* iterator of the deque invalid and get_nextFIFO goes on from it: a purge that
\* has found one entry may pass over others or leave the deque at its front.
PurgeQueue(t) ==
    LET n == Len(disQ)
        entries == {i \in 1 .. n : disQ[i] = txn[t]} IN
    /\ ~aborted
    /\ pc[t] = "purge"
    /\ \/ /\ entries = {}
          /\ UNCHANGED <<disQ, aborted>>
       \/ /\ entries # {}
          /\ \E m \in 0 .. n - 1 : \E left \in [1 .. m -> 1 .. n] :
                /\ \A i, j \in 1 .. m : i < j => left[i] < left[j]
                /\ (1 .. n) \ {left[i] : i \in 1 .. m} \subseteq entries
                /\ disQ' = [i \in 1 .. m |-> disQ[left[i]]]
          /\ aborted' \in BOOLEAN
    /\ pc' = [pc EXCEPT ![t] = "pop"]
    /\ UNCHANGED <<objPool, poolVars, objVars, nextSeq, threadQ, txn, msg, push,
                   clientVars>>

\* eventQ_pop calls abort() when the object belongs to another thread ...
eventQ_pop(t) ==
    /\ ~aborted
    /\ pc[t] = "pop"
    /\ aborted' = (thread[txn[t]] # t)
    /\ pc' = [pc EXCEPT ![t] = "wait"]
    /\ UNCHANGED <<objPool, poolVars, objVars, disQ, nextSeq, threadQ, txn, msg, push, clientVars>>

\* ... waits for an event, takes it, and looks at the thread again.
TakeEvent(t) ==
    LET o == txn[t] IN
    /\ ~aborted
    /\ pc[t] = "wait"
    /\ eventQ[o] # << >>
    /\ eventQ' = [eventQ EXCEPT ![o] = Tail(@)]
    /\ msg' = [msg EXCEPT ![t] = Head(eventQ[o])]
    /\ aborted' = (thread[o] # t)
    /\ pc' = [pc EXCEPT ![t] = "handle"]
    /\ UNCHANGED <<objPool, poolVars, live, seq, thread, pending, cleanup, qlock, disQ,
                   nextSeq, threadQ, txn, push, clientVars>>

\* process_eventQ calls the handler, which replies before its last part.
Handle(t) ==
    /\ ~aborted
    /\ pc[t] = "handle"
    /\ waiting' = waiting \ {msg[t].seq}
    /\ pc' = [pc EXCEPT ![t] = IF msg[t].kind = "forget" THEN "forget" ELSE "next"]
    /\ UNCHANGED <<objPool, poolVars, objVars, disQ, nextSeq, threadQ, txn, msg, push,
                   ended, sent, overlap, aborted>>

\* req_forget: inc_cleanup, under the Qmutex; process_eventQ returns.
req_forget(t) ==
    LET o == txn[t] IN
    /\ ~aborted
    /\ pc[t] = "forget"
    /\ qlock[o] = "nobody"
    /\ cleanup' = [cleanup EXCEPT ![o] = @ + 1]
    /\ msg' = [msg EXCEPT ![t] = NoEvent]
    /\ pc' = [pc EXCEPT ![t] = "disassociate"]
    /\ UNCHANGED <<objPool, poolVars, live, seq, thread, pending, eventQ, qlock, disQ,
                   nextSeq, threadQ, txn, push, clientVars, aborted>>

\* The end of a round of process_eventQ: it leaves when there is no more
\* event, or one for the thread itself, found through ip_Thread.
process_eventQ(t) ==
    LET o == txn[t] IN
    /\ ~aborted
    /\ pc[t] = "next"
    /\ msg' = [msg EXCEPT ![t] = NoEvent]
    /\ aborted' = (eventQ[o] # << >> /\ thread[o] = None)
    /\ pc' = [pc EXCEPT ![t] =
          IF eventQ[o] # << >> /\ thread[o] # None /\ threadQ[thread[o]] = << >>
          THEN "pop" ELSE "disassociate"]
    /\ UNCHANGED <<objPool, poolVars, objVars, disQ, nextSeq, threadQ, txn, push, clientVars>>

\* Mutant: the worker does not look at the event queue before it leaves.
LeaveUnseen(t) ==
    LET o == txn[t] IN
    /\ ~aborted
    /\ pc[t] = "disassociate"
    /\ qlock[o] = "nobody"
    /\ cleanup' = [cleanup EXCEPT ![o] = IF @ > 0 THEN @ - 1 ELSE 0]
    /\ IF cleanup[o] = 1
       THEN pc' = [pc EXCEPT ![t] = "cleanup"] /\ UNCHANGED <<thread, txn>>
       ELSE /\ thread' = [thread EXCEPT ![o] = None]
            /\ txn' = [txn EXCEPT ![t] = None]
            /\ pc' = [pc EXCEPT ![t] = "release"]
    /\ UNCHANGED <<objPool, poolVars, live, seq, pending, eventQ, qlock, disQ, nextSeq,
                   threadQ, msg, push, clientVars, aborted>>

\* disassociate, under the Qmutex: back to the events if there are any.  The
\* worker that takes iv_cleanup_sem from one to zero will clean up; any other
\* takes its thread pointer out of the object.
disassociate(t) ==
    LET o == txn[t]
        last == cleanup[o] = 1
        left == [cleanup EXCEPT ![o] = IF @ > 0 THEN @ - 1 ELSE 0] IN
    /\ ~aborted
    /\ pc[t] = "disassociate"
    /\ qlock[o] = "nobody"
    /\ \/ /\ eventQ[o] # << >>
          /\ pc' = [pc EXCEPT ![t] = "pop"]
          /\ UNCHANGED <<cleanup, thread, txn>>
       \/ /\ eventQ[o] = << >>
          /\ last
          /\ cleanup' = left
          /\ pc' = [pc EXCEPT ![t] = "cleanup"]
          /\ UNCHANGED <<thread, txn>>
       \/ /\ eventQ[o] = << >>
          /\ ~last
          /\ cleanup' = left
          /\ thread' = [thread EXCEPT ![o] = None]
          /\ txn' = [txn EXCEPT ![t] = None]
          /\ pc' = [pc EXCEPT ![t] = "release"]
    /\ UNCHANGED <<objPool, poolVars, live, seq, pending, eventQ, qlock, disQ, nextSeq,
                   threadQ, msg, push, clientVars, aborted>>

\* The threads that work for an object, or were told to.
Servers(o) ==
    {t \in Threads : txn[t] = o \/ \E i \in 1 .. Len(threadQ[t]) : threadQ[t][i] = o}

\* Somebody besides the thread t has a pointer to the object.
Referred(o, t) ==
    \/ Servers(o) \ {t} # {}
    \/ \E p \in Pushers : push[p].obj = o
    \/ \E i \in 1 .. Len(disQ) : disQ[i] = o

\* TM_Info::cleanup, after the Qmutex was released: the object returns to the
\* transaction pool, which deletes it above its steady state.  What is done
\* with the pointer to a deleted object may bring the process down.
Cleanup(t) ==
    LET o == txn[t] IN
    /\ ~aborted
    /\ pc[t] = "cleanup"
    /\ \/ /\ live[o]
          /\ objTotal <= HighObjects
          /\ live' = [live EXCEPT ![o] = FALSE]
          /\ objFree' = <<o>> \o objFree
          /\ UNCHANGED <<objTotal, aborted>>
       \/ /\ live[o]
          /\ objTotal > HighObjects
          /\ live' = [live EXCEPT ![o] = FALSE]
          /\ objTotal' = objTotal - 1
          /\ aborted' \in IF Referred(o, t) THEN BOOLEAN ELSE {FALSE}
          /\ UNCHANGED objFree
       \/ /\ ~live[o]
          /\ UNCHANGED <<live, objFree, objTotal, aborted>>
    /\ txn' = [txn EXCEPT ![t] = None]
    /\ pc' = [pc EXCEPT ![t] = "release"]
    /\ UNCHANGED <<poolVars, seq, thread, pending, eventQ, cleanup, qlock,
                   disQ, nextSeq, threadQ, msg, push, clientVars>>

\* Mutant: the entry is taken and the thread told nothing.
CheckAndForget(t) ==
    LET ready == {i \in 1 .. Len(disQ) : eventQ[disQ[i]] # << >>} IN
    /\ ~aborted
    /\ pc[t] = "release"
    /\ disQ' = IF ready = {} THEN disQ ELSE Tail(disQ)
    /\ pc' = [pc EXCEPT ![t] = "free"]
    /\ UNCHANGED <<objPool, poolVars, objVars, nextSeq, threadQ, txn, msg, push,
                   clientVars, aborted>>

\* release_thread: the oldest entry of txdisassociatedQ with an event gives
\* this thread its next object.
check_for_queued_requests(t) ==
    LET ready == {i \in 1 .. Len(disQ) : eventQ[disQ[i]] # << >>} IN
    /\ ~aborted
    /\ pc[t] = "release"
    /\ \/ \E i \in ready :
             /\ \A j \in ready : i <= j
             /\ disQ' = SubSeq(disQ, 1, i - 1) \o SubSeq(disQ, i + 1, Len(disQ))
             /\ threadQ' = [threadQ EXCEPT ![t] = <<disQ[i]>> \o @]
             /\ pc' = [pc EXCEPT ![t] = "idle"]
       \/ /\ ready = {}
          /\ pc' = [pc EXCEPT ![t] = "free"]
          /\ UNCHANGED <<disQ, threadQ>>
    /\ UNCHANGED <<objPool, poolVars, objVars, nextSeq, txn, msg, push, clientVars, aborted>>

\* Mutant: the element stays on the list of elements in use.
DeleteKeepsInUse(t) ==
    /\ ~aborted
    /\ pc[t] = "free"
    /\ freeList' = <<t>> \o freeList
    /\ pc' = [pc EXCEPT ![t] = "idle"]
    /\ UNCHANGED <<objPool, inUse, total, objVars, disQ, nextSeq, threadQ, txn, msg, push,
                   clientVars, aborted>>

\* deleteElement: the thread goes to the front of the free list.
deleteElement(t) ==
    /\ ~aborted
    /\ pc[t] = "free"
    /\ inUse' = inUse \ {t}
    /\ freeList' = <<t>> \o freeList
    /\ pc' = [pc EXCEPT ![t] = "idle"]
    /\ UNCHANGED <<objPool, total, objVars, disQ, nextSeq, threadQ, txn, msg, push,
                   clientVars, aborted>>

-----------------------------------------------------------------------------
Pusher(p) ==
    \/ queueToTransaction(p) \/ TestPending(p) \/ new_thread(p)
    \/ eventQ_push(p) \/ Signal(p) \/ Park(p)

Worker(t) ==
    \/ associate(t) \/ PurgeQueue(t) \/ eventQ_pop(t) \/ TakeEvent(t)
    \/ Handle(t) \/ req_forget(t) \/ process_eventQ(t) \/ disassociate(t)
    \/ Cleanup(t) \/ check_for_queued_requests(t) \/ deleteElement(t)

Next ==
    \/ new_tx
    \/ \E p \in Pushers, o \in Objects, k \in {"keep", "forget"} : Request(p, o, k)
    \/ \E p \in Pushers : Pusher(p)
    \/ \E t \in Threads : Worker(t)

Spec == Init /\ [][Next]_vars

\* Every thread that can run does; clients may stop.
FairSpec ==
    /\ Spec
    /\ \A p \in Pushers : WF_vars(Pusher(p))
    /\ \A t \in Threads : WF_vars(Worker(t))
-----------------------------------------------------------------------------
(* Properties.                                                             *)

\* The thread pool is sound: a thread that was constructed is either in use or
\* on the free list, once, iv_total counts both, and a thread on the free list
\* has no transaction and no INITIALIZE event, so that newElement may reset it.
PoolSound ==
    LET free == {freeList[i] : i \in 1 .. Len(freeList)} IN
    /\ {t \in Threads : pc[t] # "none"} = inUse \cup free
    /\ inUse \cap free = {}
    /\ total = Cardinality(inUse) + Len(freeList)
    /\ total = Cardinality(inUse) + Cardinality(free)
    /\ \A t \in free : pc[t] = "idle" /\ threadQ[t] = << >> /\ txn[t] = None

\* At most one thread works for a transaction object, or was told to by
\* new_thread or check_for_queued_requests, and ip_Thread names that thread:
\* eventQ_pop calls abort() otherwise.  pv_threadAssociated and
\* iv_threadPending are there to see to it.
OneServer ==
    \A o \in Objects :
        /\ Cardinality(Servers(o)) <= 1
        /\ \A t \in Threads : txn[t] = o => thread[o] = t

\* Until two requests of a transaction overlap, an object has one server and
\* none of the consistency checks of the threads (eventQ_pop, the NULL pointer
\* of process_eventQ, the erased iterator of associate, a deleted object)
\* brings the process down.
OneServerInTurn == overlap \/ (OneServer /\ ~aborted)

\* Until two requests of a transaction overlap, an event in iv_eventQ is known
\* to somebody: a thread that serves the object or is asked to, the thread that
\* queued it, or txdisassociatedQ; and the object is in use.
WorkIsKnown ==
    \A o \in Objects : ~overlap /\ eventQ[o] # << >> =>
        /\ live[o]
        /\ \/ Servers(o) # {}
           \/ \E i \in 1 .. Len(disQ) : disQ[i] = o
           \/ \E p \in Pushers : push[p].obj = o

\* process_eventQ handles an event for the transaction it was sent to, not for
\* the one that has taken over its object from the pool: nothing is queued to
\* a transaction that its thread is leaving (disassociate).
RightTransaction ==
    \A t \in Threads : pc[t] = "handle" =>
        live[txn[t]] /\ msg[t].seq = seq[txn[t]]

\* A request that was left on txdisassociatedQ when the last thread had gone
\* back to the pool: eventQ_push found the pool exhausted, and the thread
\* looked at txdisassociatedQ before the entry was there.
LeftBehind(s) ==
    \E o \in Objects :
        /\ seq[o] = s
        /\ inUse = {}
        /\ \E i \in 1 .. Len(disQ) : disQ[i] = o

\* Every request is answered, also with more transactions than threads, except
\* one that is left behind, or when requests of a transaction overlap: then the
\* process may go down, or a reply be lost with the object.
Answered ==
    \A s \in 1 .. MaxTxns :
        s \in waiting ~> (s \notin waiting \/ LeftBehind(s) \/ overlap)
=============================================================================
