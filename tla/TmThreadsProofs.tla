-------------------------- MODULE TmThreadsProofs --------------------------
(***************************************************************************)
(* Proofs about the threads and pools of the TM (module TmThreads), for    *)
(* every size of the pools and any number of threads that queue requests.  *)
(* That the thread pool is sound, and the types, hold whoever sends        *)
(* requests, from invariants of their own (PoolCore, TypeInv).  The others *)
(* hold until two requests of one transaction are under way at a time: the *)
(* invariant is overlap \/ Inv, and the run tm_threads_late shows what an   *)
(* overlap does.                                                           *)
(*                                                                         *)
(* None of the properties is inductive.  That an object has one server,    *)
(* for instance, depends on what the main thread saw when it asked for a   *)
(* thread: nobody serves the object from the moment eventQ_push read       *)
(* ip_Thread to the moment the INITIALIZE event is queued, which is so     *)
(* because the transaction has no other request under way that could have  *)
(* brought the object to txdisassociatedQ, and from there to a worker.     *)
(* The invariant Inv says it in four groups: Control (where a thread is    *)
(* and which list it is on), Life (objects, transactions and their end),   *)
(* Service (who serves an object, and what its queue holds) and Queueing   *)
(* (what a thread may assume at each step of queueToTransaction).  The one *)
(* idea behind it is that of a single request in flight: it is carried by  *)
(* a pusher, is the only event of iv_eventQ, or is being handled, and is   *)
(* never in two of these places.                                           *)
(*                                                                         *)
(* Every step lemma has one step per group and under it one per conjunct.  *)
(* The conjuncts a step does not touch follow from the Keep lemmas; its    *)
(* <1>u says what the step leaves alone, <1>e and <1>p what it does to the *)
(* queues and to the record of the pusher.                                 *)
(***************************************************************************)
EXTENDS TmThreads, TLAPS, FiniteSetTheorems, SequenceTheorems

-----------------------------------------------------------------------------
(* Sequences without repetition.                                           *)

\* No element occurs twice.
Distinct(q) == \A i, j \in 1 .. Len(q) : q[i] = q[j] => i = j
InSeq(q, x) == \E i \in 1 .. Len(q) : q[i] = x

\* push_front of a list.
Cons(x, q) == <<x>> \o q
\* erase of an entry.
Without(q, i) == SubSeq(q, 1, i - 1) \o SubSeq(q, i + 1, Len(q))

\* What push_front does to the members of a list.
LEMMA ConsFacts ==
    ASSUME NEW S, NEW q \in Seq(S), NEW x \in S
    PROVE  /\ Cons(x, q) \in Seq(S) /\ Len(Cons(x, q)) = Len(q) + 1
           /\ \A y : InSeq(Cons(x, q), y) <=> (y = x \/ InSeq(q, y))
           /\ Distinct(q) /\ ~InSeq(q, x) => Distinct(Cons(x, q))
<1> DEFINE r == Cons(x, q)
<1>1. r \in Seq(S) /\ Len(r) = Len(q) + 1 /\ Len(q) \in Nat
  BY DEF Cons
<1>2. r[1] = x /\ \A i \in 2 .. Len(q) + 1 : r[i] = q[i - 1]
  BY DEF Cons
<1> HIDE DEF r
<1>3. \A y : InSeq(r, y) <=> (y = x \/ InSeq(q, y))
  <2>1. ASSUME NEW y, InSeq(r, y) PROVE y = x \/ InSeq(q, y)
    <3>1. PICK i \in 1 .. Len(r) : r[i] = y
      BY <2>1 DEF InSeq
    <3>2. CASE i = 1
      BY <3>1, <3>2, <1>2
    <3>3. CASE i # 1
      <4>1. i - 1 \in 1 .. Len(q) /\ q[i - 1] = y
        BY <3>1, <3>3, <1>1, <1>2
      <4> QED BY <4>1 DEF InSeq
    <3> QED BY <3>2, <3>3
  <2>2. InSeq(r, x)
    <3>1. 1 \in 1 .. Len(r)
      BY <1>1
    <3> QED BY <3>1, <1>2 DEF InSeq
  <2>3. ASSUME NEW y, InSeq(q, y) PROVE InSeq(r, y)
    <3>1. PICK i \in 1 .. Len(q) : q[i] = y
      BY <2>3 DEF InSeq
    <3>2. i + 1 \in 1 .. Len(r) /\ i + 1 \in 2 .. Len(q) + 1 /\ (i + 1) - 1 = i
      BY <3>1, <1>1
    <3>3. r[i + 1] = y
      BY <3>1, <3>2, <1>2
    <3> QED BY <3>2, <3>3 DEF InSeq
  <2> QED BY <2>1, <2>2, <2>3
<1>4. ASSUME Distinct(q), ~InSeq(q, x) PROVE Distinct(r)
  <2> SUFFICES ASSUME NEW i \in 1 .. Len(r), NEW j \in 1 .. Len(r), r[i] = r[j]
               PROVE  i = j
    BY DEF Distinct
  <2>1. \A k \in 1 .. Len(r) : k # 1 => k - 1 \in 1 .. Len(q) /\ r[k] = q[k - 1] /\ r[k] # x
    <3>1. \A k \in 1 .. Len(r) : k # 1 => k - 1 \in 1 .. Len(q) /\ r[k] = q[k - 1]
      BY <1>1, <1>2
    <3> QED BY <3>1, <1>4 DEF InSeq
  <2>2. CASE i = 1 \/ j = 1
    BY <2>1, <2>2, <1>2
  <2>3. CASE i # 1 /\ j # 1
    <3>1. q[i - 1] = q[j - 1] /\ i - 1 \in 1 .. Len(q) /\ j - 1 \in 1 .. Len(q)
      BY <2>1, <2>3
    <3>2. i - 1 = j - 1
      BY <3>1, <1>4 DEF Distinct
    <3> QED BY <3>2, <1>1
  <2> QED BY <2>2, <2>3
<1> QED BY <1>1, <1>3, <1>4 DEF r

\* What taking the front does.
LEMMA TailFacts ==
    ASSUME NEW S, NEW q \in Seq(S), q # << >>, NEW x, x = Head(q), NEW r, r = Tail(q)
    PROVE  /\ x \in S /\ r \in Seq(S) /\ Len(q) = Len(r) + 1 /\ InSeq(q, x)
           /\ \A y : InSeq(r, y) => InSeq(q, y)
           /\ \A y : InSeq(q, y) => y = x \/ InSeq(r, y)
           /\ Distinct(q) => Distinct(r) /\ ~InSeq(r, x)
<1>1. /\ r \in Seq(S) /\ Len(q) = Len(r) + 1 /\ Len(r) \in Nat /\ x = q[1] /\ x \in S
      /\ \A i \in 1 .. Len(r) : r[i] = q[i + 1]
  OBVIOUS
<1>2. InSeq(q, x)
  <2>1. 1 \in 1 .. Len(q)
    BY <1>1
  <2> QED BY <2>1, <1>1 DEF InSeq
<1>3. ASSUME NEW y, InSeq(r, y) PROVE InSeq(q, y)
  <2>1. PICK i \in 1 .. Len(r) : r[i] = y
    BY <1>3 DEF InSeq
  <2>2. i + 1 \in 1 .. Len(q) /\ q[i + 1] = y
    BY <2>1, <1>1
  <2> QED BY <2>2 DEF InSeq
<1>4. ASSUME NEW y, InSeq(q, y), y # x PROVE InSeq(r, y)
  <2>1. PICK i \in 1 .. Len(q) : q[i] = y
    BY <1>4 DEF InSeq
  <2>2. i - 1 \in 1 .. Len(r) /\ (i - 1) + 1 = i
    BY <2>1, <1>1, <1>4
  <2>3. r[i - 1] = y
    BY <2>1, <2>2, <1>1
  <2> QED BY <2>2, <2>3 DEF InSeq
<1>5. ASSUME Distinct(q) PROVE Distinct(r) /\ ~InSeq(r, x)
  <2>1. \A i \in 1 .. Len(r) : i + 1 \in 1 .. Len(q) /\ i + 1 # 1 /\ r[i] = q[i + 1]
    BY <1>1
  <2>2. 1 \in 1 .. Len(q)
    BY <1>1
  <2>3. ~InSeq(r, x)
    BY <2>1, <2>2, <1>1, <1>5 DEF InSeq, Distinct
  <2>4. ASSUME NEW i \in 1 .. Len(r), NEW j \in 1 .. Len(r), r[i] = r[j] PROVE i = j
    <3>1. i + 1 = j + 1
      BY <2>1, <2>4, <1>5 DEF Distinct
    <3> QED BY <3>1
  <2> QED BY <2>3, <2>4 DEF Distinct
<1> QED BY <1>1, <1>2, <1>3, <1>4, <1>5

\* What push does to the members of a queue.
LEMMA AppendFacts ==
    ASSUME NEW S, NEW q \in Seq(S), NEW x \in S
    PROVE  /\ Append(q, x) \in Seq(S)
           /\ \A y : InSeq(Append(q, x), y) <=> (y = x \/ InSeq(q, y))
           /\ Distinct(q) /\ ~InSeq(q, x) => Distinct(Append(q, x))
<1> DEFINE r == Append(q, x)
<1>1. /\ r \in Seq(S) /\ Len(r) = Len(q) + 1 /\ Len(q) \in Nat /\ r[Len(r)] = x
      /\ \A i \in 1 .. Len(q) : r[i] = q[i]
  OBVIOUS
<1> HIDE DEF r
<1>2. /\ \A i \in 1 .. Len(q) : i \in 1 .. Len(r)
      /\ Len(r) \in 1 .. Len(r)
      /\ \A i \in 1 .. Len(r) : i = Len(r) \/ i \in 1 .. Len(q)
  BY <1>1
<1>3. \A y : InSeq(r, y) <=> (y = x \/ InSeq(q, y))
  BY <1>1, <1>2 DEF InSeq
<1>4. Distinct(q) /\ ~InSeq(q, x) => Distinct(r)
  BY <1>1, <1>2 DEF InSeq, Distinct
<1> QED BY <1>1, <1>3, <1>4 DEF r

\* What erase does to a queue without repetition.
LEMMA RemoveFacts ==
    ASSUME NEW S, NEW q \in Seq(S), NEW i \in 1 .. Len(q), Distinct(q)
    PROVE  /\ Without(q, i) \in Seq(S) /\ Distinct(Without(q, i))
           /\ \A y : InSeq(Without(q, i), y) <=> (InSeq(q, y) /\ y # q[i])
<1> DEFINE r == Without(q, i)
<1> DEFINE n == Len(q)
           a == SubSeq(q, 1, i - 1)
           b == SubSeq(q, i + 1, n)
<1>0. n \in Nat /\ i \in 1 .. n /\ i \in Nat
  OBVIOUS
<1>1. a \in Seq(S) /\ Len(a) = i - 1 /\ \A k \in 1 .. i - 1 : a[k] = q[k]
  <2>1. \A k \in 1 .. i - 1 : k \in 1 .. n
    BY <1>0
  <2> QED BY <1>0, <2>1, SubSeqProperties
<1>2. b \in Seq(S) /\ Len(b) = n - i /\ \A k \in 1 .. n - i : b[k] = q[i + k]
  <2>1. CASE i = n
    <3>1. b = << >>
      BY <2>1, <1>0, SubSeqEmpty
    <3> QED BY <3>1, <2>1, <1>0
  <2>2. CASE i < n
    <3>1. i + 1 \in 1 .. n + 1 /\ n \in i .. n
      BY <1>0, <2>2
    <3>2. b \in Seq(S) /\ Len(b) = n - i
      BY <1>0, <2>2, <3>1, SubSeqProperties
    <3>3. \A k \in 1 .. n - i : b[k] = q[(i + 1) + k - 1]
      BY <1>0, <2>2, <3>1, <3>2
    <3>4. \A k \in 1 .. n - i : (i + 1) + k - 1 = i + k
      BY <1>0
    <3> QED BY <3>2, <3>3, <3>4
  <2> QED BY <2>1, <2>2, <1>0
<1> HIDE DEF n, a, b, r
<1> DEFINE m(k) == IF k < i THEN k ELSE k + 1
<1>3. /\ r \in Seq(S) /\ Len(r) = n - 1
      /\ \A k \in 1 .. n - 1 : r[k] = q[m(k)]
  <2>1. r = a \o b
    BY DEF a, b, n, r, Without
  <2>2. /\ r \in Seq(S) /\ Len(r) = (i - 1) + (n - i)
        /\ \A k \in 1 .. (i - 1) + (n - i) : r[k] = IF k <= i - 1 THEN a[k] ELSE b[k - (i - 1)]
    <3>1. /\ a \o b \in Seq(S) /\ Len(a \o b) = Len(a) + Len(b)
          /\ \A k \in 1 .. Len(a) + Len(b) :
                 (a \o b)[k] = IF k <= Len(a) THEN a[k] ELSE b[k - Len(a)]
      BY <1>1, <1>2, ConcatProperties, Zenon
    <3> QED BY <3>1, <2>1, <1>1, <1>2, Zenon
  <2>3. (i - 1) + (n - i) = n - 1
    BY <1>0
  <2>4. ASSUME NEW k \in 1 .. n - 1 PROVE r[k] = q[m(k)]
    <3>1. CASE k < i
      <4>1. k <= i - 1 /\ k \in 1 .. i - 1
        BY <3>1, <1>0
      <4> QED BY <4>1, <3>1, <2>2, <2>3, <1>1
    <3>2. CASE ~(k < i)
      <4>1. ~(k <= i - 1) /\ k - (i - 1) \in 1 .. n - i /\ i + (k - (i - 1)) = k + 1
        BY <3>2, <1>0
      <4> QED BY <4>1, <3>2, <2>2, <2>3, <1>2
    <3> QED BY <3>1, <3>2
  <2> QED BY <2>2, <2>3, <2>4
<1>4. ASSUME NEW k \in 1 .. n - 1 PROVE m(k) \in 1 .. n /\ m(k) # i
  BY <1>0
<1>b. ASSUME NEW k \in 1 .. n - 1, NEW l \in 1 .. n - 1, m(k) = m(l) PROVE k = l
  BY <1>0, <1>b
<1>d. \A k, l \in 1 .. n : q[k] = q[l] => k = l
  BY DEF Distinct, n
<1>c. \A k \in 1 .. n : k # i => \E l \in 1 .. n - 1 : m(l) = k
  <2> SUFFICES ASSUME NEW k \in 1 .. n, k # i
               PROVE  \E l \in 1 .. n - 1 : m(l) = k
    OBVIOUS
  <2>1. CASE k < i
    <3>1. k \in 1 .. n - 1 /\ m(k) = k
      BY <2>1, <1>0
    <3> QED BY <3>1
  <2>2. CASE k > i
    <3>1. k - 1 \in 1 .. n - 1 /\ m(k - 1) = k
      BY <2>2, <1>0
    <3> QED BY <3>1
  <2> QED BY <2>1, <2>2, <1>0
<1> HIDE DEF m
<1>5. ASSUME NEW k \in 1 .. n - 1, NEW l \in 1 .. n - 1, r[k] = r[l] PROVE k = l
  BY <1>3, <1>4, <1>5, <1>d, <1>b
<1>6. ASSUME NEW y, InSeq(r, y) PROVE InSeq(q, y) /\ y # q[i]
  <2>1. PICK k \in 1 .. n - 1 : r[k] = y
    BY <1>6, <1>3 DEF InSeq
  <2>2. m(k) \in 1 .. n /\ q[m(k)] = y /\ m(k) # i
    BY <2>1, <1>3, <1>4
  <2> QED BY <2>2, <1>0, <1>d DEF InSeq, n
<1>7. ASSUME NEW y, InSeq(q, y), y # q[i] PROVE InSeq(r, y)
  <2>1. PICK k \in 1 .. n : q[k] = y
    BY <1>7 DEF InSeq, n
  <2>2. PICK l \in 1 .. n - 1 : m(l) = k
    BY <2>1, <1>7, <1>c
  <2>3. r[l] = y
    BY <2>1, <2>2, <1>3
  <2> QED BY <2>3, <1>3 DEF InSeq
<1> QED BY <1>3, <1>5, <1>6, <1>7 DEF Distinct, r

-----------------------------------------------------------------------------
(* The invariant.                                                          *)

\* The queues and the pushers' records, as the invariant looks at them.
Quiet(t) == threadQ[t] = << >>
Told(t, o) == threadQ[t] = <<o>>
Busy(o) == eventQ[o] # << >>
Queued(o, e) == eventQ[o] = <<e>>
Parked(o) == InSeq(disQ, o)
FreeThread(t) == InSeq(freeList, t)
FreeObject(o) == InSeq(objFree, o)
At(p) == push[p].at
Obj(p) == push[p].obj
Ev(p) == push[p].ev
Assoc(p) == push[p].assoc

\* A pusher that has yet to append its event; one that holds the Qmutex.
Carrying == {"good", "test", "new_thread", "push"}
Holding == {"test", "new_thread", "push", "signal", "park"}
\* Where a worker has no transaction.
Unserved == {"none", "idle", "release", "free"}
\* The thread works for the object, or has been told to.
Serves(t, o) == txn[t] = o \/ Told(t, o)
\* The event belongs to the transaction that has the object.
Sound(e, o) ==
    /\ e \in Event
    /\ e.seq = seq[o]
    /\ e.kind = "forget" => e.seq \in ended

\* A thread has at most one INITIALIZE event, and only while it is idle and in
\* use.
TellInv ==
    \A t \in Threads :
        /\ Quiet(t) \/ \E o \in Objects : Told(t, o)
        /\ ~Quiet(t) => pc[t] = "idle" /\ t \in inUse

\* A worker has a transaction exactly while it serves one; it leaves the idle
\* state only in use; the threads constructed are the first iv_total.
PcInv ==
    \A t \in Threads :
        /\ txn[t] = None <=> pc[t] \in Unserved
        /\ pc[t] \notin {"none", "idle"} => t \in inUse
        /\ pc[t] # "none" <=> t <= total

\* The lists of the thread pool.
PoolInv ==
    /\ Distinct(freeList)
    /\ total = Cardinality(inUse) + Len(freeList)
    /\ \A t \in Threads : t \in inUse \/ FreeThread(t) <=> t <= total
    /\ \A t \in Threads : FreeThread(t) => t \notin inUse /\ pc[t] = "idle" /\ Quiet(t)

\* The free list of the transaction pool holds objects that are not in use; the
\* ones in use have a sequence number that was given out.
ObjectInv ==
    /\ Distinct(objFree)
    /\ \A o \in Objects : FreeObject(o) => ~live[o]
    /\ \A o \in Objects : live[o] => seq[o] \in 1 .. nextSeq - 1

\* Sequence numbers name transactions.
SeqInv ==
    /\ \A o, u \in Objects : live[o] /\ live[u] /\ seq[o] = seq[u] => o = u
    /\ waiting \cup ended \subseteq 1 .. nextSeq - 1

\* One server for an object.
OneInv ==
    \A o \in Objects, t, u \in Threads : Serves(t, o) /\ Serves(u, o) => t = u

\* ip_txn and ip_Thread point at each other, while the object is in use.
OwnInv ==
    /\ \A t \in Threads : txn[t] # None => live[txn[t]] /\ thread[txn[t]] = t
    /\ \A o \in Objects : live[o] /\ thread[o] # None => txn[thread[o]] = o

\* A thread is told of an object that has work or is about to get it, and
\* iv_threadPending means that a thread was told or is being asked for.
ToldInv ==
    /\ \A t \in Threads, o \in Objects : Told(t, o) =>
           live[o] /\ (Busy(o) \/ \E p \in Pushers : Obj(p) = o /\ At(p) = "push")
    /\ \A o \in Objects : pending[o] =>
           \/ \E t \in Threads : Told(t, o)
           \/ \E p \in Pushers : Obj(p) = o /\ At(p) = "new_thread"

\* iv_eventQ has at most one event: the request its client is waiting for.
QueueInv ==
    \A o \in Objects : Busy(o) =>
        /\ \E e \in Event : Queued(o, e) /\ Sound(e, o)
        /\ live[o] /\ seq[o] \in waiting

\* The event in a handler was the only one, and it is still to be answered.
HandleInv ==
    \A t \in Threads : pc[t] = "handle" =>
        ~Busy(txn[t]) /\ Sound(msg[t], txn[t]) /\ seq[txn[t]] \in waiting

\* iv_cleanup_sem is raised once, after the client that asked for the end was
\* answered, by the worker that will take it down.
EndInv ==
    /\ \A t \in Threads : pc[t] \in {"forget", "cleanup"} =>
           seq[txn[t]] \in ended /\ seq[txn[t]] \notin waiting /\ cleanup[txn[t]] = 0
    /\ \A o \in Objects : cleanup[o] # 0 =>
           /\ cleanup[o] = 1 /\ live[o] /\ seq[o] \in ended /\ seq[o] \notin waiting
           /\ \E t \in Threads : txn[t] = o /\ pc[t] = "disassociate"

\* While a request is being queued its transaction does not go away.
PushInv ==
    \A p \in Pushers : At(p) # "idle" =>
        /\ live[Obj(p)] /\ cleanup[Obj(p)] = 0 /\ Sound(Ev(p), Obj(p))
        /\ \A t \in Threads : txn[t] = Obj(p) => pc[t] # "cleanup"

\* The Qmutex.
LockInv ==
    /\ \A p \in Pushers : At(p) \in Holding => qlock[Obj(p)] = p
    /\ \A o \in Objects : qlock[o] # "nobody" =>
           Obj(qlock[o]) = o /\ At(qlock[o]) \in Holding

\* A request that is being queued is the only one of its transaction.
CarryInv ==
    /\ \A p \in Pushers : At(p) \in Carrying =>
           /\ seq[Obj(p)] \in waiting /\ ~Busy(Obj(p))
           /\ \A t \in Threads : txn[t] = Obj(p) => pc[t] # "handle"
    /\ \A p, q \in Pushers :
           At(p) \in Carrying /\ At(q) \in Carrying /\ Obj(p) = Obj(q) => p = q

\* Nobody serves an object for which a thread is being asked for.
AskInv ==
    \A p \in Pushers : At(p) \in {"test", "new_thread"} =>
        ~Assoc(p) /\ \A t \in Threads : ~Serves(t, Obj(p))

\* pv_threadAssociated is true exactly when somebody serves the object.
AssocInv ==
    \A p \in Pushers : At(p) \in {"push", "signal", "park"} =>
        /\ Assoc(p) => \E t \in Threads : Serves(t, Obj(p))
        /\ ~Assoc(p) => \A t \in Threads : ~Serves(t, Obj(p))
        /\ ~Assoc(p) /\ At(p) # "push" => Busy(Obj(p))

\* An object is on txdisassociatedQ once, with work, and with nobody to serve it
\* or about to queue to it.
ParkedInv ==
    /\ Distinct(disQ)
    /\ \A o \in Objects : Parked(o) =>
           /\ live[o] /\ Busy(o)
           /\ \A t \in Threads : ~Serves(t, o)
           /\ \A p \in Pushers : Obj(p) # o

\* An object in the pool has neither clean-up nor a thread pending.
DeadInv == \A o \in Objects : ~live[o] => cleanup[o] = 0 /\ ~pending[o]

\* Work is known to somebody.
KnownInv ==
    \A o \in Objects : Busy(o) =>
        \/ \E t \in Threads : Serves(t, o)
        \/ Parked(o)
        \/ \E p \in Pushers : Obj(p) = o

\* The process runs.
NotAborted == ~aborted

\* The groups, and the invariant.
Control == TellInv /\ PcInv /\ PoolInv
Life == ObjectInv /\ SeqInv /\ DeadInv /\ EndInv
Service == OneInv /\ OwnInv /\ ToldInv /\ QueueInv /\ HandleInv /\ KnownInv /\ ParkedInv
Queueing == PushInv /\ LockInv /\ CarryInv /\ AskInv /\ AssocInv
Inv == TypeOK /\ Control /\ Life /\ Service /\ Queueing /\ NotAborted

-----------------------------------------------------------------------------
(* Facts the steps share.                                                  *)

\* The states of a queue exclude each other, and the null values are no
\* members.
LEMMA Shape ==
    /\ \A t, o : Told(t, o) => ~Quiet(t)
    /\ \A t, o, u : Told(t, o) /\ Told(t, u) => o = u
    /\ \A o, e : Queued(o, e) => Busy(o)
    /\ None \notin Objects /\ None \notin Threads /\ "nobody" \notin Pushers
<1>1. \A t, o : Told(t, o) => ~Quiet(t)
  BY DEF Told, Quiet
<1>2. \A t, o, u : Told(t, o) /\ Told(t, u) => o = u
  <2>1. \A o, u : <<o>> = <<u>> => o = u
    OBVIOUS
  <2> QED BY <2>1 DEF Told
<1>3. \A o, e : Queued(o, e) => Busy(o)
  BY DEF Queued, Busy
<1>4. None \notin Objects /\ None \notin Threads /\ "nobody" \notin Pushers
  BY EnvironmentAssumption, PoolAssumption DEF None, Objects, Threads
<1> QED BY <1>1, <1>2, <1>3, <1>4

\* The type invariant, as the step lemmas use it.
LEMMA TypeFacts ==
    ASSUME TypeOK
    PROVE  /\ \A p \in Pushers : At(p) # "idle" =>
                  /\ At(p) \in PusherPc /\ Obj(p) \in Objects
                  /\ Ev(p) \in Event /\ Assoc(p) \in BOOLEAN
           /\ \A p \in Pushers : push[p] = Idle <=> At(p) = "idle"
           /\ \A p \in Pushers : At(p) = "idle" => Obj(p) = None
           /\ \A t \in Threads : pc[t] \in WorkerPc /\ txn[t] \in Objects \cup {None}
           /\ \A o \in Objects : /\ thread[o] \in Threads \cup {None}
                                 /\ qlock[o] \in Pushers \cup {"nobody"}
<1>1. ASSUME NEW p \in Pushers
      PROVE  /\ At(p) # "idle" => /\ At(p) \in PusherPc /\ Obj(p) \in Objects
                                  /\ Ev(p) \in Event /\ Assoc(p) \in BOOLEAN
             /\ push[p] = Idle <=> At(p) = "idle"
             /\ At(p) = "idle" => Obj(p) = None
  <2>1. push[p] \in {Idle} \cup [at : PusherPc, obj : Objects, ev : Event, assoc : BOOLEAN]
    BY DEF TypeOK
  <2>2. CASE push[p] = Idle
    BY <2>2 DEF At, Obj, Idle
  <2>3. CASE push[p] \in [at : PusherPc, obj : Objects, ev : Event, assoc : BOOLEAN]
    <3>1. /\ At(p) \in PusherPc /\ Obj(p) \in Objects /\ Ev(p) \in Event /\ Assoc(p) \in BOOLEAN
      BY <2>3 DEF At, Obj, Ev, Assoc
    <3>2. At(p) # "idle"
      BY <3>1 DEF PusherPc
    <3>3. push[p] # Idle
      BY <3>2 DEF At, Idle
    <3> QED BY <3>1, <3>2, <3>3
  <2> QED BY <2>1, <2>2, <2>3
<1>2. \A t \in Threads : pc[t] \in WorkerPc /\ txn[t] \in Objects \cup {None}
  BY DEF TypeOK
<1>3. \A o \in Objects : /\ thread[o] \in Threads \cup {None}
                         /\ qlock[o] \in Pushers \cup {"nobody"}
  BY DEF TypeOK
<1> QED BY <1>1, <1>2, <1>3

\* The type of push by itself.
LEMMA TypePush ==
    ASSUME TypeOK
    PROVE  push \in [Pushers -> {Idle} \cup [at : PusherPc, obj : Objects, ev : Event,
                                            assoc : BOOLEAN]]
BY DEF TypeOK

\* What the views of the state say is kept with the variables they look at.
LEMMA KeepThreadQ ==
    ASSUME UNCHANGED threadQ
    PROVE  \A t : (Quiet(t)' <=> Quiet(t)) /\ \A o : Told(t, o)' <=> Told(t, o)
BY DEF Quiet, Told

\* Likewise for the event queues,
LEMMA KeepEventQ ==
    ASSUME UNCHANGED eventQ
    PROVE  \A o : (Busy(o)' <=> Busy(o)) /\ \A e : Queued(o, e)' <=> Queued(o, e)
BY DEF Busy, Queued

\* for the threads that queue requests,
LEMMA KeepPush ==
    ASSUME UNCHANGED push
    PROVE  \A p : At(p)' = At(p) /\ Obj(p)' = Obj(p) /\ Ev(p)' = Ev(p) /\ Assoc(p)' = Assoc(p)
BY DEF At, Obj, Ev, Assoc

\* for txdisassociatedQ,
LEMMA KeepDisQ ==
    ASSUME UNCHANGED disQ
    PROVE  (Distinct(disQ)' <=> Distinct(disQ)) /\ \A o : Parked(o)' <=> Parked(o)
BY DEF Parked, Distinct

\* for the free list of the thread pool,
LEMMA KeepFreeList ==
    ASSUME UNCHANGED freeList
    PROVE  (Distinct(freeList)' <=> Distinct(freeList)) /\ \A t : FreeThread(t)' <=> FreeThread(t)
BY DEF FreeThread, Distinct

\* for that of the transaction pool,
LEMMA KeepObjFree ==
    ASSUME UNCHANGED objFree
    PROVE  (Distinct(objFree)' <=> Distinct(objFree)) /\ \A o : FreeObject(o)' <=> FreeObject(o)
BY DEF FreeObject, Distinct

\* and for the transaction an event belongs to.
LEMMA KeepSound ==
    ASSUME UNCHANGED <<seq, ended>>
    PROVE  \A e, o : Sound(e, o)' <=> Sound(e, o)
BY DEF Sound

\* A queue with one INITIALIZE event is of its type.
LEMMA TypeThreadQ ==
    ASSUME TypeOK, NEW t \in Threads, NEW o \in Objects
    PROVE  [threadQ EXCEPT ![t] = <<o>>] \in [Threads -> Seq(Objects)]
<1>1. threadQ \in [Threads -> Seq(Objects)]
  BY DEF TypeOK
<1>2. <<o>> \in Seq(Objects)
  OBVIOUS
<1> QED BY <1>1, <1>2, Zenon

\* Nobody comes to serve or leaves without a change of ip_txn or of a queue.
LEMMA KeepServes ==
    ASSUME UNCHANGED <<txn, threadQ>>
    PROVE  \A t, o : Serves(t, o)' <=> Serves(t, o)
BY DEF Serves, Told

\* Every conjunct is kept by a step that changes none of its variables.
\* TellInv depends on these only.
LEMMA KeepTellInv ==
    ASSUME TellInv, UNCHANGED <<threadQ, pc, inUse>>
    PROVE  TellInv'
BY DEF TellInv, Quiet, Told

\* PcInv depends on no other variable.
LEMMA KeepPcInv ==
    ASSUME PcInv, UNCHANGED <<txn, pc, inUse, total>>
    PROVE  PcInv'
BY DEF PcInv

\* PoolInv depends on no other variable.
LEMMA KeepPoolInv ==
    ASSUME PoolInv, UNCHANGED <<freeList, inUse, total, pc, threadQ>>
    PROVE  PoolInv'
BY DEF PoolInv, FreeThread, Quiet

\* ObjectInv depends on no other variable.
LEMMA KeepObjectInv ==
    ASSUME ObjectInv, UNCHANGED <<objFree, objTotal, live, seq, nextSeq>>
    PROVE  ObjectInv'
BY DEF ObjectInv, FreeObject

\* SeqInv depends on no other variable.
LEMMA KeepSeqInv ==
    ASSUME SeqInv, UNCHANGED <<live, seq, waiting, ended, nextSeq>>
    PROVE  SeqInv'
BY DEF SeqInv

\* DeadInv depends on no other variable.
LEMMA KeepDeadInv ==
    ASSUME DeadInv, UNCHANGED <<live, cleanup, pending>>
    PROVE  DeadInv'
BY DEF DeadInv

\* EndInv depends on no other variable.
LEMMA KeepEndInv ==
    ASSUME EndInv, UNCHANGED <<pc, txn, seq, waiting, ended, cleanup, live>>
    PROVE  EndInv'
BY DEF EndInv

\* OneInv depends on no other variable.
LEMMA KeepOneInv ==
    ASSUME OneInv, UNCHANGED <<txn, threadQ>>
    PROVE  OneInv'
BY DEF OneInv, Serves, Told

\* OwnInv depends on no other variable.
LEMMA KeepOwnInv ==
    ASSUME OwnInv, UNCHANGED <<txn, live, thread>>
    PROVE  OwnInv'
BY DEF OwnInv

\* ToldInv depends on no other variable.
LEMMA KeepToldInv ==
    ASSUME ToldInv, UNCHANGED <<threadQ, live, eventQ, push, pending>>
    PROVE  ToldInv'
BY DEF ToldInv, Told, Busy, Obj, At

\* QueueInv depends on no other variable.
LEMMA KeepQueueInv ==
    ASSUME QueueInv, UNCHANGED <<eventQ, seq, ended, live, waiting>>
    PROVE  QueueInv'
BY DEF QueueInv, Busy, Queued, Sound

\* HandleInv depends on no other variable.
LEMMA KeepHandleInv ==
    ASSUME HandleInv, UNCHANGED <<pc, eventQ, txn, msg, seq, ended, waiting>>
    PROVE  HandleInv'
BY DEF HandleInv, Busy, Sound

\* KnownInv depends on no other variable.
LEMMA KeepKnownInv ==
    ASSUME KnownInv, UNCHANGED <<eventQ, txn, threadQ, disQ, push>>
    PROVE  KnownInv'
BY DEF KnownInv, Busy, Serves, Told, Parked, Obj

\* ParkedInv depends on no other variable.
LEMMA KeepParkedInv ==
    ASSUME ParkedInv, UNCHANGED <<disQ, live, eventQ, txn, threadQ, push>>
    PROVE  ParkedInv'
BY DEF ParkedInv, Parked, Busy, Serves, Told, Obj

\* PushInv depends on no other variable.
LEMMA KeepPushInv ==
    ASSUME PushInv, UNCHANGED <<push, live, cleanup, seq, ended, txn, pc>>
    PROVE  PushInv'
BY DEF PushInv, At, Obj, Ev, Sound

\* LockInv depends on no other variable.
LEMMA KeepLockInv ==
    ASSUME LockInv, UNCHANGED <<push, qlock>>
    PROVE  LockInv'
BY DEF LockInv, At, Obj

\* CarryInv depends on no other variable.
LEMMA KeepCarryInv ==
    ASSUME CarryInv, UNCHANGED <<push, seq, waiting, eventQ, txn, pc>>
    PROVE  CarryInv'
BY DEF CarryInv, At, Obj, Busy

\* AskInv depends on no other variable.
LEMMA KeepAskInv ==
    ASSUME AskInv, UNCHANGED <<push, txn, threadQ>>
    PROVE  AskInv'
BY DEF AskInv, At, Obj, Assoc, Serves, Told

\* AssocInv depends on no other variable.
LEMMA KeepAssocInv ==
    ASSUME AssocInv, UNCHANGED <<push, txn, threadQ, eventQ>>
    PROVE  AssocInv'
BY DEF AssocInv, At, Obj, Assoc, Serves, Told, Busy

-----------------------------------------------------------------------------
(* The thread pool, whoever queues requests and in whatever order.         *)

\* What keeps the thread pool sound: the part of Control that no request can
\* disturb.  Only a thread that is in use leaves the idle state or is told of
\* an object, and it is told one thing at a time.
PoolCore ==
    /\ inUse \subseteq Threads /\ freeList \in Seq(Threads) /\ total \in 0 .. MaxThreads
    /\ pc \in [Threads -> WorkerPc] /\ DOMAIN threadQ = Threads /\ DOMAIN txn = Threads
    /\ \A t \in Threads :
           /\ Quiet(t) \/ (Told(t, Head(threadQ[t])) /\ pc[t] = "idle" /\ t \in inUse)
           /\ pc[t] \in Unserved => txn[t] = None
           /\ pc[t] \notin {"none", "idle"} => t \in inUse
           /\ pc[t] # "none" <=> t <= total
    /\ PoolInv

\* iv_max bounds the threads.
LEMMA FiniteThreads == IsFiniteSet(Threads)
BY PoolAssumption, FS_Interval DEF Threads

\* The thread newElement gives is not in use, has no transaction and was told
\* nothing.
LEMMA GrantedThread ==
    ASSUME PoolCore, NEW t, t = newElement(freeList, total, LowThreads, MaxThreads), t # None
    PROVE  /\ t \in Threads /\ t \notin inUse /\ txn[t] = None /\ Quiet(t)
           /\ pc[t] \in {"none", "idle"}
           /\ t > total <=> ~FreeThread(t)
           /\ ~FreeThread(t) => t = total + 1 /\ total < MaxThreads
           /\ FreeThread(t) => freeList # << >> /\ t = Head(freeList)
<1>0. freeList \in Seq(Threads) /\ total \in 0 .. MaxThreads
  BY DEF PoolCore
<1>1. CASE total >= LowThreads /\ freeList # << >>
  <2>1. t = Head(freeList)
    BY <1>1 DEF newElement
  <2>2. t \in Threads /\ FreeThread(t)
    BY <1>0, <1>1, <2>1, TailFacts DEF FreeThread
  <2>3. t \notin inUse /\ pc[t] = "idle" /\ Quiet(t) /\ t <= total
    BY <2>2 DEF PoolCore, PoolInv
  <2>4. txn[t] = None
    BY <2>2, <2>3 DEF PoolCore, Unserved
  <2> QED BY <1>0, <1>1, <2>1, <2>2, <2>3, <2>4 DEF Threads
<1>2. CASE ~(total >= LowThreads /\ freeList # << >>)
  <2>1. t = total + 1 /\ total < MaxThreads
    BY <1>2 DEF newElement
  <2>2. t \in Threads /\ ~(t <= total)
    BY <1>0, <2>1, PoolAssumption DEF Threads
  <2>3. t \notin inUse /\ ~FreeThread(t) /\ pc[t] = "none"
    BY <2>2 DEF PoolCore, PoolInv
  <2>4. txn[t] = None /\ Quiet(t)
    BY <2>2, <2>3 DEF PoolCore, Unserved
  <2> QED BY <1>0, <2>1, <2>2, <2>3, <2>4
<1> QED BY <1>1, <1>2

\* ... and it goes from the free list, or from nowhere, to the threads in use.
LEMMA GrantedLists ==
    ASSUME PoolCore, NEW p \in Pushers, new_thread(p),
           NEW t, t = newElement(freeList, total, LowThreads, MaxThreads), t # None
    PROVE  /\ freeList' \in Seq(Threads) /\ total' \in 0 .. MaxThreads /\ Distinct(freeList')
           /\ total' = Cardinality(inUse') + Len(freeList')
           /\ \A u \in Threads : FreeThread(u)' <=> (FreeThread(u) /\ u # t)
           /\ \A u \in Threads : u <= total' <=> (u <= total \/ u = t)
<1>0. freeList \in Seq(Threads) /\ total \in 0 .. MaxThreads /\ Distinct(freeList)
  BY DEF PoolCore, PoolInv
<1>g. /\ t \in Threads /\ t \notin inUse
      /\ t > total <=> ~FreeThread(t)
      /\ ~FreeThread(t) => t = total + 1 /\ total < MaxThreads
      /\ FreeThread(t) => freeList # << >> /\ t = Head(freeList)
  BY GrantedThread
<1>1. Cardinality(inUse') = Cardinality(inUse) + 1 /\ Cardinality(inUse) \in Nat /\ Len(freeList) \in Nat
  <2>1. inUse' = inUse \cup {t}
    BY DEF new_thread
  <2>2. IsFiniteSet(inUse)
    BY FiniteThreads, FS_Subset DEF PoolCore
  <2> QED BY <1>0, <1>g, <2>1, <2>2, FS_AddElement, FS_CardinalityType
<1>2. total = Cardinality(inUse) + Len(freeList)
  BY DEF PoolCore, PoolInv
<1>3. CASE FreeThread(t)
  <2>1. freeList' = Tail(freeList) /\ total' = total /\ freeList # << >> /\ t = Head(freeList)
    BY <1>3, <1>g DEF new_thread
  <2>2. /\ freeList' \in Seq(Threads) /\ Len(freeList) = Len(freeList') + 1
        /\ Distinct(freeList') /\ ~InSeq(freeList', t)
        /\ \A y : InSeq(freeList', y) => InSeq(freeList, y)
        /\ \A y : InSeq(freeList, y) => y = t \/ InSeq(freeList', y)
    BY <1>0, <2>1, TailFacts
  <2>3. t <= total /\ Len(freeList') \in Nat
    BY <1>3, <1>g, <2>2 DEF PoolCore, PoolInv
  <2> QED BY <1>0, <1>1, <1>2, <2>1, <2>2, <2>3 DEF FreeThread
<1>4. CASE ~FreeThread(t)
  <2>1. freeList' = freeList /\ total' = t /\ t = total + 1 /\ total < MaxThreads
    BY <1>4, <1>g DEF new_thread
  <2>2. \A u \in Threads : FreeThread(u)' <=> (FreeThread(u) /\ u # t)
    BY <1>4, <2>1 DEF FreeThread
  <2>3. \A u \in Threads : u <= total' <=> (u <= total \/ u = t)
    BY <1>0, <2>1 DEF Threads
  <2>4. total' \in 0 .. MaxThreads /\ total' = Cardinality(inUse') + Len(freeList')
    BY <1>0, <1>1, <1>2, <2>1, PoolAssumption
  <2> QED BY <1>0, <2>1, <2>2, <2>3, <2>4
<1> QED BY <1>3, <1>4

\* A thread that goes back to the pool is on the free list once.
LEMMA ReturnedThread ==
    ASSUME PoolCore, NEW t \in Threads, deleteElement(t)
    PROVE  /\ t \in inUse /\ t <= total /\ Quiet(t) /\ txn[t] = None
           /\ freeList' \in Seq(Threads) /\ Distinct(freeList')
           /\ \A y : FreeThread(y)' <=> (y = t \/ FreeThread(y))
           /\ total' = Cardinality(inUse') + Len(freeList')
<1>1. t \in inUse /\ t <= total /\ Quiet(t) /\ txn[t] = None /\ ~FreeThread(t)
  BY DEF PoolCore, PoolInv, deleteElement, Unserved
<1>2. freeList \in Seq(Threads) /\ freeList' = Cons(t, freeList) /\ Distinct(freeList)
  BY DEF Cons, PoolCore, PoolInv, deleteElement
<1>3. /\ freeList' \in Seq(Threads) /\ Len(freeList') = Len(freeList) + 1
      /\ \A y : InSeq(freeList', y) <=> (y = t \/ InSeq(freeList, y))
      /\ Distinct(freeList) /\ ~InSeq(freeList, t) => Distinct(freeList')
  BY <1>2, ConsFacts
<1>4. Cardinality(inUse') = Cardinality(inUse) - 1 /\ Cardinality(inUse) \in Nat
  <2>1. inUse' = inUse \ {t}
    BY DEF deleteElement
  <2>2. IsFiniteSet(inUse)
    BY FiniteThreads, FS_Subset DEF PoolCore
  <2> QED BY <1>1, <2>1, <2>2, FS_RemoveElement, FS_CardinalityType
<1>5. total' = Cardinality(inUse') + Len(freeList')
  <2>1. total' = total /\ Len(freeList) \in Nat
    BY <1>2 DEF deleteElement
  <2> QED BY <1>3, <1>4, <2>1 DEF PoolCore, PoolInv
<1> QED BY <1>1, <1>2, <1>3, <1>5 DEF FreeThread

\* A step that leaves the lists alone and changes at most one thread in use.
LEMMA CoreOneThread ==
    ASSUME PoolCore, UNCHANGED poolVars, NEW t \in Threads, t \in inUse,
           pc' \in [Threads -> WorkerPc], DOMAIN threadQ' = Threads, DOMAIN txn' = Threads,
           \A u \in Threads : u # t =>
               pc'[u] = pc[u] /\ threadQ'[u] = threadQ[u] /\ txn'[u] = txn[u],
           pc[t] # "none", pc'[t] # "none",
           Quiet(t)' \/ (Told(t, Head(threadQ[t]))' /\ pc'[t] = "idle"),
           pc'[t] \in Unserved => txn'[t] = None
    PROVE  PoolCore'
<1>1. inUse' = inUse /\ freeList' = freeList /\ total' = total
  BY DEF poolVars
<1>2. \A u \in Threads :
           /\ Quiet(u)' \/ (Told(u, Head(threadQ[u]))' /\ pc'[u] = "idle" /\ u \in inUse)
           /\ pc'[u] \in Unserved => txn'[u] = None
           /\ pc'[u] \notin {"none", "idle"} => u \in inUse
           /\ pc'[u] # "none" <=> u <= total
  BY DEF PoolCore, Quiet, Told
<1>3. PoolInv'
  <2>1. \A u \in Threads : FreeThread(u) => u # t
    BY DEF PoolCore, PoolInv
  <2> QED BY <1>1, <2>1 DEF PoolCore, PoolInv, FreeThread, Quiet
<1> QED BY <1>1, <1>2, <1>3 DEF PoolCore

\* The steps of a worker that leave its event queue alone and keep it at work.
LEMMA CoreWorks ==
    ASSUME PoolCore, UNCHANGED poolVars, UNCHANGED threadQ, NEW t \in Threads,
           pc[t] \notin {"none", "idle"},
           NEW x \in WorkerPc \ {"none", "idle"}, pc' = [pc EXCEPT ![t] = x],
           \/ x \notin Unserved /\ UNCHANGED txn
           \/ txn[t] = None /\ UNCHANGED txn
           \/ txn' = [txn EXCEPT ![t] = None]
    PROVE  PoolCore'
<1>1. /\ t \in inUse /\ Quiet(t)' /\ DOMAIN threadQ' = Threads
      /\ \A u \in Threads : threadQ'[u] = threadQ[u]
  BY DEF PoolCore, Quiet
<1>2. /\ pc' \in [Threads -> WorkerPc] /\ pc'[t] = x
      /\ \A u \in Threads : u # t => pc'[u] = pc[u]
  BY DEF PoolCore
<1>3. /\ DOMAIN txn' = Threads
      /\ x \in Unserved => txn'[t] = None
      /\ \A u \in Threads : u # t => txn'[u] = txn[u]
  BY DEF PoolCore
<1> QED BY <1>1, <1>2, <1>3, CoreOneThread

\* new_thread, whether the pool gives a thread or is exhausted.
LEMMA CoreNewThread ==
    ASSUME PoolCore, NEW p \in Pushers, new_thread(p)
    PROVE  PoolCore'
<1> DEFINE t == newElement(freeList, total, LowThreads, MaxThreads)
<1>1. CASE t = None
  <2>1. UNCHANGED <<inUse, freeList, total, pc, txn, threadQ>>
    BY <1>1 DEF new_thread, poolVars
  <2> QED BY <2>1, KeepPoolInv DEF PoolCore, Quiet, Told
<1>2. CASE t # None
  <2>0. PICK u : u = newElement(freeList, total, LowThreads, MaxThreads) /\ u # None
    BY <1>2
  <2> HIDE DEF t
  <2>1. u \in Threads /\ u \notin inUse /\ txn[u] = None /\ Quiet(u)
    BY <2>0, GrantedThread
  <2>2. /\ freeList' \in Seq(Threads) /\ total' \in 0 .. MaxThreads /\ Distinct(freeList')
        /\ total' = Cardinality(inUse') + Len(freeList')
        /\ \A w \in Threads : FreeThread(w)' <=> (FreeThread(w) /\ w # u)
        /\ \A w \in Threads : w <= total' <=> (w <= total \/ w = u)
    BY <2>0, GrantedLists
  <2>3. /\ inUse' = inUse \cup {u}
        /\ pc' = [pc EXCEPT ![u] = "idle"]
        /\ txn' = [txn EXCEPT ![u] = None]
        /\ threadQ' = [threadQ EXCEPT ![u] = <<push[p].obj>> \o @]
    BY <2>0 DEF new_thread
  <2>4. threadQ'[u] = <<push[p].obj>>
    BY <2>1, <2>3 DEF PoolCore, Quiet
  <2>5. /\ pc' \in [Threads -> WorkerPc] /\ DOMAIN threadQ' = Threads /\ DOMAIN txn' = Threads
        /\ pc'[u] = "idle" /\ txn'[u] = None /\ Told(u, Head(threadQ[u]))'
        /\ \A w \in Threads : w # u =>
               pc'[w] = pc[w] /\ threadQ'[w] = threadQ[w] /\ txn'[w] = txn[w]
    BY <2>1, <2>3, <2>4 DEF PoolCore, WorkerPc, Told
  <2>6. \A w \in Threads :
           /\ Quiet(w)' \/ (Told(w, Head(threadQ[w]))' /\ pc'[w] = "idle" /\ w \in inUse')
           /\ pc'[w] \in Unserved => txn'[w] = None
           /\ pc'[w] \notin {"none", "idle"} => w \in inUse'
           /\ pc'[w] # "none" <=> w <= total'
    BY <2>2, <2>3, <2>5 DEF PoolCore, Quiet, Told
  <2>7. PoolInv'
    <3>1. \A w \in Threads : (w \in inUse' \/ FreeThread(w)') <=> w <= total'
      BY <2>2, <2>3 DEF PoolCore, PoolInv
    <3>2. \A w \in Threads : FreeThread(w)' => w \notin inUse' /\ pc'[w] = "idle" /\ Quiet(w)'
      BY <2>2, <2>3, <2>5 DEF PoolCore, PoolInv, Quiet
    <3> QED BY <2>2, <3>1, <3>2 DEF PoolInv
  <2> QED BY <2>1, <2>2, <2>3, <2>5, <2>6, <2>7 DEF PoolCore
<1> QED BY <1>1, <1>2

\* deleteElement, the end of release_thread.
LEMMA CoreDeleteElement ==
    ASSUME PoolCore, NEW t \in Threads, deleteElement(t)
    PROVE  PoolCore'
<1>1. /\ t \in inUse /\ t <= total /\ Quiet(t) /\ txn[t] = None
      /\ freeList' \in Seq(Threads) /\ Distinct(freeList')
      /\ \A y : FreeThread(y)' <=> (y = t \/ FreeThread(y))
      /\ total' = Cardinality(inUse') + Len(freeList')
  BY ReturnedThread
<1>2. /\ UNCHANGED <<total, threadQ, txn>>
      /\ inUse' = inUse \ {t} /\ pc' = [pc EXCEPT ![t] = "idle"]
  BY DEF deleteElement
<1>3. /\ pc' \in [Threads -> WorkerPc] /\ pc'[t] = "idle"
      /\ \A u \in Threads : u # t => pc'[u] = pc[u]
      /\ \A u \in Threads : Quiet(u)' <=> Quiet(u)
  BY <1>2 DEF PoolCore, WorkerPc, Quiet
<1>4. \A u \in Threads :
         /\ Quiet(u)' \/ (Told(u, Head(threadQ[u]))' /\ pc'[u] = "idle" /\ u \in inUse')
         /\ pc'[u] \in Unserved => txn'[u] = None
         /\ pc'[u] \notin {"none", "idle"} => u \in inUse'
         /\ pc'[u] # "none" <=> u <= total'
  BY <1>1, <1>2, <1>3 DEF PoolCore, Told
<1>5. PoolInv'
  <2>1. \A u \in Threads : (u \in inUse' \/ FreeThread(u)') <=> u <= total'
    BY <1>1, <1>2 DEF PoolCore, PoolInv
  <2>2. \A u \in Threads : FreeThread(u)' => u \notin inUse' /\ pc'[u] = "idle" /\ Quiet(u)'
    BY <1>1, <1>2, <1>3 DEF PoolCore, PoolInv
  <2> QED BY <1>1, <2>1, <2>2 DEF PoolInv
<1> QED BY <1>1, <1>2, <1>3, <1>4, <1>5 DEF PoolCore

\* A worker is told of its next object by new_thread and by
\* check_for_queued_requests only, and takes the event off before anything else.
LEMMA CoreWorker ==
    ASSUME PoolCore, NEW t \in Threads, Worker(t)
    PROVE  PoolCore'
<1>1. CASE associate(t)
  <2>1. /\ UNCHANGED poolVars /\ threadQ[t] # << >> /\ pc[t] = "idle"
        /\ threadQ' = [threadQ EXCEPT ![t] = Tail(@)]
        /\ txn' = [txn EXCEPT ![t] = Head(threadQ[t])]
        /\ pc' = [pc EXCEPT ![t] = "purge"]
    BY <1>1 DEF associate
  <2>2. t \in inUse /\ threadQ[t] = <<Head(threadQ[t])>>
    BY <2>1 DEF PoolCore, Quiet, Told
  <2>3. \A x : Tail(<<x>>) = << >>
    OBVIOUS
  <2>4. Quiet(t)'
    <3>1. threadQ'[t] = Tail(threadQ[t])
      BY <2>1 DEF PoolCore
    <3>2. Tail(threadQ[t]) = << >>
      BY <2>2, <2>3
    <3> QED BY <3>1, <3>2 DEF Quiet
  <2>5. /\ pc' \in [Threads -> WorkerPc] /\ DOMAIN threadQ' = Threads /\ DOMAIN txn' = Threads
        /\ pc'[t] = "purge"
        /\ \A u \in Threads : u # t =>
               pc'[u] = pc[u] /\ threadQ'[u] = threadQ[u] /\ txn'[u] = txn[u]
    BY <2>1 DEF PoolCore, WorkerPc
  <2> QED BY <2>1, <2>2, <2>4, <2>5, CoreOneThread DEF Unserved
<1>2. CASE PurgeQueue(t)
  BY <1>2, CoreWorks DEF PurgeQueue, WorkerPc, Unserved
<1>3. CASE eventQ_pop(t)
  BY <1>3, CoreWorks DEF eventQ_pop, WorkerPc, Unserved
<1>4. CASE TakeEvent(t)
  BY <1>4, CoreWorks DEF TakeEvent, WorkerPc, Unserved
<1>5. CASE Handle(t)
  BY <1>5, CoreWorks DEF Handle, WorkerPc, Unserved
<1>6. CASE req_forget(t)
  BY <1>6, CoreWorks DEF req_forget, WorkerPc, Unserved
<1>7. CASE process_eventQ(t)
  BY <1>7, CoreWorks DEF process_eventQ, WorkerPc, Unserved
<1>8. CASE disassociate(t)
  BY <1>8, CoreWorks DEF disassociate, WorkerPc, Unserved
<1>9. CASE Cleanup(t)
  BY <1>9, CoreWorks DEF Cleanup, WorkerPc, Unserved
<1>10. CASE check_for_queued_requests(t)
  <2>1. UNCHANGED <<poolVars, txn>> /\ pc[t] = "release"
    BY <1>10 DEF check_for_queued_requests
  <2>2. t \in inUse /\ txn[t] = None /\ Quiet(t)
    BY <2>1 DEF PoolCore, Unserved
  <2>3. CASE UNCHANGED threadQ /\ pc' = [pc EXCEPT ![t] = "free"]
    BY <2>1, <2>2, <2>3, CoreWorks DEF WorkerPc, Unserved
  <2>4. ASSUME NEW x, threadQ' = [threadQ EXCEPT ![t] = <<x>> \o @],
               pc' = [pc EXCEPT ![t] = "idle"]
        PROVE  PoolCore'
    <3>1. threadQ'[t] = <<x>>
      BY <2>2, <2>4 DEF PoolCore, Quiet
    <3>2. Told(t, Head(threadQ[t]))'
      BY <3>1 DEF Told
    <3>3. /\ pc' \in [Threads -> WorkerPc] /\ DOMAIN threadQ' = Threads /\ DOMAIN txn' = Threads
          /\ pc'[t] = "idle" /\ txn'[t] = None
          /\ \A u \in Threads : u # t =>
                 pc'[u] = pc[u] /\ threadQ'[u] = threadQ[u] /\ txn'[u] = txn[u]
      BY <2>1, <2>2, <2>4 DEF PoolCore, WorkerPc
    <3> QED BY <2>1, <2>2, <3>2, <3>3, CoreOneThread
  <2> QED BY <1>10, <2>3, <2>4 DEF check_for_queued_requests
<1>11. CASE deleteElement(t)
  BY <1>11, CoreDeleteElement
<1> QED BY <1>1, <1>2, <1>3, <1>4, <1>5, <1>6, <1>7, <1>8, <1>9, <1>10, <1>11 DEF Worker

\* No assumption on the clients is needed.
LEMMA CoreHolds == Spec => []PoolCore
<1>1. Init => PoolCore
  <2> SUFFICES ASSUME Init PROVE PoolCore
    OBVIOUS
  <2>1. /\ inUse = {} /\ freeList = << >> /\ total = 0
        /\ pc = [t \in Threads |-> "none"] /\ threadQ = [t \in Threads |-> << >>]
        /\ txn = [t \in Threads |-> None]
    BY DEF Init
  <2>2. Cardinality({}) = 0 /\ Len(freeList) = 0 /\ \A t : ~FreeThread(t)
    BY <2>1, FS_EmptySet DEF FreeThread, InSeq
  <2>3. PoolInv
    BY <2>1, <2>2 DEF PoolInv, Distinct, Threads
  <2> QED BY <2>1, <2>3, PoolAssumption DEF PoolCore, WorkerPc, Quiet, Threads
<1>2. PoolCore /\ [Next]_vars => PoolCore'
  <2> SUFFICES ASSUME PoolCore, [Next]_vars PROVE PoolCore'
    OBVIOUS
  <2>1. UNCHANGED <<inUse, freeList, total, pc, txn, threadQ>> => PoolCore'
    BY KeepPoolInv DEF PoolCore, Quiet, Told
  <2>2. CASE new_tx
    BY <2>1, <2>2 DEF new_tx, poolVars, workVars
  <2>3. ASSUME NEW p \in Pushers, NEW o \in Objects, NEW k \in {"keep", "forget"}, Request(p, o, k)
        PROVE  PoolCore'
    BY <2>1, <2>3 DEF Request, poolVars, workVars
  <2>4. ASSUME NEW p \in Pushers, Pusher(p) PROVE PoolCore'
    <3>1. CASE new_thread(p)
      BY <3>1, CoreNewThread
    <3>2. CASE queueToTransaction(p)
      BY <2>1, <3>2 DEF queueToTransaction, poolVars, workVars
    <3>3. CASE TestPending(p)
      BY <2>1, <3>3 DEF TestPending, poolVars, workVars
    <3>4. CASE eventQ_push(p)
      BY <2>1, <3>4 DEF eventQ_push, poolVars, workVars
    <3>5. CASE Signal(p)
      BY <2>1, <3>5 DEF Signal, poolVars, workVars
    <3>6. CASE Park(p)
      BY <2>1, <3>6 DEF Park, poolVars, workVars
    <3> QED BY <2>4, <3>1, <3>2, <3>3, <3>4, <3>5, <3>6 DEF Pusher
  <2>5. ASSUME NEW t \in Threads, Worker(t) PROVE PoolCore'
    BY <2>5, CoreWorker
  <2>6. CASE UNCHANGED vars
    BY <2>1, <2>6 DEF vars, poolVars, workVars
  <2> QED BY <2>2, <2>3, <2>4, <2>5, <2>6 DEF Next
<1> QED BY <1>1, <1>2, PTL DEF Spec

\* The threads that Servers counts are the ones the invariant says serve.
LEMMA ServersServe ==
    ASSUME Inv, NEW o \in Objects
    PROVE  Servers(o) = {t \in Threads : Serves(t, o)}
<1> SUFFICES ASSUME NEW t \in Threads
             PROVE  (\E i \in 1 .. Len(threadQ[t]) : threadQ[t][i] = o) <=> Told(t, o)
  BY DEF Servers, Serves
<1>1. CASE Quiet(t)
  <2>1. ~Told(t, o)
    BY <1>1, Shape
  <2>2. threadQ[t] = << >>
    BY <1>1 DEF Quiet
  <2> QED BY <2>1, <2>2
<1>2. CASE ~Quiet(t)
  <2>1. PICK u \in Objects : Told(t, u)
    BY <1>2 DEF Inv, Control, TellInv
  <2>2. threadQ[t] = <<u>>
    BY <2>1 DEF Told
  <2>3. Told(t, o) <=> u = o
    BY <2>1, Shape
  <2>4. Len(<<u>>) = 1 /\ <<u>>[1] = u
    OBVIOUS
  <2> QED BY <2>2, <2>3, <2>4
<1> QED BY <1>1, <1>2

\* The invariant Inv contains it.
LEMMA InvCore ==
    ASSUME Inv
    PROVE  PoolCore
<1>1. /\ inUse \subseteq Threads /\ freeList \in Seq(Threads) /\ total \in 0 .. MaxThreads
      /\ pc \in [Threads -> WorkerPc] /\ DOMAIN threadQ = Threads /\ DOMAIN txn = Threads
  BY DEF Inv, TypeOK
<1>2. \A t \in Threads : Quiet(t) \/ (Told(t, Head(threadQ[t])) /\ pc[t] = "idle" /\ t \in inUse)
  <2>1. ASSUME NEW t \in Threads, ~Quiet(t) PROVE Told(t, Head(threadQ[t]))
    <3>1. PICK o \in Objects : Told(t, o)
      BY <2>1 DEF Inv, Control, TellInv
    <3>2. threadQ[t] = <<o>>
      BY <3>1 DEF Told
    <3> QED BY <3>2 DEF Told
  <2> QED BY <2>1 DEF Inv, Control, TellInv
<1>3. \A t \in Threads :
         /\ pc[t] \in Unserved => txn[t] = None
         /\ pc[t] \notin {"none", "idle"} => t \in inUse
         /\ pc[t] # "none" <=> t <= total
  BY DEF Inv, Control, PcInv
<1> QED BY <1>1, <1>2, <1>3 DEF PoolCore, Inv, Control


-----------------------------------------------------------------------------
(* The types, whoever queues requests and in whatever order.               *)

\* The type invariant with what it rests on: an object in use has a sequence
\* number, and a thread that is at work has a transaction.
TypeInv ==
    /\ TypeOK
    /\ \A o \in Objects : live[o] => seq[o] \in 1 .. MaxTxns
    /\ \A t \in Threads : pc[t] \notin Unserved => txn[t] \in Objects

\* new_tx: the object is one of the free list, or one that was not made.
LEMMA TypeNewTx ==
    ASSUME TypeInv, new_tx
    PROVE  TypeInv'
<1>1. PICK o \in Objects :
         /\ nextSeq <= MaxTxns /\ nextSeq' = nextSeq + 1
         /\ \/ /\ objFree # << >> /\ objFree' = Tail(objFree) /\ UNCHANGED <<objTotal, eventQ>>
            \/ /\ objTotal < MaxObjects /\ objTotal' = objTotal + 1 /\ UNCHANGED objFree
               /\ eventQ' = [eventQ EXCEPT ![o] = << >>]
         /\ live' = [live EXCEPT ![o] = TRUE] /\ seq' = [seq EXCEPT ![o] = nextSeq]
         /\ thread' = [thread EXCEPT ![o] = None] /\ pending' = [pending EXCEPT ![o] = FALSE]
         /\ cleanup' = [cleanup EXCEPT ![o] = 0]
  BY DEF new_tx
<1>2. UNCHANGED <<inUse, freeList, total, qlock, disQ, pc, threadQ, txn, msg, push,
               waiting, ended, sent, overlap, aborted>>
  BY DEF new_tx, poolVars, workVars, clientVars
<1>3. nextSeq \in 1 .. MaxTxns /\ nextSeq' \in 1 .. MaxTxns + 1
  BY <1>1, EnvironmentAssumption DEF TypeInv, TypeOK
<1>4. objFree' \in Seq(Objects) /\ objTotal' \in 0 .. MaxObjects
  <2>1. objFree \in Seq(Objects) /\ objTotal \in 0 .. MaxObjects /\ MaxObjects \in Nat
    BY PoolAssumption DEF TypeInv, TypeOK
  <2>2. objFree # << >> => Tail(objFree) \in Seq(Objects)
    BY <2>1
  <2>3. objTotal < MaxObjects => objTotal + 1 \in 0 .. MaxObjects
    BY <2>1
  <2> QED BY <1>1, <2>1, <2>2, <2>3
<1>5. eventQ' \in [Objects -> Seq(Event)]
  <2>1. eventQ \in [Objects -> Seq(Event)] /\ << >> \in Seq(Event)
    BY DEF TypeInv, TypeOK
  <2> QED BY <1>1, <2>1
<1>6. /\ live' \in [Objects -> BOOLEAN] /\ thread' \in [Objects -> Threads \cup {None}]
      /\ pending' \in [Objects -> BOOLEAN] /\ cleanup' \in [Objects -> Nat]
  BY <1>1 DEF TypeInv, TypeOK
<1>7. /\ seq' \in [Objects -> 0 .. MaxTxns]
      /\ \A u \in Objects : live'[u] => seq'[u] \in 1 .. MaxTxns
  <2>1. seq \in [Objects -> 0 .. MaxTxns] /\ live \in [Objects -> BOOLEAN] /\ nextSeq \in 1 .. MaxTxns
    BY <1>1, <1>3 DEF TypeInv, TypeOK
  <2>2. /\ seq'[o] = nextSeq
        /\ \A u \in Objects : u # o => seq'[u] = seq[u] /\ live'[u] = live[u]
    BY <1>1, <2>1
  <2>3. \A u \in Objects : live[u] => seq[u] \in 1 .. MaxTxns
    BY DEF TypeInv
  <2>4. seq' \in [Objects -> 0 .. MaxTxns]
    BY <1>1, <2>1
  <2> QED BY <2>1, <2>2, <2>3, <2>4
<1> QED BY <1>2, <1>3, <1>4, <1>5, <1>6, <1>7 DEF TypeInv, TypeOK

\* A request carries the sequence number of an object in use.
LEMMA TypeRequest ==
    ASSUME TypeInv, NEW p \in Pushers, NEW o \in Objects, NEW k \in {"keep", "forget"},
           Request(p, o, k)
    PROVE  TypeInv'
<1>1. seq[o] \in 1 .. MaxTxns
  BY DEF TypeInv, Request
<1>2. push' \in [Pushers -> {Idle} \cup [at : PusherPc, obj : Objects, ev : Event, assoc : BOOLEAN]]
  BY <1>1 DEF TypeInv, TypeOK, Request, PusherPc, Event
<1>3. /\ waiting' \subseteq 1 .. MaxTxns /\ ended' \subseteq 1 .. MaxTxns
      /\ overlap' \in BOOLEAN
  BY <1>1 DEF TypeInv, TypeOK, Request
<1>4. sent' \in 0 .. MaxRequests
  BY EnvironmentAssumption DEF TypeInv, TypeOK, Request
<1>5. UNCHANGED <<inUse, freeList, total, objFree, objTotal, live, seq, thread, pending,
               eventQ, cleanup, qlock, disQ, nextSeq, pc, threadQ, txn, msg, aborted>>
  BY DEF Request, poolVars, objPool, objVars, workVars
<1> QED BY <1>2, <1>3, <1>4, <1>5 DEF TypeInv, TypeOK

\* The steps of a pusher.
LEMMA TypePusher ==
    ASSUME TypeInv, PoolCore, PoolCore', NEW p \in Pushers, Pusher(p)
    PROVE  TypeInv'
<1> DEFINE Carried == [at : PusherPc, obj : Objects, ev : Event, assoc : BOOLEAN]
<1>0. push[p].at # "idle" => push[p] \in Carried
  BY DEF TypeInv, TypeOK, Idle
<1>1. CASE queueToTransaction(p)
  <2>1. push[p] \in Carried
    BY <1>0, <1>1 DEF queueToTransaction
  <2>2. push' \in [Pushers -> {Idle} \cup Carried]
    BY <1>1, <2>1, TypePush DEF TypeInv, queueToTransaction, PusherPc
  <2>3. qlock' \in [Objects -> Pushers \cup {"nobody"}] /\ waiting' \subseteq 1 .. MaxTxns
    <3>1. qlock \in [Objects -> Pushers \cup {"nobody"}] /\ waiting \subseteq 1 .. MaxTxns
      BY DEF TypeInv, TypeOK
    <3> QED BY <1>1, <3>1 DEF queueToTransaction
  <2>4. UNCHANGED <<inUse, freeList, total, objFree, objTotal, live, seq, thread, pending,
                 eventQ, cleanup, disQ, nextSeq, pc, threadQ, txn, msg, ended, sent,
                 overlap, aborted>>
    BY <1>1 DEF queueToTransaction, poolVars, objPool, workVars
  <2> QED BY <2>2, <2>3, <2>4 DEF TypeInv, TypeOK
<1>2. CASE TestPending(p)
  <2>1. push[p] \in Carried
    BY <1>0, <1>2 DEF TestPending
  <2>2. push' \in [Pushers -> {Idle} \cup Carried] /\ pending' \in [Objects -> BOOLEAN]
    BY <1>2, <2>1 DEF TypeInv, TypeOK, TestPending, PusherPc
  <2>3. UNCHANGED <<inUse, freeList, total, objFree, objTotal, live, seq, thread, eventQ,
                 cleanup, qlock, disQ, nextSeq, pc, threadQ, txn, msg, waiting, ended,
                 sent, overlap, aborted>>
    BY <1>2 DEF TestPending, poolVars, objPool, workVars, clientVars
  <2> QED BY <2>2, <2>3 DEF TypeInv, TypeOK
<1>3. CASE new_thread(p)
  <2>1. push[p] \in Carried
    BY <1>0, <1>3 DEF new_thread
  <2>2. push' \in [Pushers -> {Idle} \cup Carried] /\ pending' \in [Objects -> BOOLEAN]
    <3>1. push \in [Pushers -> {Idle} \cup Carried] /\ pending \in [Objects -> BOOLEAN]
      BY DEF TypeInv, TypeOK
    <3>2. \/ push' = [push EXCEPT ![p].at = "push", ![p].assoc = TRUE]
          \/ push' = [push EXCEPT ![p].at = "push"]
      BY <1>3 DEF new_thread
    <3>3. push' \in [Pushers -> {Idle} \cup Carried]
      BY <2>1, <3>1, <3>2 DEF PusherPc
    <3>4. pending' \in [Objects -> BOOLEAN]
      BY <1>3, <3>1 DEF new_thread
    <3> QED BY <3>3, <3>4
  <2>3. UNCHANGED <<objFree, objTotal, live, seq, thread, eventQ, cleanup, qlock, disQ,
                 nextSeq, msg, waiting, ended, sent, overlap, aborted>>
    BY <1>3 DEF new_thread, objPool, clientVars
  <2>4. /\ threadQ' \in [Threads -> Seq(Objects)] /\ txn' \in [Threads -> Objects \cup {None}]
        /\ \A t \in Threads : pc'[t] \notin Unserved => txn'[t] \in Objects
    <3>1. CASE UNCHANGED <<pc, txn, threadQ>>
      BY <3>1 DEF TypeInv, TypeOK
    <3>2. CASE newElement(freeList, total, LowThreads, MaxThreads) # None
      <4>1. PICK u : u = newElement(freeList, total, LowThreads, MaxThreads) /\ u # None
        BY <3>2
      <4>2. u \in Threads
        BY <4>1, GrantedThread
      <4>3. /\ pc' = [pc EXCEPT ![u] = "idle"] /\ txn' = [txn EXCEPT ![u] = None]
            /\ threadQ' = [threadQ EXCEPT ![u] = <<push[p].obj>> \o @]
        BY <1>3, <4>1 DEF new_thread
      <4>4. <<push[p].obj>> \in Seq(Objects) /\ threadQ[u] \in Seq(Objects)
        BY <2>1, <4>2 DEF TypeInv, TypeOK
      <4>5. <<push[p].obj>> \o threadQ[u] \in Seq(Objects)
        BY <4>4, ConcatProperties
      <4>6. threadQ' \in [Threads -> Seq(Objects)]
        BY <4>2, <4>3, <4>5 DEF TypeInv, TypeOK
      <4> QED BY <4>2, <4>3, <4>6 DEF TypeInv, TypeOK, Unserved
    <3> QED BY <1>3, <3>1, <3>2 DEF new_thread
  <2>5. /\ inUse' \subseteq Threads /\ freeList' \in Seq(Threads) /\ total' \in 0 .. MaxThreads
        /\ pc' \in [Threads -> WorkerPc]
    BY DEF PoolCore
  <2> QED BY <2>2, <2>3, <2>4, <2>5 DEF TypeInv, TypeOK
<1>4. CASE eventQ_push(p)
  <2>1. push[p] \in Carried
    BY <1>0, <1>4 DEF eventQ_push
  <2>2. push' \in [Pushers -> {Idle} \cup Carried]
    BY <1>4, <2>1, TypePush DEF TypeInv, eventQ_push, PusherPc
  <2>3. eventQ' \in [Objects -> Seq(Event)]
    <3>1. Append(eventQ[push[p].obj], push[p].ev) \in Seq(Event)
      BY <2>1 DEF TypeInv, TypeOK
    <3> QED BY <1>4, <3>1 DEF TypeInv, TypeOK, eventQ_push
  <2>4. UNCHANGED <<inUse, freeList, total, objFree, objTotal, live, seq, thread, pending,
                 cleanup, qlock, disQ, nextSeq, pc, threadQ, txn, msg, waiting, ended,
                 sent, overlap, aborted>>
    BY <1>4 DEF eventQ_push, poolVars, objPool, workVars, clientVars
  <2> QED BY <2>2, <2>3, <2>4 DEF TypeInv, TypeOK
<1>5. CASE Signal(p)
  <2>1. push[p] \in Carried
    BY <1>0, <1>5 DEF Signal
  <2>2. push' \in [Pushers -> {Idle} \cup Carried]
    BY <1>5, <2>1, TypePush DEF TypeInv, Signal, PusherPc
  <2>3. qlock' \in [Objects -> Pushers \cup {"nobody"}]
    BY <1>5, <2>1 DEF TypeInv, TypeOK, Signal
  <2>4. UNCHANGED <<inUse, freeList, total, objFree, objTotal, live, seq, thread, pending,
                 eventQ, cleanup, disQ, nextSeq, pc, threadQ, txn, msg, waiting, ended,
                 sent, overlap, aborted>>
    BY <1>5 DEF Signal, poolVars, objPool, workVars, clientVars
  <2> QED BY <2>2, <2>3, <2>4 DEF TypeInv, TypeOK
<1>6. CASE Park(p)
  <2>1. push[p] \in Carried
    BY <1>0, <1>6 DEF Park
  <2>2. push' \in [Pushers -> {Idle} \cup Carried] /\ qlock' \in [Objects -> Pushers \cup {"nobody"}]
    BY <1>6, <2>1 DEF TypeInv, TypeOK, Park
  <2>3. disQ' \in Seq(Objects)
    <3>1. Append(disQ, push[p].obj) \in Seq(Objects) /\ disQ \in Seq(Objects)
      BY <2>1 DEF TypeInv, TypeOK
    <3> QED BY <1>6, <3>1 DEF Park
  <2>4. UNCHANGED <<inUse, freeList, total, objFree, objTotal, live, seq, thread, pending,
                 eventQ, cleanup, nextSeq, pc, threadQ, txn, msg, waiting, ended, sent,
                 overlap, aborted>>
    BY <1>6 DEF Park, poolVars, objPool, workVars, clientVars
  <2> QED BY <2>2, <2>3, <2>4 DEF TypeInv, TypeOK
<1> QED BY <1>1, <1>2, <1>3, <1>4, <1>5, <1>6 DEF Pusher

\* Taking an entry out of a list leaves a list of the same things.
LEMMA WithoutType ==
    ASSUME NEW S, NEW q \in Seq(S), NEW i \in 1 .. Len(q)
    PROVE  q[i] \in S /\ Without(q, i) \in Seq(S)
<1>0. Len(q) \in Nat /\ i \in Nat /\ i >= 1 /\ i <= Len(q) /\ q[i] \in S
  OBVIOUS
<1>1. SubSeq(q, 1, i - 1) \in Seq(S) /\ SubSeq(q, i + 1, Len(q)) \in Seq(S)
  BY <1>0, SubSeqProperties
<1> QED BY <1>0, <1>1, ConcatProperties DEF Without

\* The steps of a worker.
LEMMA TypeWorker ==
    ASSUME TypeInv, PoolCore, PoolCore', NEW t \in Threads, Worker(t)
    PROVE  TypeInv'
<1>0. pc[t] \notin Unserved => txn[t] \in Objects
  BY DEF TypeInv
<1>x. /\ inUse' \subseteq Threads /\ freeList' \in Seq(Threads) /\ total' \in 0 .. MaxThreads
      /\ pc' \in [Threads -> WorkerPc]
  BY DEF PoolCore
<1>1. CASE associate(t)
  <2>1. threadQ[t] # << >> /\ threadQ[t] \in Seq(Objects)
    BY <1>1 DEF TypeInv, TypeOK, associate
  <2>2. Head(threadQ[t]) \in Objects /\ Tail(threadQ[t]) \in Seq(Objects)
    BY <2>1
  <2>3. /\ threadQ' \in [Threads -> Seq(Objects)]
        /\ txn' \in [Threads -> Objects \cup {None}]
        /\ thread' \in [Objects -> Threads \cup {None}]
        /\ pending' \in [Objects -> BOOLEAN]
    BY <1>1, <2>2 DEF TypeInv, TypeOK, associate
  <2>4. \A u \in Threads : pc'[u] \notin Unserved => txn'[u] \in Objects
    BY <1>1, <2>2 DEF TypeInv, TypeOK, associate
  <2>5. UNCHANGED <<objFree, objTotal, live, seq, eventQ, cleanup, qlock, disQ, nextSeq,
                 msg, push, waiting, ended, sent, overlap, aborted>>
    BY <1>1 DEF associate, objPool, clientVars
  <2> QED BY <1>x, <2>3, <2>4, <2>5 DEF TypeInv, TypeOK
<1>2. CASE PurgeQueue(t)
  <2>1. disQ' \in Seq(Objects) /\ aborted' \in BOOLEAN
    <3>1. CASE UNCHANGED <<disQ, aborted>>
      BY <3>1 DEF TypeInv, TypeOK
    <3>2. ASSUME NEW m \in 0 .. Len(disQ) - 1, NEW left \in [1 .. m -> 1 .. Len(disQ)],
                 disQ' = [i \in 1 .. m |-> disQ[left[i]]], aborted' \in BOOLEAN
          PROVE  disQ' \in Seq(Objects) /\ aborted' \in BOOLEAN
      <4>1. disQ \in Seq(Objects) /\ Len(disQ) \in Nat /\ m \in Nat
        BY DEF TypeInv, TypeOK
      <4>2. \A i \in 1 .. m : disQ[left[i]] \in Objects
        BY <4>1
      <4>3. disQ' \in [1 .. m -> Objects]
        BY <3>2, <4>2
      <4> QED BY <3>2, <4>1, <4>3, SeqDef
    <3> QED BY <1>2, <3>1, <3>2 DEF PurgeQueue
  <2>2. UNCHANGED <<objFree, objTotal, live, seq, thread, pending, eventQ, cleanup, qlock,
                 nextSeq, threadQ, txn, msg, push, waiting, ended, sent, overlap>>
    BY <1>2 DEF PurgeQueue, objPool, objVars, clientVars
  <2>3. \A u \in Threads : pc'[u] \notin Unserved => pc[u] \notin Unserved
    BY <1>2 DEF TypeInv, TypeOK, PurgeQueue, Unserved
  <2> QED BY <1>x, <2>1, <2>2, <2>3 DEF TypeInv, TypeOK
<1>3. CASE eventQ_pop(t)
  <2>1. UNCHANGED <<objFree, objTotal, live, seq, thread, pending, eventQ, cleanup, qlock,
                 disQ, nextSeq, threadQ, txn, msg, push, waiting, ended, sent, overlap>>
    BY <1>3 DEF eventQ_pop, objPool, objVars, clientVars
  <2>2. aborted' \in BOOLEAN /\ \A u \in Threads : pc'[u] \notin Unserved => pc[u] \notin Unserved
    BY <1>3 DEF TypeInv, TypeOK, eventQ_pop, Unserved
  <2> QED BY <1>x, <2>1, <2>2 DEF TypeInv, TypeOK
<1>4. CASE TakeEvent(t)
  <2>1. txn[t] \in Objects
    BY <1>0, <1>4 DEF TakeEvent, Unserved
  <2>2. eventQ[txn[t]] # << >> /\ eventQ[txn[t]] \in Seq(Event)
    BY <1>4, <2>1 DEF TypeInv, TypeOK, TakeEvent
  <2>3. Head(eventQ[txn[t]]) \in Event /\ Tail(eventQ[txn[t]]) \in Seq(Event)
    BY <2>2
  <2>4. eventQ' \in [Objects -> Seq(Event)] /\ msg' \in [Threads -> Event \cup {NoEvent}]
    BY <1>4, <2>3 DEF TypeInv, TypeOK, TakeEvent
  <2>5. UNCHANGED <<objFree, objTotal, live, seq, thread, pending, cleanup, qlock, disQ,
                 nextSeq, threadQ, txn, push, waiting, ended, sent, overlap>>
    BY <1>4 DEF TakeEvent, objPool, clientVars
  <2>6. aborted' \in BOOLEAN /\ \A u \in Threads : pc'[u] \notin Unserved => pc[u] \notin Unserved
    BY <1>4 DEF TypeInv, TypeOK, TakeEvent, Unserved
  <2> QED BY <1>x, <2>4, <2>5, <2>6 DEF TypeInv, TypeOK
<1>5. CASE Handle(t)
  <2>1. UNCHANGED <<objFree, objTotal, live, seq, thread, pending, eventQ, cleanup, qlock,
                 disQ, nextSeq, threadQ, txn, msg, push, ended, sent, overlap, aborted>>
    BY <1>5 DEF Handle, objPool, objVars
  <2>2. /\ waiting' \subseteq 1 .. MaxTxns
        /\ \A u \in Threads : pc'[u] \notin Unserved => pc[u] \notin Unserved
    BY <1>5 DEF TypeInv, TypeOK, Handle, Unserved
  <2> QED BY <1>x, <2>1, <2>2 DEF TypeInv, TypeOK
<1>6. CASE req_forget(t)
  <2>1. UNCHANGED <<objFree, objTotal, live, seq, thread, pending, eventQ, qlock, disQ,
                 nextSeq, threadQ, txn, push, waiting, ended, sent, overlap, aborted>>
    BY <1>6 DEF req_forget, objPool, clientVars
  <2>2. cleanup' \in [Objects -> Nat] /\ msg' \in [Threads -> Event \cup {NoEvent}]
    <3>1. cleanup \in [Objects -> Nat] /\ msg \in [Threads -> Event \cup {NoEvent}]
      BY DEF TypeInv, TypeOK
    <3>2. txn[t] \in Objects
      BY <1>0, <1>6 DEF req_forget, Unserved
    <3> QED BY <1>6, <3>1, <3>2 DEF req_forget
  <2>3. \A u \in Threads : pc'[u] \notin Unserved => pc[u] \notin Unserved
    BY <1>6 DEF TypeInv, TypeOK, req_forget, Unserved
  <2> QED BY <1>x, <2>1, <2>2, <2>3 DEF TypeInv, TypeOK
<1>7. CASE process_eventQ(t)
  <2>1. UNCHANGED <<objFree, objTotal, live, seq, thread, pending, eventQ, cleanup, qlock,
                 disQ, nextSeq, threadQ, txn, push, waiting, ended, sent, overlap>>
    BY <1>7 DEF process_eventQ, objPool, objVars, clientVars
  <2>2. msg' \in [Threads -> Event \cup {NoEvent}] /\ aborted' \in BOOLEAN
    BY <1>7 DEF TypeInv, TypeOK, process_eventQ
  <2>3. \A u \in Threads : pc'[u] \notin Unserved => pc[u] \notin Unserved
    BY <1>7 DEF TypeInv, TypeOK, process_eventQ, Unserved
  <2> QED BY <1>x, <2>1, <2>2, <2>3 DEF TypeInv, TypeOK
<1>8. CASE disassociate(t)
  <2>1. UNCHANGED <<objFree, objTotal, live, seq, pending, eventQ, qlock, disQ, nextSeq,
                 threadQ, msg, push, waiting, ended, sent, overlap, aborted>>
    BY <1>8 DEF disassociate, objPool, clientVars
  <2>2. cleanup' \in [Objects -> Nat]
    <3>1. cleanup \in [Objects -> Nat] /\ txn[t] \in Objects
      BY <1>0, <1>8 DEF TypeInv, TypeOK, disassociate, Unserved
    <3>2. [cleanup EXCEPT ![txn[t]] = IF @ > 0 THEN @ - 1 ELSE 0] \in [Objects -> Nat]
      BY <3>1
    <3> QED BY <1>8, <3>1, <3>2 DEF disassociate
  <2>3. thread' \in [Objects -> Threads \cup {None}] /\ txn' \in [Threads -> Objects \cup {None}]
    BY <1>8 DEF TypeInv, TypeOK, disassociate
  <2>4. \A u \in Threads : pc'[u] \notin Unserved => pc[u] \notin Unserved /\ txn'[u] = txn[u]
    BY <1>8 DEF TypeInv, TypeOK, disassociate, Unserved
  <2> QED BY <1>x, <2>1, <2>2, <2>3, <2>4 DEF TypeInv, TypeOK
<1>9. CASE Cleanup(t)
  <2>1. txn[t] \in Objects
    BY <1>0, <1>9 DEF Cleanup, Unserved
  <2>2. /\ live' \in [Objects -> BOOLEAN] /\ aborted' \in BOOLEAN
        /\ \A o \in Objects : live'[o] => live[o]
    BY <1>9, <2>1 DEF TypeInv, TypeOK, Cleanup
  <2>3. objFree' \in Seq(Objects) /\ objTotal' \in 0 .. MaxObjects
    <3>1. <<txn[t]>> \o objFree \in Seq(Objects)
      <4>1. <<txn[t]>> \in Seq(Objects) /\ objFree \in Seq(Objects)
        BY <2>1 DEF TypeInv, TypeOK
      <4> QED BY <4>1, ConcatProperties
    <3>2. objTotal > HighObjects => objTotal - 1 \in 0 .. MaxObjects
      BY PoolAssumption DEF TypeInv, TypeOK
    <3> QED BY <1>9, <3>1, <3>2 DEF TypeInv, TypeOK, Cleanup
  <2>4. UNCHANGED <<seq, thread, pending, eventQ, cleanup, qlock, disQ, nextSeq, threadQ,
                 msg, push, waiting, ended, sent, overlap>>
    BY <1>9 DEF Cleanup, clientVars
  <2>5. /\ txn' \in [Threads -> Objects \cup {None}]
        /\ \A u \in Threads : pc'[u] \notin Unserved => pc[u] \notin Unserved /\ txn'[u] = txn[u]
    BY <1>9 DEF TypeInv, TypeOK, Cleanup, Unserved
  <2> QED BY <1>x, <2>2, <2>3, <2>4, <2>5 DEF TypeInv, TypeOK
<1>10. CASE check_for_queued_requests(t)
  <2>1. UNCHANGED <<objFree, objTotal, live, seq, thread, pending, eventQ, cleanup, qlock,
                 nextSeq, txn, msg, push, waiting, ended, sent, overlap, aborted>>
    BY <1>10 DEF check_for_queued_requests, objPool, objVars, clientVars
  <2>2. disQ' \in Seq(Objects) /\ threadQ' \in [Threads -> Seq(Objects)]
    <3>1. CASE UNCHANGED <<disQ, threadQ>>
      BY <3>1 DEF TypeInv, TypeOK
    <3>2. ASSUME NEW i \in 1 .. Len(disQ),
                 disQ' = SubSeq(disQ, 1, i - 1) \o SubSeq(disQ, i + 1, Len(disQ)),
                 threadQ' = [threadQ EXCEPT ![t] = <<disQ[i]>> \o @]
          PROVE  disQ' \in Seq(Objects) /\ threadQ' \in [Threads -> Seq(Objects)]
      <4>1. disQ \in Seq(Objects) /\ threadQ \in [Threads -> Seq(Objects)]
        BY DEF TypeInv, TypeOK
      <4>2. disQ[i] \in Objects /\ disQ' \in Seq(Objects)
        BY <3>2, <4>1, WithoutType DEF Without
      <4>3. <<disQ[i]>> \in Seq(Objects) /\ threadQ[t] \in Seq(Objects)
        BY <4>1, <4>2
      <4>4. <<disQ[i]>> \o threadQ[t] \in Seq(Objects)
        BY <4>3, ConcatProperties
      <4> QED BY <3>2, <4>1, <4>2, <4>4
    <3> QED BY <1>10, <3>1, <3>2 DEF check_for_queued_requests
  <2>3. \A u \in Threads : pc'[u] \notin Unserved => pc[u] \notin Unserved
    BY <1>10 DEF TypeInv, TypeOK, check_for_queued_requests, Unserved
  <2> QED BY <1>x, <2>1, <2>2, <2>3 DEF TypeInv, TypeOK
<1>11. CASE deleteElement(t)
  <2>1. UNCHANGED <<objFree, objTotal, live, seq, thread, pending, eventQ, cleanup, qlock,
                 disQ, nextSeq, threadQ, txn, msg, push, waiting, ended, sent, overlap,
                 aborted>>
    BY <1>11 DEF deleteElement, objPool, objVars, clientVars
  <2>2. \A u \in Threads : pc'[u] \notin Unserved => pc[u] \notin Unserved
    BY <1>11 DEF TypeInv, TypeOK, deleteElement, Unserved
  <2> QED BY <1>x, <2>1, <2>2 DEF TypeInv, TypeOK
<1> QED BY <1>1, <1>2, <1>3, <1>4, <1>5, <1>6, <1>7, <1>8, <1>9, <1>10, <1>11 DEF Worker

\* No assumption on the clients is needed.
LEMMA TypeHolds == Spec => []TypeInv
<1>1. Init => TypeInv
  <2> SUFFICES ASSUME Init PROVE TypeInv
    OBVIOUS
  <2>1. /\ << >> \in Seq(Threads) /\ << >> \in Seq(Objects) /\ << >> \in Seq(Event)
        /\ 0 \in 0 .. MaxThreads /\ 0 \in 0 .. MaxObjects /\ 0 \in 0 .. MaxTxns
        /\ 1 \in 1 .. MaxTxns + 1 /\ 0 \in 0 .. MaxRequests
    BY PoolAssumption, EnvironmentAssumption
  <2>2. TypeOK
    BY <2>1 DEF Init, TypeOK, WorkerPc
  <2> QED BY <2>2 DEF Init, TypeInv, Unserved
<1>2. TypeInv /\ PoolCore /\ PoolCore' /\ [Next]_vars => TypeInv'
  <2> SUFFICES ASSUME TypeInv, PoolCore, PoolCore', [Next]_vars PROVE TypeInv'
    OBVIOUS
  <2>1. CASE new_tx
    BY <2>1, TypeNewTx
  <2>2. CASE \E p \in Pushers, o \in Objects, k \in {"keep", "forget"} : Request(p, o, k)
    BY <2>2, TypeRequest
  <2>3. CASE \E p \in Pushers : Pusher(p)
    BY <2>3, TypePusher
  <2>4. CASE \E t \in Threads : Worker(t)
    BY <2>4, TypeWorker
  <2>5. CASE UNCHANGED vars
    BY <2>5 DEF TypeInv, TypeOK, vars, poolVars, objPool, objVars, workVars, clientVars
  <2> QED BY <2>1, <2>2, <2>3, <2>4, <2>5 DEF Next
<1> QED BY <1>1, <1>2, CoreHolds, PTL DEF Spec

-----------------------------------------------------------------------------
(* Steps of the main thread.                                               *)

\* An object of the pool has nothing left of its last transaction.
LEMMA new_txStep ==
    ASSUME Inv, TypeOK', new_tx
    PROVE  Inv'
<1>1. PICK o \in Objects :
         /\ nextSeq <= MaxTxns /\ nextSeq' = nextSeq + 1
         /\ \/ /\ objFree # << >> /\ o = Head(objFree) /\ objFree' = Tail(objFree)
               /\ UNCHANGED eventQ
            \/ /\ FirstUnmade(o) /\ UNCHANGED objFree
               /\ eventQ' = [eventQ EXCEPT ![o] = << >>]
         /\ live' = [live EXCEPT ![o] = TRUE] /\ seq' = [seq EXCEPT ![o] = nextSeq]
         /\ thread' = [thread EXCEPT ![o] = None] /\ pending' = [pending EXCEPT ![o] = FALSE]
         /\ cleanup' = [cleanup EXCEPT ![o] = 0]
  BY DEF new_tx
<1>2. ~live[o]
  <2>1. CASE objFree # << >> /\ o = Head(objFree)
    <3>1. FreeObject(o)
      BY <2>1, TailFacts DEF Inv, TypeOK, FreeObject
    <3> QED BY <3>1 DEF Inv, Life, ObjectInv
  <2>2. CASE FirstUnmade(o)
    BY <2>2 DEF FirstUnmade
  <2> QED BY <1>1, <2>1, <2>2
<1>3. Distinct(objFree') /\ \A u \in Objects : FreeObject(u)' => FreeObject(u) /\ u # o
  <2>0. objFree \in Seq(Objects) /\ Distinct(objFree)
    BY DEF Inv, TypeOK, Life, ObjectInv
  <2>1. CASE objFree # << >> /\ o = Head(objFree) /\ objFree' = Tail(objFree)
    <3>1. /\ Distinct(objFree') /\ ~InSeq(objFree', o)
          /\ \A y : InSeq(objFree', y) => InSeq(objFree, y)
      BY <2>0, <2>1, TailFacts
    <3> QED BY <3>1 DEF FreeObject
  <2>2. CASE FirstUnmade(o) /\ objFree' = objFree
    <3>1. ~FreeObject(o)
      BY <2>2 DEF FirstUnmade, FreeObject, InSeq
    <3> QED BY <2>0, <2>2, <3>1 DEF FreeObject
  <2> QED BY <1>1, <2>1, <2>2
<1>g. pending' = pending /\ cleanup' = cleanup
  <2>1. ~pending[o] /\ cleanup[o] = 0
    BY <1>2 DEF Inv, Life, DeadInv
  <2> QED BY <1>1, <2>1 DEF Inv, TypeOK
<1>h. eventQ' = eventQ
  <2>1. eventQ[o] = << >>
    BY <1>2 DEF Inv, Service, QueueInv, Busy
  <2> QED BY <1>1, <2>1 DEF Inv, TypeOK

<1>u. UNCHANGED <<inUse, freeList, total, pending, eventQ, cleanup, qlock, disQ, pc,
               threadQ, txn, msg, push, waiting, ended, sent, overlap, aborted>>
  BY <1>g, <1>h DEF new_tx, poolVars, objPool, objVars, workVars, clientVars
<1>4. /\ nextSeq \in 1 .. MaxTxns /\ nextSeq' = nextSeq + 1
      /\ live' = [live EXCEPT ![o] = TRUE] /\ seq' = [seq EXCEPT ![o] = nextSeq] /\ thread' = [thread EXCEPT ![o] = None]
  <2>1. nextSeq \in 1 .. MaxTxns + 1 /\ MaxTxns \in Nat
    BY EnvironmentAssumption DEF Inv, TypeOK
  <2> QED BY <1>1, <2>1
<1>a. NotAborted'
  BY <1>u DEF Inv, NotAborted
<1> USE KeepThreadQ, KeepEventQ, KeepPush, KeepDisQ, KeepFreeList
<1>e. /\ ~live[o] /\ live'[o] /\ seq'[o] = nextSeq /\ thread'[o] = None /\ nextSeq' = nextSeq + 1
      /\ \A w \in Objects : w # o => live'[w] = live[w] /\ seq'[w] = seq[w] /\ thread'[w] = thread[w]
      /\ nextSeq \in 1 .. MaxTxns
  BY <1>2, <1>4 DEF Inv, TypeOK
<1>5. /\ ~Busy(o) /\ ~Parked(o) /\ ~pending[o] /\ cleanup[o] = 0
      /\ \A t \in Threads : txn[t] # o /\ ~Told(t, o)
      /\ \A p \in Pushers : Obj(p) # o
  <2>1. \A t \in Threads : txn[t] # o /\ ~Told(t, o)
    BY <1>2, Shape DEF Inv, Service, OwnInv, ToldInv
  <2>2. \A p \in Pushers : Obj(p) # o
    BY <1>2, Shape, TypeFacts DEF Inv, Queueing, PushInv
  <2> QED BY <1>2, <2>1, <2>2 DEF Inv, Service, Life, QueueInv, ParkedInv, DeadInv
<1>6. \A v, w : w \in Objects /\ w # o => (Sound(v, w)' <=> Sound(v, w))
  BY <1>u, <1>e DEF Sound
<1>7. /\ \A t \in Threads : pc[t] \notin Unserved => txn[t] \in Objects /\ txn[t] # o
      /\ \A p \in Pushers : At(p) # "idle" => Obj(p) \in Objects /\ Obj(p) # o
  BY <1>5, TypeFacts DEF Inv, Control, PcInv

<1>Control. Control'
  <2>0. TellInv' /\ PcInv' /\ PoolInv'
    BY <1>u, KeepTellInv, KeepPcInv, KeepPoolInv DEF Inv, Control
  <2> QED BY <2>0 DEF Control
<1>Life. Life'
  <2>1. ObjectInv'
    <3>1. \A w \in Objects : live[w] => seq[w] \in 1 .. nextSeq' - 1
      BY <1>e DEF Inv, Life, ObjectInv
    <3>2. nextSeq \in 1 .. nextSeq' - 1
      BY <1>e
    <3>3. \A w \in Objects : FreeObject(w)' => w # o /\ ~live[w]
      BY <1>3 DEF Inv, Life, ObjectInv
    <3> QED BY <1>3, <1>e, <3>1, <3>2, <3>3 DEF ObjectInv
  <2>2. SeqInv'
    <3>1. \A w \in Objects : live[w] => seq[w] # nextSeq
      BY <1>e DEF Inv, TypeOK, Life, ObjectInv
    <3>2. waiting \cup ended \subseteq 1 .. nextSeq' - 1
      BY <1>e DEF Inv, Life, SeqInv
    <3>3. \A w, u \in Objects : live'[w] /\ live'[u] /\ seq'[w] = seq'[u] => w = u
      BY <1>e, <3>1 DEF Inv, Life, SeqInv
    <3> QED BY <1>u, <3>2, <3>3 DEF SeqInv
  <2>3. DeadInv'
    BY <1>u, <1>e, <1>5 DEF Inv, Life, DeadInv
  <2>4. EndInv'
    BY <1>u, <1>e, <1>5, <1>7 DEF Inv, Life, EndInv, Unserved
  <2> QED BY <2>1, <2>2, <2>3, <2>4 DEF Life
<1>Service. Service'
  <2>0. OneInv' /\ KnownInv'
    BY <1>u, KeepOneInv, KeepKnownInv DEF Inv, Service
  <2>1. OwnInv'
    <3>1. \A t \in Threads : txn[t] # None => txn[t] \in Objects /\ txn[t] # o
      BY <1>5, TypeFacts DEF Inv
    <3> QED BY <1>u, <1>e, <3>1 DEF Inv, Service, OwnInv
  <2>2. ToldInv'
    <3>1. \A w \in Objects : live[w] => live'[w]
      BY <1>e
    <3>2. ToldInv
      BY DEF Inv, Service
    <3> QED BY <1>u, <3>1, <3>2 DEF ToldInv
  <2>3. QueueInv'
    BY <1>u, <1>e, <1>5, <1>6 DEF Inv, Service, QueueInv
  <2>4. HandleInv'
    BY <1>u, <1>e, <1>5, <1>6, <1>7 DEF Inv, Service, HandleInv, Unserved
  <2>5. ParkedInv'
    BY <1>u, <1>e, <1>5, KeepServes DEF Inv, Service, ParkedInv
  <2> QED BY <2>0, <2>1, <2>2, <2>3, <2>4, <2>5 DEF Service
<1>Queueing. Queueing'
  <2>0. LockInv' /\ AskInv' /\ AssocInv'
    BY <1>u, KeepLockInv, KeepAskInv, KeepAssocInv DEF Inv, Queueing
  <2>1. PushInv'
    BY <1>u, <1>e, <1>5, <1>6, <1>7 DEF Inv, Queueing, PushInv
  <2>2. CarryInv'
    BY <1>u, <1>e, <1>7 DEF Inv, Queueing, CarryInv, Carrying
  <2> QED BY <2>0, <2>1, <2>2 DEF Queueing
<1> QED BY <1>a, <1>Control, <1>Life, <1>Service, <1>Queueing DEF Inv

\* A request arrives, and no other one of its transaction is under way.
LEMMA RequestStep ==
    ASSUME Inv, TypeOK', ~overlap', NEW p \in Pushers, NEW o \in Objects,
           NEW k \in {"keep", "forget"}, Request(p, o, k)
    PROVE  Inv'
<1>u. UNCHANGED <<inUse, freeList, total, objFree, objTotal, live, seq, thread, pending,
               eventQ, cleanup, qlock, disQ, nextSeq, pc, threadQ, txn, msg, aborted>>
  BY DEF Request, poolVars, objPool, objVars, workVars, clientVars
<1>1. /\ live[o] /\ seq[o] \notin waiting /\ seq[o] \notin ended
      /\ At(p) = "idle" /\ Obj(p) = None
  BY TypeFacts DEF Inv, Request
<1>2. seq[o] \in 1 .. MaxTxns /\ seq[o] \in 1 .. nextSeq - 1
  BY <1>1 DEF Inv, TypeOK, Life, ObjectInv
<1>3. /\ waiting' = waiting \cup {seq[o]} /\ ended \subseteq ended' /\ ended' \subseteq ended \cup {seq[o]}
      /\ k = "forget" => seq[o] \in ended'
  BY DEF Request
<1>a. NotAborted'
  BY <1>u DEF Inv, NotAborted
<1> USE KeepThreadQ, KeepEventQ, KeepDisQ, KeepFreeList, KeepObjFree
<1>p. /\ At(p)' = "good" /\ Obj(p)' = o /\ Ev(p)' = [seq |-> seq[o], kind |-> k]
      /\ \A q \in Pushers : q # p =>
             At(q)' = At(q) /\ Obj(q)' = Obj(q) /\ Ev(q)' = Ev(q) /\ Assoc(q)' = Assoc(q)
  BY DEF Inv, TypeOK, Request, At, Obj, Ev, Assoc
<1>4. \A v, w : Sound(v, w) => Sound(v, w)'
  BY <1>u, <1>3 DEF Sound
<1>5. /\ ~Busy(o) /\ ~Parked(o) /\ cleanup[o] = 0
      /\ \A t \in Threads : txn[t] = o => pc[t] \notin {"handle", "forget", "cleanup"}
      /\ \A q \in Pushers : At(q) \in Carrying => Obj(q) # o
  BY <1>1 DEF Inv, Service, Life, Queueing, QueueInv, ParkedInv, EndInv, HandleInv,
       CarryInv
<1>6. Sound(Ev(p), o)'
  <2>1. [seq |-> seq[o], kind |-> k] \in Event
    BY <1>2 DEF Event
  <2> QED BY <1>u, <1>p, <1>3, <2>1 DEF Sound
<1>e. waiting' = waiting \cup {seq[o]} /\ None # o
  BY <1>3, Shape

<1>Control. Control'
  <2>0. TellInv' /\ PcInv' /\ PoolInv'
    BY <1>u, KeepTellInv, KeepPcInv, KeepPoolInv DEF Inv, Control
  <2> QED BY <2>0 DEF Control
<1>Life. Life'
  <2>0. ObjectInv' /\ DeadInv'
    BY <1>u, KeepObjectInv, KeepDeadInv DEF Inv, Life
  <2>1. SeqInv'
    BY <1>u, <1>e, <1>2, <1>3 DEF Inv, Life, SeqInv
  <2>2. EndInv'
    BY <1>u, <1>e, <1>1, <1>3 DEF Inv, Life, EndInv
  <2> QED BY <2>0, <2>1, <2>2 DEF Life
<1>Service. Service'
  <2>0. OneInv' /\ OwnInv'
    BY <1>u, KeepOneInv, KeepOwnInv DEF Inv, Service
  <2>1. ToldInv'
    <3>1. \A q \in Pushers : At(q) \in {"push", "new_thread"} => At(q)' = At(q) /\ Obj(q)' = Obj(q)
      BY <1>p, <1>1
    <3> QED BY <1>u, <3>1 DEF Inv, Service, ToldInv
  <2>2. QueueInv'
    BY <1>u, <1>e, <1>4 DEF Inv, Service, QueueInv
  <2>3. HandleInv'
    BY <1>u, <1>e, <1>4 DEF Inv, Service, HandleInv
  <2>4. KnownInv'
    BY <1>u, <1>p, <1>1, Shape, KeepServes DEF Inv, Service, KnownInv
  <2>5. ParkedInv'
    BY <1>u, <1>p, <1>5, KeepServes DEF Inv, Service, ParkedInv
  <2> QED BY <2>0, <2>1, <2>2, <2>3, <2>4, <2>5 DEF Service
<1>Queueing. Queueing'
  <2>1. PushInv'
    BY <1>u, <1>p, <1>1, <1>4, <1>5, <1>6 DEF Inv, Queueing, PushInv
  <2>2. LockInv'
    BY <1>u, <1>e, <1>p, <1>1, TypeFacts DEF Inv, Queueing, LockInv, Holding
  <2>3. CarryInv'
    BY <1>u, <1>e, <1>p, <1>1, <1>5 DEF Inv, Queueing, CarryInv, Carrying
  <2>4. AskInv'
    BY <1>u, <1>e, <1>p DEF Inv, Queueing, AskInv, Serves
  <2>5. AssocInv'
    BY <1>u, <1>e, <1>p DEF Inv, Queueing, AssocInv, Serves
  <2> QED BY <2>1, <2>2, <2>3, <2>4, <2>5 DEF Queueing
<1> QED BY <1>a, <1>Control, <1>Life, <1>Service, <1>Queueing DEF Inv

-----------------------------------------------------------------------------
(* Steps of a thread that queues a request.                                *)

\* txn_object_good never refuses the request of a client that awaits its
\* replies; the object has a thread ...
LEMMA QueueToServed ==
    ASSUME Inv, TypeOK', NEW p \in Pushers, queueToTransaction(p), thread[push[p].obj] # None
    PROVE  Inv'
<1>u. UNCHANGED <<inUse, freeList, total, objFree, objTotal, live, seq, thread, pending,
               eventQ, cleanup, disQ, nextSeq, pc, threadQ, txn, msg, ended, sent, overlap,
               aborted>>
  BY DEF queueToTransaction, poolVars, objPool, objVars, workVars, clientVars
<1>0. PICK o \in Objects : Obj(p) = o /\ At(p) = "good"
  BY TypeFacts DEF Inv, queueToTransaction, At
<1>1. live[o] /\ cleanup[o] = 0 /\ Sound(Ev(p), o) /\ push[p].obj = o /\ push[p].ev = Ev(p)
  BY <1>0 DEF Inv, Queueing, PushInv, Obj, Ev
<1>2. /\ qlock[o] = "nobody" /\ qlock' = [qlock EXCEPT ![o] = p]
      /\ push' = [push EXCEPT ![p].at = IF thread[o] # None THEN "push" ELSE "test",
                              ![p].assoc = thread[o] # None]
      /\ UNCHANGED waiting
  <2>1. txn_object_good(push[p].obj, push[p].ev.seq)
    BY <1>1 DEF txn_object_good, Sound
  <2> QED BY <1>1, <2>1 DEF queueToTransaction
<1>3. push' = [push EXCEPT ![p].at = "push", ![p].assoc = TRUE]
  BY <1>1, <1>2
<1>a. NotAborted'
  BY <1>u DEF Inv, NotAborted
<1> USE KeepThreadQ, KeepEventQ, KeepDisQ, KeepFreeList, KeepObjFree, KeepSound
<1>p. /\ At(p)' = "push" /\ Obj(p)' = o /\ Ev(p)' = Ev(p) /\ Assoc(p)' = TRUE
      /\ \A q \in Pushers : q # p =>
             At(q)' = At(q) /\ Obj(q)' = Obj(q) /\ Ev(q)' = Ev(q) /\ Assoc(q)' = Assoc(q)
  BY <1>0, <1>1, <1>3, TypePush DEF Inv, At, Obj, Ev, Assoc, Idle, None
<1>q. qlock[o] = "nobody" /\ qlock'[o] = p /\ \A w \in Objects : w # o => qlock'[w] = qlock[w]
  BY <1>2 DEF Inv, TypeOK
<1>4. \E t \in Threads : Serves(t, o)
  BY <1>1, TypeFacts DEF Inv, Service, OwnInv, Serves
<1>e. At(p) = "good" /\ Obj(p) = o /\ UNCHANGED waiting
  BY <1>0, <1>2

<1>Control. Control'
  <2>0. TellInv' /\ PcInv' /\ PoolInv'
    BY <1>u, KeepTellInv, KeepPcInv, KeepPoolInv DEF Inv, Control
  <2> QED BY <2>0 DEF Control
<1>Life. Life'
  <2>0. ObjectInv' /\ DeadInv'
    BY <1>u, KeepObjectInv, KeepDeadInv DEF Inv, Life
  <2>1. SeqInv'
    BY <1>u, <1>e DEF Inv, Life, SeqInv
  <2>2. EndInv'
    BY <1>u, <1>e DEF Inv, Life, EndInv
  <2> QED BY <2>0, <2>1, <2>2 DEF Life
<1>Service. Service'
  <2>0. OneInv' /\ OwnInv'
    BY <1>u, KeepOneInv, KeepOwnInv DEF Inv, Service
  <2>1. ToldInv'
    BY <1>u, <1>e, <1>p DEF Inv, Service, ToldInv, Serves
  <2>2. QueueInv'
    BY <1>u, <1>e DEF Inv, Service, QueueInv
  <2>3. HandleInv'
    BY <1>u, <1>e DEF Inv, Service, HandleInv
  <2>4. KnownInv'
    BY <1>u, <1>p, <1>0, KeepServes DEF Inv, Service, KnownInv
  <2>5. ParkedInv'
    BY <1>u, <1>p, <1>0, KeepServes DEF Inv, Service, ParkedInv
  <2> QED BY <2>0, <2>1, <2>2, <2>3, <2>4, <2>5 DEF Service
<1>Queueing. Queueing'
  <2>1. PushInv'
    BY <1>u, <1>e, <1>p DEF Inv, Queueing, PushInv
  <2>2. LockInv'
    <3>1. \A q \in Pushers : q # p /\ At(q) \in Holding => Obj(q) \in Objects /\ Obj(q) # o
      BY <1>q, TypeFacts, Shape DEF Inv, Queueing, LockInv, Holding
    <3>2. \A w \in Objects : w # o /\ qlock[w] # "nobody" => qlock[w] # p /\ qlock[w] \in Pushers
      BY <1>0, TypeFacts DEF Inv, Queueing, LockInv, Holding
    <3>3. \A q \in Pushers : At(q)' \in Holding => qlock'[Obj(q)'] = q
      BY <1>p, <1>q, <3>1 DEF Inv, Queueing, LockInv
    <3>4. \A w \in Objects : qlock'[w] # "nobody" =>
              \E q \in Pushers : qlock'[w] = q /\ Obj(q)' = w /\ At(q)' \in Holding
      BY <1>p, <1>q, <3>2 DEF Inv, Queueing, LockInv, Holding
    <3>5. \A w \in Objects : qlock'[w] # "nobody" => (Obj(qlock[w]) = w /\ At(qlock[w]) \in Holding)'
      BY <3>4 DEF Obj, At
    <3> QED BY <3>3, <3>5 DEF LockInv
  <2>3. CarryInv'
    BY <1>u, <1>e, <1>p DEF Inv, Queueing, CarryInv, Carrying
  <2>4. AskInv'
    BY <1>u, <1>e, <1>p DEF Inv, Queueing, AskInv, Serves
  <2>5. AssocInv'
    BY <1>u, <1>p, <1>0, <1>4, KeepServes DEF Inv, Queueing, AssocInv
  <2> QED BY <2>1, <2>2, <2>3, <2>4, <2>5 DEF Queueing
<1> QED BY <1>a, <1>Control, <1>Life, <1>Service, <1>Queueing DEF Inv

\* ... or none, and then none was told of it either.
LEMMA QueueToUnserved ==
    ASSUME Inv, TypeOK', NEW p \in Pushers, queueToTransaction(p), thread[push[p].obj] = None
    PROVE  Inv'
<1>u. UNCHANGED <<inUse, freeList, total, objFree, objTotal, live, seq, thread, pending,
               eventQ, cleanup, disQ, nextSeq, pc, threadQ, txn, msg, ended, sent, overlap,
               aborted>>
  BY DEF queueToTransaction, poolVars, objPool, objVars, workVars, clientVars
<1>0. PICK o \in Objects : Obj(p) = o /\ At(p) = "good"
  BY TypeFacts DEF Inv, queueToTransaction, At
<1>1. live[o] /\ cleanup[o] = 0 /\ Sound(Ev(p), o) /\ push[p].obj = o /\ push[p].ev = Ev(p)
  BY <1>0 DEF Inv, Queueing, PushInv, Obj, Ev
<1>2. /\ qlock[o] = "nobody" /\ qlock' = [qlock EXCEPT ![o] = p]
      /\ push' = [push EXCEPT ![p].at = IF thread[o] # None THEN "push" ELSE "test",
                              ![p].assoc = thread[o] # None]
      /\ UNCHANGED waiting
  <2>1. txn_object_good(push[p].obj, push[p].ev.seq)
    BY <1>1 DEF txn_object_good, Sound
  <2> QED BY <1>1, <2>1 DEF queueToTransaction
<1>3. push' = [push EXCEPT ![p].at = "test", ![p].assoc = FALSE]
  BY <1>1, <1>2
<1>a. NotAborted'
  BY <1>u DEF Inv, NotAborted
<1> USE KeepThreadQ, KeepEventQ, KeepDisQ, KeepFreeList, KeepObjFree, KeepSound
<1>p. /\ At(p)' = "test" /\ Obj(p)' = o /\ Ev(p)' = Ev(p) /\ Assoc(p)' = FALSE
      /\ \A q \in Pushers : q # p =>
             At(q)' = At(q) /\ Obj(q)' = Obj(q) /\ Ev(q)' = Ev(q) /\ Assoc(q)' = Assoc(q)
  BY <1>0, <1>1, <1>3, TypePush DEF Inv, At, Obj, Ev, Assoc, Idle, None
<1>q. qlock[o] = "nobody" /\ qlock'[o] = p /\ \A w \in Objects : w # o => qlock'[w] = qlock[w]
  BY <1>2 DEF Inv, TypeOK
<1>4. \A t \in Threads : ~Serves(t, o)
  <2>1. \A t \in Threads : txn[t] # o
    BY <1>1, Shape DEF Inv, Service, OwnInv
  <2>2. ~Busy(o) /\ \A q \in Pushers : Obj(q) = o => At(q) # "push"
    BY <1>0 DEF Inv, Queueing, CarryInv, Carrying
  <2>3. \A t \in Threads : ~Told(t, o)
    BY <2>2 DEF Inv, Service, ToldInv
  <2> QED BY <2>1, <2>3 DEF Serves
<1>e. At(p) = "good" /\ Obj(p) = o /\ UNCHANGED waiting
  BY <1>0, <1>2

<1>Control. Control'
  <2>0. TellInv' /\ PcInv' /\ PoolInv'
    BY <1>u, KeepTellInv, KeepPcInv, KeepPoolInv DEF Inv, Control
  <2> QED BY <2>0 DEF Control
<1>Life. Life'
  <2>0. ObjectInv' /\ DeadInv'
    BY <1>u, KeepObjectInv, KeepDeadInv DEF Inv, Life
  <2>1. SeqInv'
    BY <1>u, <1>e DEF Inv, Life, SeqInv
  <2>2. EndInv'
    BY <1>u, <1>e DEF Inv, Life, EndInv
  <2> QED BY <2>0, <2>1, <2>2 DEF Life
<1>Service. Service'
  <2>0. OneInv' /\ OwnInv'
    BY <1>u, KeepOneInv, KeepOwnInv DEF Inv, Service
  <2>1. ToldInv'
    BY <1>u, <1>e, <1>p DEF Inv, Service, ToldInv, Serves
  <2>2. QueueInv'
    BY <1>u, <1>e DEF Inv, Service, QueueInv
  <2>3. HandleInv'
    BY <1>u, <1>e DEF Inv, Service, HandleInv
  <2>4. KnownInv'
    BY <1>u, <1>p, <1>0, KeepServes DEF Inv, Service, KnownInv
  <2>5. ParkedInv'
    BY <1>u, <1>p, <1>0, KeepServes DEF Inv, Service, ParkedInv
  <2> QED BY <2>0, <2>1, <2>2, <2>3, <2>4, <2>5 DEF Service
<1>Queueing. Queueing'
  <2>1. PushInv'
    BY <1>u, <1>e, <1>p DEF Inv, Queueing, PushInv
  <2>2. LockInv'
    <3>1. \A q \in Pushers : q # p /\ At(q) \in Holding => Obj(q) \in Objects /\ Obj(q) # o
      BY <1>q, TypeFacts, Shape DEF Inv, Queueing, LockInv, Holding
    <3>2. \A w \in Objects : w # o /\ qlock[w] # "nobody" => qlock[w] # p /\ qlock[w] \in Pushers
      BY <1>0, TypeFacts DEF Inv, Queueing, LockInv, Holding
    <3>3. \A q \in Pushers : At(q)' \in Holding => qlock'[Obj(q)'] = q
      BY <1>p, <1>q, <3>1 DEF Inv, Queueing, LockInv
    <3>4. \A w \in Objects : qlock'[w] # "nobody" =>
              \E q \in Pushers : qlock'[w] = q /\ Obj(q)' = w /\ At(q)' \in Holding
      BY <1>p, <1>q, <3>2 DEF Inv, Queueing, LockInv, Holding
    <3>5. \A w \in Objects : qlock'[w] # "nobody" => (Obj(qlock[w]) = w /\ At(qlock[w]) \in Holding)'
      BY <3>4 DEF Obj, At
    <3> QED BY <3>3, <3>5 DEF LockInv
  <2>3. CarryInv'
    BY <1>u, <1>e, <1>p DEF Inv, Queueing, CarryInv, Carrying
  <2>4. AskInv'
    BY <1>u, <1>p, <1>0, <1>4, KeepServes DEF Inv, Queueing, AskInv
  <2>5. AssocInv'
    BY <1>u, <1>e, <1>p DEF Inv, Queueing, AssocInv, Serves
  <2> QED BY <2>1, <2>2, <2>3, <2>4, <2>5 DEF Queueing
<1> QED BY <1>a, <1>Control, <1>Life, <1>Service, <1>Queueing DEF Inv

\* iv_threadPending is false: nobody else is queueing to this object.
LEMMA TestPendingStep ==
    ASSUME Inv, TypeOK', NEW p \in Pushers, TestPending(p)
    PROVE  Inv'
<1>u. UNCHANGED <<inUse, freeList, total, objFree, objTotal, live, seq, thread, eventQ,
               cleanup, qlock, disQ, nextSeq, pc, threadQ, txn, msg, waiting, ended,
               sent, overlap, aborted>>
  BY DEF TestPending, poolVars, objPool, objVars, workVars, clientVars
<1>0. PICK o \in Objects : Obj(p) = o /\ At(p) = "test"
  BY TypeFacts DEF Inv, TestPending, At
<1>1. live[o] /\ cleanup[o] = 0 /\ Sound(Ev(p), o) /\ push[p].obj = o /\ push[p].ev = Ev(p)
  BY <1>0 DEF Inv, Queueing, PushInv, Obj, Ev
<1>2. ~pending[o]
  <2>1. \A t \in Threads : ~Told(t, o)
    BY <1>0 DEF Inv, Queueing, AskInv, Serves
  <2>2. \A q \in Pushers : q # p /\ At(q) \in Holding => Obj(q) # o
    BY <1>0 DEF Inv, Queueing, LockInv, Holding
  <2> QED BY <1>0, <2>1, <2>2 DEF Inv, Service, ToldInv, Holding
<1>3. push' = [push EXCEPT ![p].at = "new_thread"] /\ pending' = [pending EXCEPT ![o] = TRUE]
  BY <1>1, <1>2 DEF TestPending
<1>a. NotAborted'
  BY <1>u DEF Inv, NotAborted
<1> USE KeepThreadQ, KeepEventQ, KeepDisQ, KeepFreeList, KeepObjFree, KeepSound
<1>p. /\ At(p)' = "new_thread" /\ Obj(p)' = o /\ Ev(p)' = Ev(p) /\ Assoc(p)' = Assoc(p)
      /\ \A q \in Pushers : q # p =>
             At(q)' = At(q) /\ Obj(q)' = Obj(q) /\ Ev(q)' = Ev(q) /\ Assoc(q)' = Assoc(q)
  BY <1>0, <1>1, <1>3, TypePush DEF Inv, At, Obj, Ev, Assoc, Idle, None
<1>e. /\ At(p) = "test" /\ Obj(p) = o /\ live[o]
      /\ pending'[o] /\ \A w \in Objects : w # o => pending'[w] = pending[w]
  BY <1>0, <1>1, <1>3 DEF Inv, TypeOK

<1>Control. Control'
  <2>0. TellInv' /\ PcInv' /\ PoolInv'
    BY <1>u, KeepTellInv, KeepPcInv, KeepPoolInv DEF Inv, Control
  <2> QED BY <2>0 DEF Control
<1>Life. Life'
  <2>0. ObjectInv' /\ SeqInv' /\ EndInv'
    BY <1>u, KeepObjectInv, KeepSeqInv, KeepEndInv DEF Inv, Life
  <2>1. DeadInv'
    BY <1>u, <1>e DEF Inv, Life, DeadInv
  <2> QED BY <2>0, <2>1 DEF Life
<1>Service. Service'
  <2>0. OneInv' /\ OwnInv' /\ QueueInv' /\ HandleInv'
    BY <1>u, KeepOneInv, KeepOwnInv, KeepQueueInv, KeepHandleInv DEF Inv, Service
  <2>1. ToldInv'
    <3>1. \A q \in Pushers : At(q) \in {"push", "new_thread"} => At(q)' = At(q) /\ Obj(q)' = Obj(q)
      BY <1>p, <1>e
    <3>2. \A w \in Objects : pending'[w] => pending[w] \/ (Obj(p)' = w /\ At(p)' = "new_thread")
      BY <1>p, <1>e
    <3> QED BY <1>u, <3>1, <3>2 DEF Inv, Service, ToldInv
  <2>2. KnownInv'
    BY <1>u, <1>p, <1>0, KeepServes DEF Inv, Service, KnownInv
  <2>3. ParkedInv'
    BY <1>u, <1>p, <1>0, KeepServes DEF Inv, Service, ParkedInv
  <2> QED BY <2>0, <2>1, <2>2, <2>3 DEF Service
<1>Queueing. Queueing'
  <2>1. PushInv'
    BY <1>u, <1>e, <1>p DEF Inv, Queueing, PushInv
  <2>2. LockInv'
    BY <1>u, <1>e, <1>p, TypeFacts DEF Inv, Queueing, LockInv, Holding
  <2>3. CarryInv'
    BY <1>u, <1>e, <1>p DEF Inv, Queueing, CarryInv, Carrying
  <2>4. AskInv'
    BY <1>u, <1>e, <1>p DEF Inv, Queueing, AskInv, Serves
  <2>5. AssocInv'
    BY <1>u, <1>e, <1>p DEF Inv, Queueing, AssocInv, Serves
  <2> QED BY <2>1, <2>2, <2>3, <2>4, <2>5 DEF Queueing
<1> QED BY <1>a, <1>Control, <1>Life, <1>Service, <1>Queueing DEF Inv

\* The pool is exhausted, and iv_threadPending is taken back ...
LEMMA NewThreadRefused ==
    ASSUME Inv, TypeOK', NEW p \in Pushers, new_thread(p),
           newElement(freeList, total, LowThreads, MaxThreads) = None
    PROVE  Inv'
<1>u. UNCHANGED <<inUse, freeList, total, objFree, objTotal, live, seq, thread, eventQ,
               cleanup, qlock, disQ, nextSeq, pc, threadQ, txn, msg, waiting, ended,
               sent, overlap, aborted>>
  BY DEF new_thread, poolVars, objPool, objVars, workVars, clientVars
<1>0. PICK o \in Objects : Obj(p) = o /\ At(p) = "new_thread"
  BY TypeFacts DEF Inv, new_thread, At
<1>1. live[o] /\ cleanup[o] = 0 /\ Sound(Ev(p), o) /\ push[p].obj = o /\ push[p].ev = Ev(p)
  BY <1>0 DEF Inv, Queueing, PushInv, Obj, Ev
<1>2. push' = [push EXCEPT ![p].at = "push"] /\ pending' = [pending EXCEPT ![o] = FALSE]
  BY <1>1 DEF new_thread
<1>3. ~Assoc(p) /\ \A t \in Threads : ~Serves(t, o)
  BY <1>0 DEF Inv, Queueing, AskInv
<1>a. NotAborted'
  BY <1>u DEF Inv, NotAborted
<1> USE KeepThreadQ, KeepEventQ, KeepDisQ, KeepFreeList, KeepObjFree, KeepSound
<1>p. /\ At(p)' = "push" /\ Obj(p)' = o /\ Ev(p)' = Ev(p) /\ Assoc(p)' = Assoc(p)
      /\ \A q \in Pushers : q # p =>
             At(q)' = At(q) /\ Obj(q)' = Obj(q) /\ Ev(q)' = Ev(q) /\ Assoc(q)' = Assoc(q)
  BY <1>0, <1>1, <1>2, TypePush DEF Inv, At, Obj, Ev, Assoc, Idle, None
<1>e. /\ At(p) = "new_thread" /\ Obj(p) = o
      /\ ~pending'[o] /\ \A w \in Objects : w # o => pending'[w] = pending[w]
  BY <1>0, <1>2 DEF Inv, TypeOK

<1>Control. Control'
  <2>0. TellInv' /\ PcInv' /\ PoolInv'
    BY <1>u, KeepTellInv, KeepPcInv, KeepPoolInv DEF Inv, Control
  <2> QED BY <2>0 DEF Control
<1>Life. Life'
  <2>0. ObjectInv' /\ SeqInv' /\ EndInv'
    BY <1>u, KeepObjectInv, KeepSeqInv, KeepEndInv DEF Inv, Life
  <2>1. DeadInv'
    BY <1>u, <1>e DEF Inv, Life, DeadInv
  <2> QED BY <2>0, <2>1 DEF Life
<1>Service. Service'
  <2>0. OneInv' /\ OwnInv' /\ QueueInv' /\ HandleInv'
    BY <1>u, KeepOneInv, KeepOwnInv, KeepQueueInv, KeepHandleInv DEF Inv, Service
  <2>1. ToldInv'
    <3>1. \A q \in Pushers : At(q) = "push" => At(q)' = At(q) /\ Obj(q)' = Obj(q)
      BY <1>p, <1>e
    <3>2. \A q \in Pushers : At(q) = "new_thread" /\ Obj(q) # o => At(q)' = At(q) /\ Obj(q)' = Obj(q)
      BY <1>p, <1>e
    <3>3. \A w \in Objects : pending'[w] => pending[w] /\ w # o
      BY <1>e
    <3> QED BY <1>u, <3>1, <3>2, <3>3 DEF Inv, Service, ToldInv
  <2>2. KnownInv'
    BY <1>u, <1>p, <1>0, KeepServes DEF Inv, Service, KnownInv
  <2>3. ParkedInv'
    BY <1>u, <1>p, <1>0, KeepServes DEF Inv, Service, ParkedInv
  <2> QED BY <2>0, <2>1, <2>2, <2>3 DEF Service
<1>Queueing. Queueing'
  <2>1. PushInv'
    BY <1>u, <1>e, <1>p DEF Inv, Queueing, PushInv
  <2>2. LockInv'
    BY <1>u, <1>e, <1>p, TypeFacts DEF Inv, Queueing, LockInv, Holding
  <2>3. CarryInv'
    BY <1>u, <1>e, <1>p DEF Inv, Queueing, CarryInv, Carrying
  <2>4. AskInv'
    BY <1>u, <1>e, <1>p DEF Inv, Queueing, AskInv, Serves
  <2>5. AssocInv'
    BY <1>u, <1>p, <1>0, <1>3, KeepServes DEF Inv, Queueing, AssocInv
  <2> QED BY <2>1, <2>2, <2>3, <2>4, <2>5 DEF Queueing
<1> QED BY <1>a, <1>Control, <1>Life, <1>Service, <1>Queueing DEF Inv

\* ... or it gives a thread that nobody uses and that was told nothing.
LEMMA NewThreadGranted ==
    ASSUME Inv, TypeOK', NEW p \in Pushers, new_thread(p),
           newElement(freeList, total, LowThreads, MaxThreads) # None
    PROVE  Inv'
<1>0. PICK o \in Objects : Obj(p) = o /\ At(p) = "new_thread"
  BY TypeFacts DEF Inv, new_thread, At
<1>1. live[o] /\ cleanup[o] = 0 /\ Sound(Ev(p), o) /\ push[p].obj = o /\ push[p].ev = Ev(p)
  BY <1>0 DEF Inv, Queueing, PushInv, Obj, Ev
<1>2. PICK t : t = newElement(freeList, total, LowThreads, MaxThreads) /\ t # None
  OBVIOUS
<1>3. /\ t \in Threads /\ t \notin inUse /\ txn[t] = None /\ Quiet(t) /\ pc[t] \in {"none", "idle"}
      /\ t > total <=> ~FreeThread(t)
      /\ ~FreeThread(t) => t = total + 1 /\ total < MaxThreads
      /\ FreeThread(t) => freeList # << >> /\ t = Head(freeList)
  BY <1>2, InvCore, GrantedThread
<1>4. /\ freeList' \in Seq(Threads) /\ total' \in 0 .. MaxThreads /\ Distinct(freeList')
      /\ total' = Cardinality(inUse') + Len(freeList')
      /\ \A u \in Threads : FreeThread(u)' <=> (FreeThread(u) /\ u # t)
      /\ \A u \in Threads : u <= total' <=> (u <= total \/ u = t)
  BY <1>2, InvCore, GrantedLists
<1>g. txn' = txn
  BY <1>2, <1>3 DEF new_thread, Inv, TypeOK

<1>u. UNCHANGED <<objFree, objTotal, live, seq, thread, pending, eventQ, cleanup, qlock,
               disQ, nextSeq, txn, msg, waiting, ended, sent, overlap, aborted>>
  BY <1>g, <1>2 DEF new_thread, poolVars, objPool, objVars, workVars, clientVars
<1>5. threadQ' = [threadQ EXCEPT ![t] = <<o>>]
  <2>1. <<o>> \o threadQ[t] = <<o>>
    BY <1>3 DEF Quiet
  <2> QED BY <1>1, <1>2, <2>1 DEF new_thread
<1>6. pc' = [pc EXCEPT ![t] = "idle"] /\ inUse' = inUse \cup {t} /\ pc \in [Threads -> WorkerPc]
      /\ push' = [push EXCEPT ![p].at = "push", ![p].assoc = TRUE]
  BY <1>2 DEF new_thread, Inv, TypeOK
<1>a. NotAborted'
  BY <1>u DEF Inv, NotAborted
<1> USE KeepEventQ, KeepDisQ, KeepObjFree, KeepSound
<1>p. /\ At(p)' = "push" /\ Obj(p)' = o /\ Ev(p)' = Ev(p) /\ Assoc(p)' = TRUE
      /\ \A q \in Pushers : q # p =>
             At(q)' = At(q) /\ Obj(q)' = Obj(q) /\ Ev(q)' = Ev(q) /\ Assoc(q)' = Assoc(q)
  BY <1>0, <1>1, <1>6, TypePush DEF Inv, At, Obj, Ev, Assoc, Idle, None
<1>7. /\ \A u \in Threads : ~Serves(u, o)
      /\ \A q \in Pushers : q # p /\ At(q) \in Holding => Obj(q) # o
      /\ ~Parked(o)
  BY <1>0 DEF Inv, Queueing, Service, AskInv, LockInv, Holding, ParkedInv
<1>e. /\ Told(t, o)' /\ ~Quiet(t)' /\ \A w : Told(t, w)' => w = o
      /\ \A u \in Threads : u # t => (Quiet(u)' <=> Quiet(u)) /\ \A w : Told(u, w)' <=> Told(u, w)
      /\ pc' = [pc EXCEPT ![t] = "idle"] /\ pc \in [Threads -> WorkerPc] /\ inUse' = inUse \cup {t}
  <2>1. threadQ'[t] = <<o>> /\ \A u \in Threads : u # t => threadQ'[u] = threadQ[u]
    BY <1>3, <1>5 DEF Inv, TypeOK
  <2>2. <<o>> # << >> /\ \A w : <<o>> = <<w>> => w = o
    OBVIOUS
  <2>3. \A u \in Threads : u # t => (Quiet(u)' <=> Quiet(u)) /\ \A w : Told(u, w)' <=> Told(u, w)
    BY <2>1 DEF Quiet, Told
  <2>4. Told(t, o)' /\ ~Quiet(t)' /\ \A w : Told(t, w)' => w = o
    BY <2>1, <2>2 DEF Quiet, Told
  <2> QED BY <1>6, <2>3, <2>4
<1>8. \A u \in Threads, w \in Objects : Serves(u, w)' <=> Serves(u, w) \/ (u = t /\ w = o)
  <2>1. \A w \in Objects : ~Told(t, w) /\ w # None
    BY <1>3, Shape
  <2> QED BY <1>3, <1>u, <1>e, <2>1 DEF Serves

<1>Control. Control'
  <2>1. TellInv'
    BY <1>u, <1>e, <1>3 DEF Inv, Control, TellInv
  <2>2. PcInv'
    <3>1. \A u \in Threads : u # t => pc'[u] = pc[u] /\ (u \in inUse' <=> u \in inUse) /\ (u <= total' <=> u <= total)
      BY <1>4, <1>e
    <3>2. pc'[t] = "idle" /\ t \in inUse' /\ t <= total'
      BY <1>3, <1>4, <1>e
    <3> QED BY <1>u, <1>3, <3>1, <3>2 DEF Inv, Control, PcInv, Unserved
  <2>3. PoolInv'
    <3>2. \A u \in Threads : (u \in inUse' \/ FreeThread(u)') <=> u <= total'
      BY <1>4, <1>e DEF Inv, Control, PoolInv
    <3>3. \A u \in Threads : FreeThread(u)' => u \notin inUse' /\ pc'[u] = "idle" /\ Quiet(u)'
      BY <1>4, <1>e DEF Inv, Control, PoolInv
    <3> QED BY <1>4, <3>2, <3>3 DEF PoolInv
  <2> QED BY <2>1, <2>2, <2>3 DEF Control
<1>Life. Life'
  <2>0. ObjectInv' /\ SeqInv' /\ DeadInv'
    BY <1>u, KeepObjectInv, KeepSeqInv, KeepDeadInv DEF Inv, Life
  <2>1. EndInv'
    BY <1>u, <1>e, <1>3 DEF Inv, Life, EndInv
  <2> QED BY <2>0, <2>1 DEF Life
<1>Service. Service'
  <2>0. OwnInv' /\ QueueInv'
    BY <1>u, KeepOwnInv, KeepQueueInv DEF Inv, Service
  <2>1. OneInv'
    BY <1>7, <1>8 DEF Inv, Service, OneInv
  <2>2. ToldInv'
    <3>1. \A u \in Threads, w \in Objects : Told(u, w)' => Told(u, w) \/ w = o
      BY <1>e
    <3>2. \A u \in Threads, w \in Objects : Told(u, w) => Told(u, w)'
      BY <1>3, <1>e, Shape
    <3>3. \A q \in Pushers : q # p => At(q)' = At(q) /\ Obj(q)' = Obj(q)
      BY <1>p
    <3>4. Told(t, o)' /\ live[o] /\ Obj(p) = o /\ At(p) = "new_thread" /\ Obj(p)' = o /\ At(p)' = "push"
      BY <1>e, <1>0, <1>1, <1>p
    <3>5. \A u \in Threads, w \in Objects : Told(u, w)' =>
              live[w] /\ (Busy(w) \/ \E q \in Pushers : Obj(q)' = w /\ At(q)' = "push")
      <4>1. \A w \in Objects, q \in Pushers : Obj(q) = w /\ At(q) = "push" => Obj(q)' = w /\ At(q)' = "push"
        BY <3>3, <3>4
      <4> QED BY <3>1, <3>4, <4>1 DEF Inv, Service, ToldInv
    <3>6. \A w \in Objects : pending[w] =>
              \/ \E u \in Threads : Told(u, w)'
              \/ \E q \in Pushers : Obj(q)' = w /\ At(q)' = "new_thread"
      BY <1>3, <3>2, <3>3, <3>4 DEF Inv, Service, ToldInv
    <3> QED BY <1>u, <3>5, <3>6 DEF ToldInv
  <2>3. HandleInv'
    BY <1>u, <1>e, <1>3 DEF Inv, Service, HandleInv
  <2>4. KnownInv'
    BY <1>u, <1>0, <1>p, <1>8 DEF Inv, Service, KnownInv
  <2>5. ParkedInv'
    BY <1>u, <1>0, <1>p, <1>7, <1>8 DEF Inv, Service, ParkedInv
  <2> QED BY <2>0, <2>1, <2>2, <2>3, <2>4, <2>5 DEF Service
<1>Queueing. Queueing'
  <2>1. PushInv'
    BY <1>u, <1>e, <1>3, <1>0, <1>p, Shape DEF Inv, Queueing, PushInv
  <2>2. LockInv'
    BY <1>u, <1>e, <1>0, <1>p, TypeFacts DEF Inv, Queueing, LockInv, Holding
  <2>3. CarryInv'
    BY <1>u, <1>e, <1>3, <1>0, <1>p DEF Inv, Queueing, CarryInv, Carrying
  <2>4. AskInv'
    BY <1>u, <1>0, <1>p, <1>7, <1>8, TypeFacts DEF Inv, Queueing, AskInv, Holding
  <2>5. AssocInv'
    <3>1. \A q \in Pushers : q # p /\ At(q) \in {"push", "signal", "park"} => Obj(q) # o /\ Obj(q) \in Objects
      BY <1>7, TypeFacts DEF Inv, Holding
    <3>2. Serves(t, o)' /\ t \in Threads
      BY <1>3, <1>8
    <3>3. \A q \in Pushers : q # p /\ At(q)' \in {"push", "signal", "park"} =>
              /\ Assoc(q)' => \E u \in Threads : Serves(u, Obj(q))'
              /\ ~Assoc(q)' => \A u \in Threads : ~Serves(u, Obj(q))'
              /\ ~Assoc(q)' /\ At(q)' # "push" => Busy(Obj(q))'
      BY <1>u, <1>p, <1>8, <3>1 DEF Inv, Queueing, AssocInv
    <3>4. Assoc(p)' /\ Serves(t, Obj(p))'
      BY <1>p, <3>2 DEF Serves, Told
    <3> QED BY <3>2, <3>3, <3>4 DEF AssocInv
  <2> QED BY <2>1, <2>2, <2>3, <2>4, <2>5 DEF Queueing
<1> QED BY <1>a, <1>Control, <1>Life, <1>Service, <1>Queueing DEF Inv

\* The queue was empty; the request is now its only event.
LEMMA eventQ_pushStep ==
    ASSUME Inv, TypeOK', NEW p \in Pushers, eventQ_push(p)
    PROVE  Inv'
<1>u. UNCHANGED <<inUse, freeList, total, objFree, objTotal, live, seq, thread, pending,
               cleanup, qlock, disQ, nextSeq, pc, threadQ, txn, msg, waiting, ended,
               sent, overlap, aborted>>
  BY DEF eventQ_push, poolVars, objPool, objVars, workVars, clientVars
<1>0. PICK o \in Objects : Obj(p) = o /\ At(p) = "push"
  BY TypeFacts DEF Inv, eventQ_push, At
<1>1. live[o] /\ cleanup[o] = 0 /\ Sound(Ev(p), o) /\ push[p].obj = o /\ push[p].ev = Ev(p)
  BY <1>0 DEF Inv, Queueing, PushInv, Obj, Ev
<1>2. ~Busy(o) /\ seq[o] \in waiting
      /\ (\A t \in Threads : txn[t] = o => pc[t] # "handle")
      /\ \A q \in Pushers : q # p /\ At(q) \in Carrying => Obj(q) # o
  BY <1>0 DEF Inv, Queueing, CarryInv, Carrying
<1>3. eventQ' = [eventQ EXCEPT ![o] = <<Ev(p)>>] /\ Ev(p) \in Event
  <2>0. eventQ[o] = << >>
    BY <1>2 DEF Busy
  <2>1. Append(<< >>, Ev(p)) = <<Ev(p)>>
    OBVIOUS
  <2> QED BY <2>0, <2>1, <1>0, <1>1, TypeFacts DEF Inv, eventQ_push
<1>a. NotAborted'
  BY <1>u DEF Inv, NotAborted
<1> USE KeepThreadQ, KeepDisQ, KeepFreeList, KeepObjFree, KeepSound
<1>p. /\ At(p)' = "signal" /\ Obj(p)' = o /\ Ev(p)' = Ev(p) /\ Assoc(p)' = Assoc(p)
      /\ \A q \in Pushers : q # p =>
             At(q)' = At(q) /\ Obj(q)' = Obj(q) /\ Ev(q)' = Ev(q) /\ Assoc(q)' = Assoc(q)
  BY <1>0, <1>1, TypePush DEF Inv, At, Obj, Ev, Assoc, Idle, None, eventQ_push
<1>e. /\ Busy(o)' /\ Queued(o, Ev(p))'
      /\ \A w \in Objects : w # o => (Busy(w)' <=> Busy(w)) /\ \A v : Queued(w, v)' <=> Queued(w, v)
  <2>1. eventQ'[o] = <<Ev(p)>> /\ \A w \in Objects : w # o => eventQ'[w] = eventQ[w]
    BY <1>3 DEF Inv, TypeOK
  <2>2. Ev(p)' = Ev(p)
    BY <1>p
  <2> QED BY <2>1, <2>2 DEF Busy, Queued
<1>4. Ev(p)' = Ev(p)
  BY <1>p

<1>Control. Control'
  <2>0. TellInv' /\ PcInv' /\ PoolInv'
    BY <1>u, KeepTellInv, KeepPcInv, KeepPoolInv DEF Inv, Control
  <2> QED BY <2>0 DEF Control
<1>Life. Life'
  <2>0. ObjectInv' /\ SeqInv' /\ DeadInv' /\ EndInv'
    BY <1>u, KeepObjectInv, KeepSeqInv, KeepDeadInv, KeepEndInv DEF Inv, Life
  <2> QED BY <2>0 DEF Life
<1>Service. Service'
  <2>0. OneInv' /\ OwnInv'
    BY <1>u, KeepOneInv, KeepOwnInv DEF Inv, Service
  <2>1. ToldInv'
    <3>1. \A w \in Objects : Busy(w) => Busy(w)'
      BY <1>e
    <3>2. \A w \in Objects, q \in Pushers : Obj(q) = w /\ At(q) = "push" =>
              Busy(w)' \/ (Obj(q)' = w /\ At(q)' = "push")
      BY <1>0, <1>e, <1>p
    <3>3. \A q \in Pushers : At(q) = "new_thread" => At(q)' = At(q) /\ Obj(q)' = Obj(q)
      BY <1>0, <1>p
    <3> QED BY <1>u, <3>1, <3>2, <3>3 DEF Inv, Service, ToldInv
  <2>2. QueueInv'
    <3> SUFFICES ASSUME NEW u \in Objects, Busy(u)'
                 PROVE  /\ \E v \in Event : Queued(u, v)' /\ Sound(v, u)'
                        /\ live'[u] /\ seq'[u] \in waiting'
      BY DEF QueueInv
    <3>1. CASE u = o
      <4>1. PICK v \in Event : v = Ev(p)
        BY <1>3
      <4>2. Queued(o, v)' /\ Sound(v, o)
        BY <4>1, <1>e, <1>1, <1>4
      <4> QED BY <3>1, <4>2, <1>u, <1>1, <1>2
    <3>2. CASE u # o
      <4>1. PICK v \in Event : Queued(u, v) /\ Sound(v, u)
        BY <1>e, <3>2 DEF Inv, Service, QueueInv
      <4> QED BY <1>u, <1>e, <3>2, <4>1 DEF Inv, Service, QueueInv
    <3> QED BY <3>1, <3>2
  <2>3. HandleInv'
    <3>1. \A t \in Threads : pc[t] = "handle" => txn[t] # o /\ txn[t] \in Objects
      BY <1>2, Shape, TypeFacts DEF Inv, Control, PcInv, Unserved
    <3> QED BY <1>u, <1>e, <3>1 DEF Inv, Service, HandleInv
  <2>4. KnownInv'
    BY <1>u, <1>p, <1>e, <1>0, KeepServes DEF Inv, Service, KnownInv
  <2>5. ParkedInv'
    <3>a. Distinct(disQ)'
      BY <1>u, <1>e DEF Inv, Service, ParkedInv
    <3>b. ASSUME NEW u \in Objects, Parked(u)'
          PROVE  /\ live'[u] /\ Busy(u)'
                 /\ \A w \in Threads : ~Serves(w, u)'
                 /\ \A q \in Pushers : Obj(q)' # u
      <4>1. Parked(u) /\ u # o
        BY <3>b, <1>u, <1>0 DEF Inv, Service, ParkedInv
      <4> QED BY <1>u, <1>e, <1>p, <1>0, <4>1, KeepServes DEF Inv, Service, ParkedInv
    <3> QED BY <3>a, <3>b DEF ParkedInv
  <2> QED BY <2>0, <2>1, <2>2, <2>3, <2>4, <2>5 DEF Service
<1>Queueing. Queueing'
  <2>1. PushInv'
    BY <1>u, <1>e, <1>p, <1>0 DEF Inv, Queueing, PushInv
  <2>2. LockInv'
    BY <1>u, <1>e, <1>p, <1>0, TypeFacts DEF Inv, Queueing, LockInv, Holding
  <2>3. CarryInv'
    BY <1>u, <1>e, <1>p, <1>0, <1>2, TypeFacts DEF Inv, Queueing, CarryInv, Carrying
  <2>4. AskInv'
    BY <1>u, <1>e, <1>p DEF Inv, Queueing, AskInv, Serves
  <2>5. AssocInv'
    <3> SUFFICES ASSUME NEW q \in Pushers, At(q)' \in {"push", "signal", "park"}
                 PROVE  /\ Assoc(q)' => \E t \in Threads : Serves(t, Obj(q))'
                        /\ ~Assoc(q)' => \A t \in Threads : ~Serves(t, Obj(q))'
                        /\ ~Assoc(q)' /\ At(q)' # "push" => Busy(Obj(q))'
      BY DEF AssocInv
    <3>1. At(q) \in {"push", "signal", "park"} /\ (q # p => At(q)' = At(q)) /\ Assoc(q)' = Assoc(q)
      BY <1>p, <1>0
    <3>2. PICK w \in Objects : Obj(q) = w /\ Obj(q)' = w
      BY <3>1, <1>p, <1>0, TypeFacts DEF Inv
    <3>3. \A t : Serves(t, Obj(q))' <=> Serves(t, w)
      BY <1>u, <3>2, KeepServes DEF Serves, Told
    <3>4. Busy(Obj(q))' <=> (w = o \/ Busy(w))
      BY <3>2, <1>e DEF Busy
    <3> QED BY <3>1, <3>2, <3>3, <3>4, <1>0 DEF Inv, Queueing, AssocInv
  <2> QED BY <2>1, <2>2, <2>3, <2>4, <2>5 DEF Queueing
<1> QED BY <1>a, <1>Control, <1>Life, <1>Service, <1>Queueing DEF Inv

\* The object has its thread ...
LEMMA SignalWakes ==
    ASSUME Inv, TypeOK', NEW p \in Pushers, Signal(p), thread[push[p].obj] # None
    PROVE  Inv'
<1>u. UNCHANGED <<inUse, freeList, total, objFree, objTotal, live, seq, thread, pending,
               eventQ, cleanup, disQ, nextSeq, pc, threadQ, txn, msg, waiting, ended,
               sent, overlap, aborted>>
  BY DEF Signal, poolVars, objPool, objVars, workVars, clientVars
<1>0. PICK o \in Objects : Obj(p) = o /\ At(p) = "signal"
  BY TypeFacts DEF Inv, Signal, At
<1>1. live[o] /\ cleanup[o] = 0 /\ Sound(Ev(p), o) /\ push[p].obj = o /\ push[p].ev = Ev(p)
  BY <1>0 DEF Inv, Queueing, PushInv, Obj, Ev
<1>a. NotAborted'
  BY <1>u DEF Inv, NotAborted
<1> USE KeepThreadQ, KeepEventQ, KeepDisQ, KeepFreeList, KeepObjFree, KeepSound
<1>p. /\ At(p)' = "idle" /\ Obj(p)' = None /\ Ev(p)' = NoEvent
      /\ \A q \in Pushers : q # p =>
             At(q)' = At(q) /\ Obj(q)' = Obj(q) /\ Ev(q)' = Ev(q) /\ Assoc(q)' = Assoc(q)
  BY <1>0, <1>1, TypePush DEF Inv, At, Obj, Ev, Assoc, Idle, None, Signal
<1>q. qlock[o] = p /\ qlock'[o] = "nobody" /\ \A w \in Objects : w # o => qlock'[w] = qlock[w]
  BY <1>0, <1>1 DEF Inv, TypeOK, Queueing, LockInv, Holding, Signal
<1>h. \A q \in Pushers : q # p /\ At(q) \in Holding => Obj(q) # o
  BY <1>q DEF Inv, Queueing, LockInv
<1>2. \E t \in Threads : Serves(t, o)
  BY <1>0, <1>1, TypeFacts DEF Inv, Service, OwnInv, Serves, Obj
<1>e. At(p) = "signal" /\ Obj(p) = o /\ None # o
  BY <1>0, Shape

<1>Control. Control'
  <2>0. TellInv' /\ PcInv' /\ PoolInv'
    BY <1>u, KeepTellInv, KeepPcInv, KeepPoolInv DEF Inv, Control
  <2> QED BY <2>0 DEF Control
<1>Life. Life'
  <2>0. ObjectInv' /\ SeqInv' /\ DeadInv' /\ EndInv'
    BY <1>u, KeepObjectInv, KeepSeqInv, KeepDeadInv, KeepEndInv DEF Inv, Life
  <2> QED BY <2>0 DEF Life
<1>Service. Service'
  <2>0. OneInv' /\ OwnInv' /\ QueueInv' /\ HandleInv'
    BY <1>u, KeepOneInv, KeepOwnInv, KeepQueueInv, KeepHandleInv DEF Inv, Service
  <2>1. ToldInv'
    BY <1>u, <1>e, <1>p DEF Inv, Service, ToldInv, Serves
  <2>2. KnownInv'
    BY <1>u, <1>p, <1>0, <1>2, KeepServes DEF Inv, Service, KnownInv
  <2>3. ParkedInv'
    BY <1>u, <1>p, Shape, KeepServes DEF Inv, Service, ParkedInv
  <2> QED BY <2>0, <2>1, <2>2, <2>3 DEF Service
<1>Queueing. Queueing'
  <2>1. PushInv'
    BY <1>u, <1>e, <1>p DEF Inv, Queueing, PushInv
  <2>2. LockInv'
    <3>1. \A w \in Objects : qlock'[w] # "nobody" => w # o /\ qlock[w] # p /\ qlock[w] \in Pushers
      BY <1>q, <1>0, TypeFacts DEF Inv, Queueing, LockInv
    <3>2. \A q \in Pushers : At(q)' \in Holding => q # p /\ Obj(q) \in Objects /\ Obj(q) # o
      BY <1>p, <1>h, TypeFacts DEF Holding, Inv
    <3> QED BY <1>p, <1>q, <3>1, <3>2 DEF Inv, Queueing, LockInv
  <2>3. CarryInv'
    BY <1>u, <1>e, <1>p DEF Inv, Queueing, CarryInv, Carrying
  <2>4. AskInv'
    BY <1>u, <1>e, <1>p DEF Inv, Queueing, AskInv, Serves
  <2>5. AssocInv'
    BY <1>u, <1>e, <1>p DEF Inv, Queueing, AssocInv, Serves
  <2> QED BY <2>1, <2>2, <2>3, <2>4, <2>5 DEF Queueing
<1> QED BY <1>a, <1>Control, <1>Life, <1>Service, <1>Queueing DEF Inv

\* ... or has none as yet.
LEMMA SignalFails ==
    ASSUME Inv, TypeOK', NEW p \in Pushers, Signal(p), thread[push[p].obj] = None
    PROVE  Inv'
<1>u. UNCHANGED <<inUse, freeList, total, objFree, objTotal, live, seq, thread, pending,
               eventQ, cleanup, qlock, disQ, nextSeq, pc, threadQ, txn, msg, waiting,
               ended, sent, overlap, aborted>>
  BY DEF Signal, poolVars, objPool, objVars, workVars, clientVars
<1>0. PICK o \in Objects : Obj(p) = o /\ At(p) = "signal"
  BY TypeFacts DEF Inv, Signal, At
<1>1. live[o] /\ cleanup[o] = 0 /\ Sound(Ev(p), o) /\ push[p].obj = o /\ push[p].ev = Ev(p)
  BY <1>0 DEF Inv, Queueing, PushInv, Obj, Ev
<1>2. push' = [push EXCEPT ![p].at = "park"]
  BY DEF Signal
<1>a. NotAborted'
  BY <1>u DEF Inv, NotAborted
<1> USE KeepThreadQ, KeepEventQ, KeepDisQ, KeepFreeList, KeepObjFree, KeepSound
<1>p. /\ At(p)' = "park" /\ Obj(p)' = o /\ Ev(p)' = Ev(p) /\ Assoc(p)' = Assoc(p)
      /\ \A q \in Pushers : q # p =>
             At(q)' = At(q) /\ Obj(q)' = Obj(q) /\ Ev(q)' = Ev(q) /\ Assoc(q)' = Assoc(q)
  BY <1>0, <1>1, <1>2, TypePush DEF Inv, At, Obj, Ev, Assoc, Idle, None
<1>e. At(p) = "signal" /\ Obj(p) = o
  BY <1>0

<1>Control. Control'
  <2>0. TellInv' /\ PcInv' /\ PoolInv'
    BY <1>u, KeepTellInv, KeepPcInv, KeepPoolInv DEF Inv, Control
  <2> QED BY <2>0 DEF Control
<1>Life. Life'
  <2>0. ObjectInv' /\ SeqInv' /\ DeadInv' /\ EndInv'
    BY <1>u, KeepObjectInv, KeepSeqInv, KeepDeadInv, KeepEndInv DEF Inv, Life
  <2> QED BY <2>0 DEF Life
<1>Service. Service'
  <2>0. OneInv' /\ OwnInv' /\ QueueInv' /\ HandleInv'
    BY <1>u, KeepOneInv, KeepOwnInv, KeepQueueInv, KeepHandleInv DEF Inv, Service
  <2>1. ToldInv'
    BY <1>u, <1>e, <1>p DEF Inv, Service, ToldInv, Serves
  <2>2. KnownInv'
    BY <1>u, <1>p, <1>0, KeepServes DEF Inv, Service, KnownInv
  <2>3. ParkedInv'
    BY <1>u, <1>p, <1>0, KeepServes DEF Inv, Service, ParkedInv
  <2> QED BY <2>0, <2>1, <2>2, <2>3 DEF Service
<1>Queueing. Queueing'
  <2>1. PushInv'
    BY <1>u, <1>e, <1>p DEF Inv, Queueing, PushInv
  <2>2. LockInv'
    BY <1>u, <1>e, <1>p, TypeFacts DEF Inv, Queueing, LockInv, Holding
  <2>3. CarryInv'
    BY <1>u, <1>e, <1>p DEF Inv, Queueing, CarryInv, Carrying
  <2>4. AskInv'
    BY <1>u, <1>e, <1>p DEF Inv, Queueing, AskInv, Serves
  <2>5. AssocInv'
    BY <1>u, <1>e, <1>p DEF Inv, Queueing, AssocInv, Serves
  <2> QED BY <2>1, <2>2, <2>3, <2>4, <2>5 DEF Queueing
<1> QED BY <1>a, <1>Control, <1>Life, <1>Service, <1>Queueing DEF Inv

\* A thread was asked for, here or before ...
LEMMA ParkSkips ==
    ASSUME Inv, TypeOK', NEW p \in Pushers, Park(p), pending[push[p].obj] \/ push[p].assoc
    PROVE  Inv'
<1>u. UNCHANGED <<inUse, freeList, total, objFree, objTotal, live, seq, thread, pending,
               eventQ, cleanup, disQ, nextSeq, pc, threadQ, txn, msg, waiting, ended,
               sent, overlap, aborted>>
  BY DEF Park, poolVars, objPool, objVars, workVars, clientVars
<1>0. PICK o \in Objects : Obj(p) = o /\ At(p) = "park"
  BY TypeFacts DEF Inv, Park, At
<1>1. live[o] /\ cleanup[o] = 0 /\ Sound(Ev(p), o) /\ push[p].obj = o /\ push[p].ev = Ev(p)
  BY <1>0 DEF Inv, Queueing, PushInv, Obj, Ev
<1>2. push' = [push EXCEPT ![p] = Idle]
  BY DEF Park
<1>a. NotAborted'
  BY <1>u DEF Inv, NotAborted
<1> USE KeepThreadQ, KeepEventQ, KeepDisQ, KeepFreeList, KeepObjFree, KeepSound
<1>p. /\ At(p)' = "idle" /\ Obj(p)' = None /\ Ev(p)' = NoEvent
      /\ \A q \in Pushers : q # p =>
             At(q)' = At(q) /\ Obj(q)' = Obj(q) /\ Ev(q)' = Ev(q) /\ Assoc(q)' = Assoc(q)
  BY <1>0, <1>1, <1>2, TypePush DEF Inv, At, Obj, Ev, Assoc, Idle, None
<1>q. qlock[o] = p /\ qlock'[o] = "nobody" /\ \A w \in Objects : w # o => qlock'[w] = qlock[w]
  BY <1>0, <1>1 DEF Inv, TypeOK, Queueing, LockInv, Holding, Park
<1>h. \A q \in Pushers : q # p /\ At(q) \in Holding => Obj(q) # o
  BY <1>q DEF Inv, Queueing, LockInv
<1>3. \E t \in Threads : Serves(t, o)
  <2>1. CASE Assoc(p)
    BY <2>1, <1>0 DEF Inv, Queueing, AssocInv
  <2>2. CASE pending[o]
    <3>1. \A q \in Pushers : Obj(q) = o => At(q) # "new_thread"
      BY <1>0, <1>h DEF Holding
    <3> QED BY <2>2, <3>1 DEF Inv, Service, ToldInv, Serves
  <2> QED BY <2>1, <2>2, <1>0 DEF Obj, Assoc
<1>e. At(p) = "park" /\ Obj(p) = o /\ None # o
  BY <1>0, Shape

<1>Control. Control'
  <2>0. TellInv' /\ PcInv' /\ PoolInv'
    BY <1>u, KeepTellInv, KeepPcInv, KeepPoolInv DEF Inv, Control
  <2> QED BY <2>0 DEF Control
<1>Life. Life'
  <2>0. ObjectInv' /\ SeqInv' /\ DeadInv' /\ EndInv'
    BY <1>u, KeepObjectInv, KeepSeqInv, KeepDeadInv, KeepEndInv DEF Inv, Life
  <2> QED BY <2>0 DEF Life
<1>Service. Service'
  <2>0. OneInv' /\ OwnInv' /\ QueueInv' /\ HandleInv'
    BY <1>u, KeepOneInv, KeepOwnInv, KeepQueueInv, KeepHandleInv DEF Inv, Service
  <2>1. ToldInv'
    <3>1. \A q \in Pushers : At(q) \in {"push", "new_thread"} => At(q)' = At(q) /\ Obj(q)' = Obj(q)
      BY <1>p, <1>e
    <3> QED BY <1>u, <3>1 DEF Inv, Service, ToldInv
  <2>2. KnownInv'
    BY <1>u, <1>p, <1>0, <1>3, KeepServes DEF Inv, Service, KnownInv
  <2>3. ParkedInv'
    BY <1>u, <1>p, Shape, KeepServes DEF Inv, Service, ParkedInv
  <2> QED BY <2>0, <2>1, <2>2, <2>3 DEF Service
<1>Queueing. Queueing'
  <2>1. PushInv'
    BY <1>u, <1>e, <1>p DEF Inv, Queueing, PushInv
  <2>2. LockInv'
    <3>1. \A w \in Objects : qlock'[w] # "nobody" => w # o /\ qlock[w] # p /\ qlock[w] \in Pushers
      BY <1>q, <1>0, TypeFacts DEF Inv, Queueing, LockInv
    <3>2. \A q \in Pushers : At(q)' \in Holding => q # p /\ Obj(q) \in Objects /\ Obj(q) # o
      BY <1>p, <1>h, TypeFacts DEF Holding, Inv
    <3> QED BY <1>p, <1>q, <3>1, <3>2 DEF Inv, Queueing, LockInv
  <2>3. CarryInv'
    BY <1>u, <1>e, <1>p DEF Inv, Queueing, CarryInv, Carrying
  <2>4. AskInv'
    BY <1>u, <1>e, <1>p DEF Inv, Queueing, AskInv, Serves
  <2>5. AssocInv'
    BY <1>u, <1>e, <1>p DEF Inv, Queueing, AssocInv, Serves
  <2> QED BY <2>1, <2>2, <2>3, <2>4, <2>5 DEF Queueing
<1> QED BY <1>a, <1>Control, <1>Life, <1>Service, <1>Queueing DEF Inv

\* ... or the object is put on txdisassociatedQ, where it is not yet.
LEMMA ParkAppends ==
    ASSUME Inv, TypeOK', NEW p \in Pushers, Park(p), ~(pending[push[p].obj] \/ push[p].assoc)
    PROVE  Inv'
<1>u. UNCHANGED <<inUse, freeList, total, objFree, objTotal, live, seq, thread, pending,
               eventQ, cleanup, nextSeq, pc, threadQ, txn, msg, waiting, ended, sent, overlap,
               aborted>>
  BY DEF Park, poolVars, objPool, objVars, workVars, clientVars
<1>0. PICK o \in Objects : Obj(p) = o /\ At(p) = "park"
  BY TypeFacts DEF Inv, Park, At
<1>1. live[o] /\ cleanup[o] = 0 /\ Sound(Ev(p), o) /\ push[p].obj = o /\ push[p].ev = Ev(p)
  BY <1>0 DEF Inv, Queueing, PushInv, Obj, Ev
<1>2. push' = [push EXCEPT ![p] = Idle]
  BY DEF Park
<1>3. /\ Busy(o) /\ \A t \in Threads : ~Serves(t, o)
      /\ ~Parked(o)
  BY <1>0 DEF Inv, Queueing, Service, AssocInv, ParkedInv, Assoc
<1>4. /\ disQ' \in Seq(Objects) /\ Distinct(disQ')
      /\ \A y : Parked(y)' <=> (y = o \/ Parked(y))
  <2>1. disQ \in Seq(Objects) /\ Distinct(disQ)
    BY DEF Inv, TypeOK, Service, ParkedInv
  <2>2. disQ' = Append(disQ, o)
    BY <1>1 DEF Park
  <2>3. /\ disQ' \in Seq(Objects)
        /\ \A y : InSeq(disQ', y) <=> (y = o \/ InSeq(disQ, y))
        /\ Distinct(disQ) /\ ~InSeq(disQ, o) => Distinct(disQ')
    <3>1. /\ Append(disQ, o) \in Seq(Objects)
          /\ \A y : InSeq(Append(disQ, o), y) <=> (y = o \/ InSeq(disQ, y))
          /\ Distinct(disQ) /\ ~InSeq(disQ, o) => Distinct(Append(disQ, o))
      BY <2>1, AppendFacts
    <3> QED BY <2>2, <3>1, Zenon
  <2> QED BY <1>3, <2>1, <2>3 DEF Parked
<1>a. NotAborted'
  BY <1>u DEF Inv, NotAborted
<1> USE KeepThreadQ, KeepEventQ, KeepFreeList, KeepObjFree, KeepSound
<1>p. /\ At(p)' = "idle" /\ Obj(p)' = None /\ Ev(p)' = NoEvent
      /\ \A q \in Pushers : q # p =>
             At(q)' = At(q) /\ Obj(q)' = Obj(q) /\ Ev(q)' = Ev(q) /\ Assoc(q)' = Assoc(q)
  BY <1>0, <1>1, <1>2, TypePush DEF Inv, At, Obj, Ev, Assoc, Idle, None
<1>q. qlock[o] = p /\ qlock'[o] = "nobody" /\ \A w \in Objects : w # o => qlock'[w] = qlock[w]
  BY <1>0, <1>1 DEF Inv, TypeOK, Queueing, LockInv, Holding, Park
<1>h. \A q \in Pushers : q # p /\ At(q) \in Holding => Obj(q) # o
  BY <1>q DEF Inv, Queueing, LockInv
<1>5. \A q \in Pushers : q # p => Obj(q) # o
  <2>1. \A q \in Pushers : At(q) \in Carrying => Obj(q) # o
    BY <1>3 DEF Inv, Queueing, CarryInv
  <2>2. \A q \in Pushers : At(q) = "idle" => Obj(q) # o
    BY Shape, TypeFacts DEF Inv
  <2>3. \A q \in Pushers : At(q) = "idle" \/ At(q) \in Carrying \/ At(q) \in Holding
    BY TypeFacts DEF Inv, PusherPc, Carrying, Holding
  <2> QED BY <1>h, <2>1, <2>2, <2>3
<1>e. At(p) = "park" /\ Obj(p) = o /\ None # o
  BY <1>0, Shape

<1>Control. Control'
  <2>0. TellInv' /\ PcInv' /\ PoolInv'
    BY <1>u, KeepTellInv, KeepPcInv, KeepPoolInv DEF Inv, Control
  <2> QED BY <2>0 DEF Control
<1>Life. Life'
  <2>0. ObjectInv' /\ SeqInv' /\ DeadInv' /\ EndInv'
    BY <1>u, KeepObjectInv, KeepSeqInv, KeepDeadInv, KeepEndInv DEF Inv, Life
  <2> QED BY <2>0 DEF Life
<1>Service. Service'
  <2>0. OneInv' /\ OwnInv' /\ QueueInv' /\ HandleInv'
    BY <1>u, KeepOneInv, KeepOwnInv, KeepQueueInv, KeepHandleInv DEF Inv, Service
  <2>1. ToldInv'
    <3>1. \A q \in Pushers : At(q) \in {"push", "new_thread"} => At(q)' = At(q) /\ Obj(q)' = Obj(q)
      BY <1>p, <1>e
    <3> QED BY <1>u, <3>1 DEF Inv, Service, ToldInv
  <2>2. KnownInv'
    BY <1>u, <1>p, <1>0, <1>4, KeepServes DEF Inv, Service, KnownInv
  <2>3. ParkedInv'
    <3>1. \A q \in Pushers : Obj(q)' # o
      BY <1>5, <1>p, <1>e
    <3>2. \A w \in Objects : Parked(w)' /\ w # o => Parked(w) /\ \A q \in Pushers : Obj(q)' # w
      BY <1>4, <1>p, Shape DEF Inv, Service, ParkedInv
    <3> QED BY <1>u, <1>1, <1>3, <1>4, <3>1, <3>2, KeepServes DEF Inv, Service,
         ParkedInv
  <2> QED BY <2>0, <2>1, <2>2, <2>3 DEF Service
<1>Queueing. Queueing'
  <2>1. PushInv'
    BY <1>u, <1>e, <1>p DEF Inv, Queueing, PushInv
  <2>2. LockInv'
    <3>1. \A w \in Objects : qlock'[w] # "nobody" => w # o /\ qlock[w] # p /\ qlock[w] \in Pushers
      BY <1>q, <1>0, TypeFacts DEF Inv, Queueing, LockInv
    <3>2. \A q \in Pushers : At(q)' \in Holding => q # p /\ Obj(q) \in Objects /\ Obj(q) # o
      BY <1>p, <1>h, TypeFacts DEF Holding, Inv
    <3> QED BY <1>p, <1>q, <3>1, <3>2 DEF Inv, Queueing, LockInv
  <2>3. CarryInv'
    BY <1>u, <1>e, <1>p DEF Inv, Queueing, CarryInv, Carrying
  <2>4. AskInv'
    BY <1>u, <1>e, <1>p DEF Inv, Queueing, AskInv, Serves
  <2>5. AssocInv'
    BY <1>u, <1>e, <1>p DEF Inv, Queueing, AssocInv, Serves
  <2> QED BY <2>1, <2>2, <2>3, <2>4, <2>5 DEF Queueing
<1> QED BY <1>a, <1>Control, <1>Life, <1>Service, <1>Queueing DEF Inv

-----------------------------------------------------------------------------
(* Steps of a worker.                                                      *)

\* The thread that was told becomes the one of ip_txn.
LEMMA associateStep ==
    ASSUME Inv, TypeOK', NEW t \in Threads, associate(t)
    PROVE  Inv'
<1>u. UNCHANGED <<inUse, freeList, total, objFree, objTotal, live, seq, eventQ, cleanup,
               qlock, disQ, nextSeq, msg, push, waiting, ended, sent, overlap, aborted>>
  BY DEF associate, poolVars, objPool, objVars, workVars, clientVars
<1>0. PICK o \in Objects : Told(t, o)
  BY DEF Inv, Control, TellInv, associate, Quiet
<1>1. Head(threadQ[t]) = o /\ Tail(threadQ[t]) = << >>
  BY <1>0 DEF Told
<1>2. /\ pc[t] = "idle" /\ txn[t] = None /\ t \in inUse /\ live[o] /\ t <= total
      /\ pc \in [Threads -> WorkerPc] /\ ~Quiet(t) /\ Serves(t, o)
  BY <1>0, Shape DEF Inv, TypeOK, Control, Service, TellInv, PcInv, ToldInv, associate,
       Unserved, Serves
<1>3. /\ threadQ' = [threadQ EXCEPT ![t] = << >>] /\ txn' = [txn EXCEPT ![t] = o]
      /\ thread' = [thread EXCEPT ![o] = t] /\ pending' = [pending EXCEPT ![o] = FALSE]
      /\ pc' = [pc EXCEPT ![t] = "purge"]
  BY <1>1 DEF associate
<1>a. NotAborted'
  BY <1>u DEF Inv, NotAborted
<1> USE KeepEventQ, KeepPush, KeepDisQ, KeepFreeList, KeepObjFree, KeepSound
<1>4. threadQ'[t] = << >> /\ \A u \in Threads : u # t => threadQ'[u] = threadQ[u]
  BY <1>3 DEF Inv, TypeOK
<1>5. /\ Quiet(t)' /\ \A w : ~Told(t, w)'
      /\ \A u \in Threads : u # t => (Quiet(u)' <=> Quiet(u)) /\ \A w : Told(u, w)' <=> Told(u, w)
  BY <1>4 DEF Quiet, Told
<1>e. /\ pc' = [pc EXCEPT ![t] = "purge"] /\ pc \in [Threads -> WorkerPc]
      /\ txn'[t] = o /\ \A u \in Threads : u # t => txn'[u] = txn[u]
      /\ thread'[o] = t /\ \A u \in Objects : u # o => thread'[u] = thread[u]
      /\ ~pending'[o] /\ \A u \in Objects : u # o => pending'[u] = pending[u]
  BY <1>2, <1>3 DEF Inv, TypeOK
<1>6. \A u \in Threads, w \in Objects : Serves(u, w)' <=> Serves(u, w)
  BY <1>0, <1>2, <1>5, <1>e, Shape DEF Serves
<1>7. \A u \in Threads : u # t => ~Serves(u, o)
  BY <1>2 DEF Inv, Service, OneInv
<1>8. \A u \in Threads : txn'[u] # None => IF u = t THEN txn'[u] = o ELSE txn'[u] = txn[u] /\ txn[u] # o /\ txn[u] \in Objects
  BY <1>e, <1>7, TypeFacts DEF Serves, Inv

<1>Control. Control'
  <2>1. TellInv'
    BY <1>u, <1>e, <1>5, <1>2 DEF Inv, Control, TellInv
  <2>2. PcInv'
    BY <1>u, <1>e, <1>2, Shape DEF Inv, Control, PcInv, Unserved
  <2>3. PoolInv'
    <3>1. ~FreeThread(t)
      BY <1>2 DEF Inv, Control, PoolInv
    <3> QED BY <1>u, <1>e, <1>2, <1>5, <3>1 DEF Inv, Control, PoolInv
  <2> QED BY <2>1, <2>2, <2>3 DEF Control
<1>Life. Life'
  <2>0. ObjectInv' /\ SeqInv'
    BY <1>u, KeepObjectInv, KeepSeqInv DEF Inv, Life
  <2>1. DeadInv'
    BY <1>u, <1>e, <1>2 DEF Inv, Life, DeadInv
  <2>2. EndInv'
    BY <1>u, <1>e, <1>2, <1>8, TypeFacts, Shape DEF Inv, Life, EndInv
  <2> QED BY <2>0, <2>1, <2>2 DEF Life
<1>Service. Service'
  <2>0. QueueInv'
    BY <1>u, KeepQueueInv DEF Inv, Service
  <2>1. OneInv'
    BY <1>6 DEF Inv, Service, OneInv
  <2>2. OwnInv'
    <3>1. \A w \in Objects : live'[w] /\ thread'[w] # None =>
            IF w = o THEN thread'[w] = t ELSE thread'[w] = thread[w] /\ thread[w] \in Threads /\ thread[w] # t
      BY <1>u, <1>e, <1>2, TypeFacts, Shape DEF Inv, Service, OwnInv
    <3> QED BY <1>u, <1>e, <1>2, <1>8, <3>1 DEF Inv, Service, OwnInv
  <2>3. ToldInv'
    BY <1>u, <1>e, <1>0, <1>5, Shape DEF Inv, Service, ToldInv, Serves
  <2>4. HandleInv'
    BY <1>u, <1>e, <1>2, <1>8, TypeFacts, Shape DEF Inv, Control, Service, HandleInv,
         PcInv, Unserved
  <2>5. KnownInv'
    BY <1>u, <1>6 DEF Inv, Service, KnownInv
  <2>6. ParkedInv'
    BY <1>u, <1>6 DEF Inv, Service, ParkedInv
  <2> QED BY <2>0, <2>1, <2>2, <2>3, <2>4, <2>5, <2>6 DEF Service
<1>Queueing. Queueing'
  <2>0. LockInv'
    BY <1>u, KeepLockInv DEF Inv, Queueing
  <2>1. PushInv'
    BY <1>u, <1>e, <1>8, TypeFacts, Shape DEF Inv, Queueing, PushInv
  <2>2. CarryInv'
    BY <1>u, <1>e, <1>8, TypeFacts, Shape DEF Inv, Queueing, CarryInv, Carrying
  <2>3. AskInv'
    BY <1>u, <1>6, TypeFacts DEF Inv, Queueing, AskInv
  <2>4. AssocInv'
    <3>1. \A p \in Pushers : At(p) \in {"push", "signal", "park"} => Obj(p) \in Objects
      BY TypeFacts DEF Inv
    <3> QED BY <1>u, <1>6, <3>1 DEF Inv, Queueing, AssocInv
  <2> QED BY <2>0, <2>1, <2>2, <2>3, <2>4 DEF Queueing
<1> QED BY <1>a, <1>Control, <1>Life, <1>Service, <1>Queueing DEF Inv

\* The object is not on txdisassociatedQ, so the purge changes nothing.
LEMMA PurgeQueueStep ==
    ASSUME Inv, TypeOK', NEW t \in Threads, PurgeQueue(t)
    PROVE  Inv'
<1>u. UNCHANGED <<inUse, freeList, total, objFree, objTotal, live, seq, thread, pending,
               eventQ, cleanup, qlock, nextSeq, threadQ, txn, msg, push, waiting, ended,
               sent, overlap>>
  BY DEF PurgeQueue, poolVars, objPool, objVars, workVars, clientVars
<1>0. PICK o \in Objects : txn[t] = o
  BY Shape, TypeFacts DEF Inv, Control, PcInv, PurgeQueue, Unserved
<1>1. /\ pc[t] = "purge" /\ live[o] /\ thread[o] = t
      /\ t \in inUse /\ t <= total /\ Quiet(t) /\ pc \in [Threads -> WorkerPc]
  BY <1>0, Shape, TypeFacts DEF Inv, TypeOK, Control, Service, TellInv, PcInv, OwnInv,
       PurgeQueue, Unserved
<1>2. ~Parked(o)
  BY <1>0, <1>1 DEF Inv, Service, ParkedInv, Serves
<1>3. {i \in 1 .. Len(disQ) : disQ[i] = txn[t]} = {}
  BY <1>0, <1>2 DEF Parked, InSeq
<1>4. UNCHANGED <<disQ, aborted>>
  BY <1>3 DEF PurgeQueue
<1>a. NotAborted'
  BY <1>4 DEF Inv, NotAborted
<1> USE KeepThreadQ, KeepEventQ, KeepPush, KeepFreeList, KeepObjFree, KeepSound
<1>e. /\ pc[t] = "purge" /\ pc' = [pc EXCEPT ![t] = "pop"] /\ pc \in [Threads -> WorkerPc]
      /\ UNCHANGED disQ
  BY <1>0, <1>1, <1>4 DEF PurgeQueue
<1>Control. Control'
  <2>1. TellInv'
    BY <1>u, <1>e DEF Inv, Control, TellInv
  <2>2. PcInv'
    BY <1>u, <1>e DEF Inv, Control, PcInv, Unserved
  <2>3. PoolInv'
    BY <1>u, <1>e DEF Inv, Control, PoolInv
  <2> QED BY <2>1, <2>2, <2>3 DEF Control
<1>Life. Life'
  <2>0. ObjectInv' /\ SeqInv' /\ DeadInv'
    BY <1>u, KeepObjectInv, KeepSeqInv, KeepDeadInv DEF Inv, Life
  <2>1. EndInv'
    BY <1>u, <1>e DEF Inv, Life, EndInv
  <2> QED BY <2>0, <2>1 DEF Life
<1>Service. Service'
  <2>0. OneInv' /\ OwnInv' /\ ToldInv' /\ QueueInv'
    BY <1>u, KeepOneInv, KeepOwnInv, KeepToldInv, KeepQueueInv DEF Inv, Service
  <2>1. HandleInv'
    BY <1>u, <1>e DEF Inv, Service, HandleInv
  <2>2. KnownInv'
    BY <1>u, <1>e, KeepKnownInv DEF Inv, Service
  <2>3. ParkedInv'
    BY <1>u, <1>e, KeepParkedInv DEF Inv, Service
  <2> QED BY <2>0, <2>1, <2>2, <2>3 DEF Service
<1>Queueing. Queueing'
  <2>0. LockInv' /\ AskInv' /\ AssocInv'
    BY <1>u, KeepLockInv, KeepAskInv, KeepAssocInv DEF Inv, Queueing
  <2>1. PushInv'
    BY <1>u, <1>e DEF Inv, Queueing, PushInv
  <2>2. CarryInv'
    BY <1>u, <1>e DEF Inv, Queueing, CarryInv
  <2> QED BY <2>0, <2>1, <2>2 DEF Queueing
<1> QED BY <1>a, <1>Control, <1>Life, <1>Service, <1>Queueing DEF Inv

\* ip_Thread names the thread, so eventQ_pop does not call abort().
LEMMA eventQ_popStep ==
    ASSUME Inv, TypeOK', NEW t \in Threads, eventQ_pop(t)
    PROVE  Inv'
<1>u. UNCHANGED <<inUse, freeList, total, objFree, objTotal, live, seq, thread, pending,
               eventQ, cleanup, qlock, disQ, nextSeq, threadQ, txn, msg, push, waiting,
               ended, sent, overlap>>
  BY DEF eventQ_pop, poolVars, objPool, objVars, workVars, clientVars
<1>0. PICK o \in Objects : txn[t] = o
  BY Shape, TypeFacts DEF Inv, Control, PcInv, eventQ_pop, Unserved
<1>1. /\ pc[t] = "pop" /\ live[o] /\ thread[o] = t
      /\ t \in inUse /\ t <= total /\ Quiet(t) /\ pc \in [Threads -> WorkerPc]
  BY <1>0, Shape, TypeFacts DEF Inv, TypeOK, Control, Service, TellInv, PcInv, OwnInv,
       eventQ_pop, Unserved
<1>a. NotAborted'
  BY <1>0, <1>1 DEF eventQ_pop, NotAborted
<1> USE KeepThreadQ, KeepEventQ, KeepPush, KeepDisQ, KeepFreeList, KeepObjFree,
     KeepSound
<1>e. /\ pc[t] = "pop" /\ pc' = [pc EXCEPT ![t] = "wait"] /\ pc \in [Threads -> WorkerPc]
  BY <1>0, <1>1 DEF eventQ_pop
<1>Control. Control'
  <2>1. TellInv'
    BY <1>u, <1>e DEF Inv, Control, TellInv
  <2>2. PcInv'
    BY <1>u, <1>e DEF Inv, Control, PcInv, Unserved
  <2>3. PoolInv'
    BY <1>u, <1>e DEF Inv, Control, PoolInv
  <2> QED BY <2>1, <2>2, <2>3 DEF Control
<1>Life. Life'
  <2>0. ObjectInv' /\ SeqInv' /\ DeadInv'
    BY <1>u, KeepObjectInv, KeepSeqInv, KeepDeadInv DEF Inv, Life
  <2>1. EndInv'
    BY <1>u, <1>e DEF Inv, Life, EndInv
  <2> QED BY <2>0, <2>1 DEF Life
<1>Service. Service'
  <2>0. OneInv' /\ OwnInv' /\ ToldInv' /\ QueueInv' /\ KnownInv' /\ ParkedInv'
    BY <1>u, KeepOneInv, KeepOwnInv, KeepToldInv, KeepQueueInv, KeepKnownInv,
         KeepParkedInv DEF Inv, Service
  <2>1. HandleInv'
    BY <1>u, <1>e DEF Inv, Service, HandleInv
  <2> QED BY <2>0, <2>1 DEF Service
<1>Queueing. Queueing'
  <2>0. LockInv' /\ AskInv' /\ AssocInv'
    BY <1>u, KeepLockInv, KeepAskInv, KeepAssocInv DEF Inv, Queueing
  <2>1. PushInv'
    BY <1>u, <1>e DEF Inv, Queueing, PushInv
  <2>2. CarryInv'
    BY <1>u, <1>e DEF Inv, Queueing, CarryInv
  <2> QED BY <2>0, <2>1, <2>2 DEF Queueing
<1> QED BY <1>a, <1>Control, <1>Life, <1>Service, <1>Queueing DEF Inv

\* The event that is taken was the only one of the queue.
LEMMA TakeEventStep ==
    ASSUME Inv, TypeOK', NEW t \in Threads, TakeEvent(t)
    PROVE  Inv'
<1>u. UNCHANGED <<inUse, freeList, total, objFree, objTotal, live, seq, thread, pending,
               cleanup, qlock, disQ, nextSeq, threadQ, txn, push, waiting, ended, sent, overlap>>
  BY DEF TakeEvent, poolVars, objPool, objVars, workVars, clientVars
<1>0. PICK o \in Objects : txn[t] = o
  BY Shape, TypeFacts DEF Inv, Control, PcInv, TakeEvent, Unserved
<1>1. /\ pc[t] = "wait" /\ live[o] /\ thread[o] = t
      /\ t \in inUse /\ t <= total /\ Quiet(t) /\ pc \in [Threads -> WorkerPc]
  BY <1>0, Shape, TypeFacts DEF Inv, TypeOK, Control, Service, TellInv, PcInv, OwnInv,
       TakeEvent, Unserved
<1>2. Busy(o)
  BY <1>0 DEF TakeEvent, Busy
<1>3. PICK e \in Event : Queued(o, e) /\ Sound(e, o)
  BY <1>0, <1>1, <1>2 DEF Inv, Service, QueueInv
<1>4. Head(eventQ[o]) = e /\ Tail(eventQ[o]) = << >>
  BY <1>3 DEF Queued
<1>5. msg' = [msg EXCEPT ![t] = e] /\ eventQ' = [eventQ EXCEPT ![o] = << >>]
  BY <1>0, <1>4 DEF TakeEvent
<1>a. NotAborted'
  BY <1>0, <1>1 DEF TakeEvent, NotAborted
<1> USE KeepThreadQ, KeepPush, KeepDisQ, KeepFreeList, KeepObjFree, KeepSound
<1>e. /\ pc[t] = "wait" /\ pc' = [pc EXCEPT ![t] = "handle"]
      /\ pc \in [Threads -> WorkerPc] /\ txn[t] = o /\ o \in Objects
      /\ msg'[t] = e /\ Sound(e, o) /\ live[o] /\ seq[o] \in waiting
      /\ \A u \in Threads : u # t => msg'[u] = msg[u]
      /\ ~Busy(o)' /\ Quiet(t)
      /\ \A u \in Objects : u # o => (Busy(u)' <=> Busy(u)) /\ \A v : Queued(u, v)' <=> Queued(u, v)
  <2>1. ~Busy(o)' /\ \A u \in Objects : u # o => (Busy(u)' <=> Busy(u)) /\ \A v : Queued(u, v)' <=> Queued(u, v)
    <3>1. eventQ'[o] = << >> /\ \A u \in Objects : u # o => eventQ'[u] = eventQ[u]
      BY <1>0, <1>1, <1>5 DEF Inv, TypeOK
    <3> QED BY <3>1 DEF Busy, Queued
  <2>2. /\ msg'[t] = e /\ \A u \in Threads : u # t => msg'[u] = msg[u]
    BY <1>5 DEF Inv, TypeOK
  <2> QED BY <1>0, <1>1, <1>2, <1>3, <2>1, <2>2 DEF Inv, Service, QueueInv, TakeEvent
<1>6. \A p \in Pushers : At(p) \in Carrying => Obj(p) # o
  BY <1>2 DEF Inv, Queueing, CarryInv
<1>7. /\ \A u \in Threads : Serves(u, o) => u = t
      /\ Serves(t, o) /\ ~Parked(o)
  BY <1>0, <1>1 DEF Inv, Service, OneInv, ParkedInv, Serves
<1>Control. Control'
  <2>1. TellInv'
    BY <1>u, <1>e DEF Inv, Control, TellInv
  <2>2. PcInv'
    BY <1>u, <1>e DEF Inv, Control, PcInv, Unserved
  <2>3. PoolInv'
    BY <1>u, <1>e DEF Inv, Control, PoolInv
  <2> QED BY <2>1, <2>2, <2>3 DEF Control
<1>Life. Life'
  <2>0. ObjectInv' /\ SeqInv' /\ DeadInv'
    BY <1>u, KeepObjectInv, KeepSeqInv, KeepDeadInv DEF Inv, Life
  <2>1. EndInv'
    BY <1>u, <1>e DEF Inv, Life, EndInv
  <2> QED BY <2>0, <2>1 DEF Life
<1>Service. Service'
  <2>0. OneInv' /\ OwnInv'
    BY <1>u, KeepOneInv, KeepOwnInv DEF Inv, Service
  <2>1. ToldInv'
    <3>1. \A u \in Threads : ~Told(u, o)
      BY <1>e, <1>7, Shape DEF Serves
    <3>2. ToldInv
      BY DEF Inv, Service
    <3>3. /\ \A u \in Threads, w \in Objects : Told(u, w)' <=> Told(u, w)
          /\ \A p \in Pushers : Obj(p)' = Obj(p) /\ At(p)' = At(p)
          /\ live' = live /\ pending' = pending
      BY <1>u
    <3> QED BY <1>e, <3>1, <3>2, <3>3 DEF ToldInv
  <2>2. QueueInv'
    <3> SUFFICES ASSUME NEW u \in Objects, Busy(u)'
                 PROVE  /\ \E v \in Event : Queued(u, v)' /\ Sound(v, u)'
                        /\ live'[u] /\ seq'[u] \in waiting'
      BY DEF QueueInv
    <3>1. Busy(u) /\ u # o
      BY <1>e
    <3>2. PICK v \in Event : Queued(u, v) /\ Sound(v, u)
      BY <3>1 DEF Inv, Service, QueueInv
    <3> QED BY <1>u, <1>e, <3>1, <3>2 DEF Inv, Service, QueueInv
  <2>3. HandleInv'
    <3>1. \A u \in Threads : u # t /\ pc[u] = "handle" => txn[u] # o /\ txn[u] \in Objects
      BY <1>7, Shape, TypeFacts DEF Inv, Control, PcInv, Unserved, Serves
    <3> QED BY <1>u, <1>e, <3>1 DEF Inv, Service, HandleInv
  <2>4. KnownInv'
    BY <1>u, <1>e, <1>7 DEF Inv, Service, KnownInv, Serves
  <2>5. ParkedInv'
    <3>a. Distinct(disQ)'
      BY <1>u, <1>e DEF Inv, Service, ParkedInv
    <3>b. ASSUME NEW u \in Objects, Parked(u)'
          PROVE  /\ live'[u] /\ Busy(u)'
                 /\ \A w \in Threads : ~Serves(w, u)'
                 /\ \A q \in Pushers : Obj(q)' # u
      <4>1. Parked(u) /\ u # o
        BY <3>b, <1>u, <1>7
      <4>2. live[u] /\ Busy(u)' /\ \A q \in Pushers : Obj(q) # u
        BY <1>e, <4>1 DEF Inv, Service, ParkedInv
      <4>3. \A w \in Threads : ~Serves(w, u)'
        BY <1>u, <4>1, KeepServes DEF Inv, Service, ParkedInv
      <4> QED BY <1>u, <4>2, <4>3
    <3> QED BY <3>a, <3>b DEF ParkedInv
  <2> QED BY <2>0, <2>1, <2>2, <2>3, <2>4, <2>5 DEF Service
<1>Queueing. Queueing'
  <2>0. LockInv' /\ AskInv'
    BY <1>u, KeepLockInv, KeepAskInv DEF Inv, Queueing
  <2>1. PushInv'
    BY <1>u, <1>e, <1>6 DEF Inv, Queueing, PushInv
  <2>2. CarryInv'
    BY <1>u, <1>e, <1>6, TypeFacts DEF Inv, Queueing, CarryInv, Carrying
  <2>3. AssocInv'
    <3>1. \A p \in Pushers : At(p) \in {"push", "signal", "park"} => Obj(p) \in Objects
      BY TypeFacts DEF Inv
    <3>2. \A p \in Pushers : At(p) \in {"push", "signal", "park"} /\ ~Assoc(p) => Obj(p) # o
      BY <1>7 DEF Inv, Queueing, AssocInv
    <3> QED BY <1>u, <1>e, <3>1, <3>2, KeepServes DEF Inv, Queueing, AssocInv
  <2> QED BY <2>0, <2>1, <2>2, <2>3 DEF Queueing
<1> QED BY <1>a, <1>Control, <1>Life, <1>Service, <1>Queueing DEF Inv

\* The handler answers: no other event of the transaction is anywhere.
LEMMA HandleStep ==
    ASSUME Inv, TypeOK', NEW t \in Threads, Handle(t)
    PROVE  Inv'
<1> DEFINE o == txn[t]
<1>u. UNCHANGED <<inUse, freeList, total, objFree, objTotal, live, seq, thread, pending,
               eventQ, cleanup, qlock, disQ, nextSeq, threadQ, txn, msg, push, ended,
               sent, overlap, aborted>>
  BY DEF Handle, poolVars, objPool, objVars, workVars, clientVars
<1>a. NotAborted'
  BY <1>u DEF Inv, NotAborted
<1> USE KeepThreadQ, KeepEventQ, KeepPush, KeepDisQ, KeepFreeList, KeepObjFree,
     KeepSound
<1>e. /\ pc[t] = "handle" /\ o \in Objects /\ txn[t] = o
      /\ pc' = [pc EXCEPT ![t] = IF msg[t].kind = "forget" THEN "forget" ELSE "next"]
      /\ waiting' = waiting \ {seq[o]}
      /\ pc \in [Threads -> WorkerPc]
      /\ live[o] /\ ~Busy(o) /\ cleanup[o] = 0
      /\ msg[t].kind = "forget" => seq[o] \in ended
  <2>1. pc[t] = "handle" /\ o \in Objects /\ live[o] /\ ~Busy(o) /\ Sound(msg[t], o) /\ seq[o] \in waiting
    BY Shape, TypeFacts DEF Inv, Control, Service, PcInv, HandleInv, OwnInv, Handle,
         Unserved
  <2>2. cleanup[o] = 0
    BY <2>1 DEF Inv, Life, EndInv
  <2> QED BY <2>1, <2>2 DEF Inv, TypeOK, Handle, Sound
<1> HIDE DEF o
<1>Control. Control'
  <2>1. TellInv'
    BY <1>u, <1>e DEF Inv, Control, TellInv
  <2>2. PcInv'
    BY <1>u, <1>e DEF Inv, Control, PcInv, Unserved
  <2>3. PoolInv'
    BY <1>u, <1>e DEF Inv, Control, PoolInv
  <2> QED BY <2>1, <2>2, <2>3 DEF Control
<1>Life. Life'
  <2>0. ObjectInv' /\ DeadInv'
    BY <1>u, KeepObjectInv, KeepDeadInv DEF Inv, Life
  <2>1. SeqInv'
    BY <1>u, <1>e DEF Inv, Life, SeqInv
  <2>2. EndInv'
    BY <1>u, <1>e DEF Inv, Life, Service, EndInv, OneInv, Serves
  <2> QED BY <2>0, <2>1, <2>2 DEF Life
<1>Service. Service'
  <2>0. OneInv' /\ OwnInv' /\ ToldInv' /\ KnownInv' /\ ParkedInv'
    BY <1>u, KeepOneInv, KeepOwnInv, KeepToldInv, KeepKnownInv, KeepParkedInv DEF Inv,
         Service
  <2>1. QueueInv'
    BY <1>u, <1>e DEF Inv, Life, Service, QueueInv, SeqInv
  <2>2. HandleInv'
    BY <1>u, <1>e, Shape, TypeFacts DEF Inv, Control, Life, Service, HandleInv, OwnInv,
         SeqInv, OneInv, PcInv, Unserved, Serves
  <2> QED BY <2>0, <2>1, <2>2 DEF Service
<1>Queueing. Queueing'
  <2>0. LockInv' /\ AskInv' /\ AssocInv'
    BY <1>u, KeepLockInv, KeepAskInv, KeepAssocInv DEF Inv, Queueing
  <2>1. PushInv'
    BY <1>u, <1>e DEF Inv, Queueing, PushInv
  <2>2. CarryInv'
    <3>1. \A p \in Pushers : At(p) \in Carrying => Obj(p) # o /\ Obj(p) \in Objects /\ live[Obj(p)]
      BY <1>e, TypeFacts DEF Inv, Queueing, CarryInv, PushInv, Carrying
    <3> QED BY <1>u, <1>e, <3>1 DEF Inv, Life, Queueing, CarryInv, SeqInv
  <2> QED BY <2>0, <2>1, <2>2 DEF Queueing
<1> QED BY <1>a, <1>Control, <1>Life, <1>Service, <1>Queueing DEF Inv

\* iv_cleanup_sem goes from zero to one.
LEMMA req_forgetStep ==
    ASSUME Inv, TypeOK', NEW t \in Threads, req_forget(t)
    PROVE  Inv'
<1>u. UNCHANGED <<inUse, freeList, total, objFree, objTotal, live, seq, thread, pending,
               eventQ, qlock, disQ, nextSeq, threadQ, txn, push, waiting, ended, sent, overlap,
               aborted>>
  BY DEF req_forget, poolVars, objPool, objVars, workVars, clientVars
<1>0. PICK o \in Objects : txn[t] = o
  BY Shape, TypeFacts DEF Inv, Control, PcInv, req_forget, Unserved
<1>1. /\ pc[t] = "forget" /\ live[o] /\ thread[o] = t
      /\ t \in inUse /\ t <= total /\ Quiet(t) /\ pc \in [Threads -> WorkerPc]
  BY <1>0, Shape, TypeFacts DEF Inv, TypeOK, Control, Service, TellInv, PcInv, OwnInv,
       req_forget, Unserved
<1>a. NotAborted'
  BY <1>u DEF Inv, NotAborted
<1> USE KeepThreadQ, KeepEventQ, KeepPush, KeepDisQ, KeepFreeList, KeepObjFree,
     KeepSound
<1>2. seq[o] \in ended /\ seq[o] \notin waiting /\ cleanup[o] = 0
  BY <1>0, <1>1 DEF Inv, Life, EndInv
<1>3. \A p \in Pushers : At(p) # "idle" => Obj(p) # o
  <2>1. \A p \in Pushers : At(p) \in Holding => Obj(p) # o
    BY <1>0, Shape DEF Inv, Queueing, LockInv, req_forget
  <2>2. \A p \in Pushers : At(p) \in Carrying => Obj(p) # o
    BY <1>2 DEF Inv, Queueing, CarryInv
  <2> QED BY <2>1, <2>2, TypeFacts DEF Inv, Holding, Carrying, PusherPc
<1>4. \A u \in Threads : txn[u] = o => u = t
  BY <1>0, <1>1 DEF Inv, Service, OneInv, Serves
<1>e. /\ pc[t] = "forget" /\ pc' = [pc EXCEPT ![t] = "disassociate"]
      /\ pc \in [Threads -> WorkerPc] /\ txn[t] = o /\ o \in Objects /\ live[o]
      /\ seq[o] \in ended /\ seq[o] \notin waiting
      /\ cleanup'[o] = 1 /\ \A u \in Objects : u # o => cleanup'[u] = cleanup[u]
      /\ \A u \in Threads : u # t => msg'[u] = msg[u]
  BY <1>0, <1>1, <1>2 DEF req_forget, Inv, TypeOK
<1>Control. Control'
  <2>1. TellInv'
    BY <1>u, <1>e DEF Inv, Control, TellInv
  <2>2. PcInv'
    BY <1>u, <1>e DEF Inv, Control, PcInv, Unserved
  <2>3. PoolInv'
    BY <1>u, <1>e DEF Inv, Control, PoolInv
  <2> QED BY <2>1, <2>2, <2>3 DEF Control
<1>Life. Life'
  <2>0. ObjectInv' /\ SeqInv'
    BY <1>u, KeepObjectInv, KeepSeqInv DEF Inv, Life
  <2>1. DeadInv'
    BY <1>u, <1>e DEF Inv, Life, DeadInv
  <2>2. EndInv'
    BY <1>u, <1>e, <1>4, TypeFacts DEF Inv, Control, Life, EndInv, PcInv, Unserved
  <2> QED BY <2>0, <2>1, <2>2 DEF Life
<1>Service. Service'
  <2>0. OneInv' /\ OwnInv' /\ ToldInv' /\ QueueInv' /\ KnownInv' /\ ParkedInv'
    BY <1>u, KeepOneInv, KeepOwnInv, KeepToldInv, KeepQueueInv, KeepKnownInv,
         KeepParkedInv DEF Inv, Service
  <2>1. HandleInv'
    BY <1>u, <1>e DEF Inv, Service, HandleInv
  <2> QED BY <2>0, <2>1 DEF Service
<1>Queueing. Queueing'
  <2>0. LockInv' /\ AskInv' /\ AssocInv'
    BY <1>u, KeepLockInv, KeepAskInv, KeepAssocInv DEF Inv, Queueing
  <2>1. PushInv'
    BY <1>u, <1>e, <1>3, TypeFacts DEF Inv, Queueing, PushInv
  <2>2. CarryInv'
    BY <1>u, <1>e DEF Inv, Queueing, CarryInv
  <2> QED BY <2>0, <2>1, <2>2 DEF Queueing
<1> QED BY <1>a, <1>Control, <1>Life, <1>Service, <1>Queueing DEF Inv

\* There is no more event: the request that was answered was the only one.
LEMMA process_eventQStep ==
    ASSUME Inv, TypeOK', NEW t \in Threads, process_eventQ(t)
    PROVE  Inv'
<1>u. UNCHANGED <<inUse, freeList, total, objFree, objTotal, live, seq, thread, pending,
               eventQ, cleanup, qlock, disQ, nextSeq, threadQ, txn, push, waiting,
               ended, sent, overlap>>
  BY DEF process_eventQ, poolVars, objPool, objVars, workVars, clientVars
<1>0. PICK o \in Objects : txn[t] = o
  BY Shape, TypeFacts DEF Inv, Control, PcInv, process_eventQ, Unserved
<1>1. /\ pc[t] = "next" /\ live[o] /\ thread[o] = t
      /\ t \in inUse /\ t <= total /\ Quiet(t) /\ pc \in [Threads -> WorkerPc]
  BY <1>0, Shape, TypeFacts DEF Inv, TypeOK, Control, Service, TellInv, PcInv, OwnInv,
       process_eventQ, Unserved
<1>a. NotAborted'
  BY <1>0, <1>1, Shape DEF process_eventQ, NotAborted
<1> USE KeepThreadQ, KeepEventQ, KeepPush, KeepDisQ, KeepFreeList, KeepObjFree,
     KeepSound
<1>e. /\ pc[t] = "next" /\ pc' \in {[pc EXCEPT ![t] = "pop"], [pc EXCEPT ![t] = "disassociate"]}
      /\ pc \in [Threads -> WorkerPc]
      /\ \A u \in Threads : u # t => msg'[u] = msg[u]
  BY <1>0, <1>1 DEF process_eventQ, Inv, TypeOK
<1>Control. Control'
  <2>1. TellInv'
    BY <1>u, <1>e DEF Inv, Control, TellInv
  <2>2. PcInv'
    BY <1>u, <1>e DEF Inv, Control, PcInv, Unserved
  <2>3. PoolInv'
    BY <1>u, <1>e DEF Inv, Control, PoolInv
  <2> QED BY <2>1, <2>2, <2>3 DEF Control
<1>Life. Life'
  <2>0. ObjectInv' /\ SeqInv' /\ DeadInv'
    BY <1>u, KeepObjectInv, KeepSeqInv, KeepDeadInv DEF Inv, Life
  <2>1. EndInv'
    BY <1>u, <1>e DEF Inv, Life, EndInv
  <2> QED BY <2>0, <2>1 DEF Life
<1>Service. Service'
  <2>0. OneInv' /\ OwnInv' /\ ToldInv' /\ QueueInv' /\ KnownInv' /\ ParkedInv'
    BY <1>u, KeepOneInv, KeepOwnInv, KeepToldInv, KeepQueueInv, KeepKnownInv,
         KeepParkedInv DEF Inv, Service
  <2>1. HandleInv'
    BY <1>u, <1>e DEF Inv, Service, HandleInv
  <2> QED BY <2>0, <2>1 DEF Service
<1>Queueing. Queueing'
  <2>0. LockInv' /\ AskInv' /\ AssocInv'
    BY <1>u, KeepLockInv, KeepAskInv, KeepAssocInv DEF Inv, Queueing
  <2>1. PushInv'
    BY <1>u, <1>e DEF Inv, Queueing, PushInv
  <2>2. CarryInv'
    BY <1>u, <1>e DEF Inv, Queueing, CarryInv
  <2> QED BY <2>0, <2>1, <2>2 DEF Queueing
<1> QED BY <1>a, <1>Control, <1>Life, <1>Service, <1>Queueing DEF Inv

\* A request has come in the meantime.
LEMMA DisassociateBack ==
    ASSUME Inv, TypeOK', NEW t \in Threads, disassociate(t), eventQ[txn[t]] # << >>
    PROVE  Inv'
<1>u. UNCHANGED <<inUse, freeList, total, objFree, objTotal, live, seq, thread, pending,
               eventQ, cleanup, qlock, disQ, nextSeq, threadQ, txn, msg, push, waiting,
               ended, sent, overlap, aborted>>
  BY DEF disassociate, poolVars, objPool, objVars, workVars, clientVars
<1>0. PICK o \in Objects : txn[t] = o
  BY Shape, TypeFacts DEF Inv, Control, PcInv, disassociate, Unserved
<1>1. /\ pc[t] = "disassociate" /\ live[o] /\ thread[o] = t
      /\ t \in inUse /\ t <= total /\ Quiet(t) /\ pc \in [Threads -> WorkerPc]
  BY <1>0, Shape, TypeFacts DEF Inv, TypeOK, Control, Service, TellInv, PcInv, OwnInv,
       disassociate, Unserved
<1>a. NotAborted'
  BY <1>u DEF Inv, NotAborted
<1> USE KeepThreadQ, KeepEventQ, KeepPush, KeepDisQ, KeepFreeList, KeepObjFree,
     KeepSound
<1>e. /\ pc[t] = "disassociate" /\ pc' = [pc EXCEPT ![t] = "pop"] /\ pc \in [Threads -> WorkerPc]
  BY <1>1 DEF disassociate
<1>2. cleanup[o] = 0
  BY <1>0, <1>1 DEF Inv, Life, Service, EndInv, QueueInv, Busy

<1>Control. Control'
  <2>1. TellInv'
    BY <1>u, <1>e DEF Inv, Control, TellInv
  <2>2. PcInv'
    BY <1>u, <1>e DEF Inv, Control, PcInv, Unserved
  <2>3. PoolInv'
    BY <1>u, <1>e DEF Inv, Control, PoolInv
  <2> QED BY <2>1, <2>2, <2>3 DEF Control
<1>Life. Life'
  <2>0. ObjectInv' /\ SeqInv' /\ DeadInv'
    BY <1>u, KeepObjectInv, KeepSeqInv, KeepDeadInv DEF Inv, Life
  <2>1. EndInv'
    BY <1>u, <1>e, <1>0, <1>2 DEF Inv, Life, EndInv
  <2> QED BY <2>0, <2>1 DEF Life
<1>Service. Service'
  <2>0. OneInv' /\ OwnInv' /\ ToldInv' /\ QueueInv' /\ KnownInv' /\ ParkedInv'
    BY <1>u, KeepOneInv, KeepOwnInv, KeepToldInv, KeepQueueInv, KeepKnownInv,
         KeepParkedInv DEF Inv, Service
  <2>1. HandleInv'
    BY <1>u, <1>e DEF Inv, Service, HandleInv
  <2> QED BY <2>0, <2>1 DEF Service
<1>Queueing. Queueing'
  <2>0. LockInv' /\ AskInv' /\ AssocInv'
    BY <1>u, KeepLockInv, KeepAskInv, KeepAssocInv DEF Inv, Queueing
  <2>1. PushInv'
    BY <1>u, <1>e DEF Inv, Queueing, PushInv
  <2>2. CarryInv'
    BY <1>u, <1>e DEF Inv, Queueing, CarryInv
  <2> QED BY <2>0, <2>1, <2>2 DEF Queueing
<1> QED BY <1>a, <1>Control, <1>Life, <1>Service, <1>Queueing DEF Inv

\* The worker that is to clean up keeps its transaction.
LEMMA DisassociateLast ==
    ASSUME Inv, TypeOK', NEW t \in Threads, disassociate(t), eventQ[txn[t]] = << >>,
           cleanup[txn[t]] = 1
    PROVE  Inv'
<1>u. UNCHANGED <<inUse, freeList, total, objFree, objTotal, live, seq, thread, pending,
               eventQ, qlock, disQ, nextSeq, threadQ, txn, msg, push, waiting, ended,
               sent, overlap, aborted>>
  BY DEF disassociate, poolVars, objPool, objVars, workVars, clientVars
<1>0. PICK o \in Objects : txn[t] = o
  BY Shape, TypeFacts DEF Inv, Control, PcInv, disassociate, Unserved
<1>1. /\ pc[t] = "disassociate" /\ live[o] /\ thread[o] = t
      /\ t \in inUse /\ t <= total /\ Quiet(t) /\ pc \in [Threads -> WorkerPc]
  BY <1>0, Shape, TypeFacts DEF Inv, TypeOK, Control, Service, TellInv, PcInv, OwnInv,
       disassociate, Unserved
<1>c. cleanup' = [cleanup EXCEPT ![o] = 0]
  <2>1. cleanup' = [cleanup EXCEPT ![o] = IF cleanup[o] > 0 THEN cleanup[o] - 1 ELSE 0]
    BY <1>0 DEF disassociate
  <2>2. cleanup[o] = 1 /\ (IF 1 > 0 THEN 1 - 1 ELSE 0) = 0
    BY <1>0
  <2> QED BY <2>1, <2>2
<1>a. NotAborted'
  BY <1>u DEF Inv, NotAborted
<1> USE KeepThreadQ, KeepEventQ, KeepPush, KeepDisQ, KeepFreeList, KeepObjFree,
     KeepSound
<1>o. \A u \in Threads : (u # t => ~Serves(u, o)) /\ ~Told(u, o)
  BY <1>0, <1>1, Shape DEF Inv, Service, OneInv, Serves
<1>2. live[o] /\ seq[o] \in ended /\ seq[o] \notin waiting /\ cleanup[o] = 1
  BY <1>0, <1>1 DEF Inv, Life, EndInv
<1>3. \A p \in Pushers : At(p) # "idle" => Obj(p) # o
  BY <1>2 DEF Inv, Queueing, PushInv
<1>e. /\ pc[t] = "disassociate" /\ pc' = [pc EXCEPT ![t] = "cleanup"] /\ pc \in [Threads -> WorkerPc]
      /\ txn[t] = o /\ cleanup'[o] = 0 /\ \A u \in Objects : u # o => cleanup'[u] = cleanup[u]
  <2>1. cleanup \in [Objects -> Nat] /\ pc \in [Threads -> WorkerPc]
    BY DEF Inv, TypeOK
  <2> QED BY <1>0, <1>1, <2>1 DEF disassociate
<1>4. \A u \in Threads : txn[u] = o => u = t
  BY <1>o DEF Serves

<1>Control. Control'
  <2>1. TellInv'
    BY <1>u, <1>e DEF Inv, Control, TellInv
  <2>2. PcInv'
    BY <1>u, <1>e DEF Inv, Control, PcInv, Unserved
  <2>3. PoolInv'
    BY <1>u, <1>e DEF Inv, Control, PoolInv
  <2> QED BY <2>1, <2>2, <2>3 DEF Control
<1>Life. Life'
  <2>0. ObjectInv' /\ SeqInv'
    BY <1>u, KeepObjectInv, KeepSeqInv DEF Inv, Life
  <2>1. DeadInv'
    BY <1>u, <1>e, <1>2 DEF Inv, Life, DeadInv
  <2>2. EndInv'
    BY <1>u, <1>e, <1>2, <1>4, TypeFacts DEF Inv, Control, Life, EndInv, PcInv, Unserved
  <2> QED BY <2>0, <2>1, <2>2 DEF Life
<1>Service. Service'
  <2>0. OneInv' /\ OwnInv' /\ ToldInv' /\ QueueInv' /\ KnownInv' /\ ParkedInv'
    BY <1>u, KeepOneInv, KeepOwnInv, KeepToldInv, KeepQueueInv, KeepKnownInv,
         KeepParkedInv DEF Inv, Service
  <2>1. HandleInv'
    BY <1>u, <1>e DEF Inv, Service, HandleInv
  <2> QED BY <2>0, <2>1 DEF Service
<1>Queueing. Queueing'
  <2>0. LockInv' /\ AskInv' /\ AssocInv'
    BY <1>u, KeepLockInv, KeepAskInv, KeepAssocInv DEF Inv, Queueing
  <2>1. PushInv'
    BY <1>u, <1>e, <1>3, <1>0, TypeFacts DEF Inv, Queueing, PushInv
  <2>2. CarryInv'
    BY <1>u, <1>e DEF Inv, Queueing, CarryInv
  <2> QED BY <2>0, <2>1, <2>2 DEF Queueing
<1> QED BY <1>a, <1>Control, <1>Life, <1>Service, <1>Queueing DEF Inv

\* Nothing to do and no clean-up: the worker leaves the object.
LEMMA DisassociateLeave ==
    ASSUME Inv, TypeOK', NEW t \in Threads, disassociate(t), eventQ[txn[t]] = << >>,
           cleanup[txn[t]] # 1
    PROVE  Inv'
<1>u. UNCHANGED <<inUse, freeList, total, objFree, objTotal, live, seq, pending, eventQ,
               qlock, disQ, nextSeq, threadQ, msg, push, waiting, ended, sent, overlap, aborted>>
  BY DEF disassociate, poolVars, objPool, objVars, workVars, clientVars
<1>0. PICK o \in Objects : txn[t] = o
  BY Shape, TypeFacts DEF Inv, Control, PcInv, disassociate, Unserved
<1>1. /\ pc[t] = "disassociate" /\ live[o] /\ thread[o] = t
      /\ t \in inUse /\ t <= total /\ Quiet(t) /\ pc \in [Threads -> WorkerPc]
  BY <1>0, Shape, TypeFacts DEF Inv, TypeOK, Control, Service, TellInv, PcInv, OwnInv,
       disassociate, Unserved
<1>2. cleanup[o] = 0
  BY <1>0, <1>1 DEF Inv, Life, EndInv
<1>3. UNCHANGED cleanup
  <2>1. cleanup' = [cleanup EXCEPT ![o] = IF cleanup[o] > 0 THEN cleanup[o] - 1 ELSE 0]
    BY <1>0 DEF disassociate
  <2>2. cleanup' = [cleanup EXCEPT ![o] = cleanup[o]]
    BY <2>1, <1>2
  <2> QED BY <2>2 DEF Inv, TypeOK
<1>a. NotAborted'
  BY <1>u DEF Inv, NotAborted
<1> USE KeepThreadQ, KeepEventQ, KeepPush, KeepDisQ, KeepFreeList, KeepObjFree,
     KeepSound
<1>o. \A u \in Threads : (u # t => ~Serves(u, o)) /\ ~Told(u, o)
  BY <1>0, <1>1, Shape DEF Inv, Service, OneInv, Serves
<1>4. ~Busy(o) /\ \A p \in Pushers : At(p) \in Holding => Obj(p) # o
  BY <1>0, Shape DEF Inv, Queueing, LockInv, disassociate, Busy
<1>e. /\ pc[t] = "disassociate" /\ pc' = [pc EXCEPT ![t] = "release"] /\ pc \in [Threads -> WorkerPc]
      /\ txn[t] = o /\ UNCHANGED cleanup
      /\ txn'[t] = None /\ \A u \in Threads : u # t => txn'[u] = txn[u]
      /\ thread'[o] = None /\ \A u \in Objects : u # o => thread'[u] = thread[u]
  <2>1. /\ pc \in [Threads -> WorkerPc] /\ txn \in [Threads -> Objects \cup {None}]
        /\ thread \in [Objects -> Threads \cup {None}]
    BY DEF Inv, TypeOK
  <2> QED BY <1>0, <1>1, <1>3, <2>1 DEF disassociate
<1>5. \A u \in Threads, w \in Objects : Serves(u, w)' <=> Serves(u, w) /\ (u # t \/ w # o)
  <2>1. \A w \in Objects : ~Told(t, w) /\ w # None
    BY <1>1, Shape
  <2> QED BY <1>u, <1>e, <1>o, <2>1 DEF Serves

<1>Control. Control'
  <2>1. TellInv'
    BY <1>u, <1>e DEF Inv, Control, TellInv
  <2>2. PcInv'
    BY <1>u, <1>e, <1>1 DEF Inv, Control, PcInv, Unserved
  <2>3. PoolInv'
    BY <1>u, <1>e DEF Inv, Control, PoolInv
  <2> QED BY <2>1, <2>2, <2>3 DEF Control
<1>Life. Life'
  <2>0. ObjectInv' /\ SeqInv'
    BY <1>u, KeepObjectInv, KeepSeqInv DEF Inv, Life
  <2>1. DeadInv'
    BY <1>u, <1>e DEF Inv, Life, DeadInv
  <2>2. EndInv'
    BY <1>u, <1>e, TypeFacts, <1>o, Shape, <1>2 DEF Inv, Life, EndInv
  <2> QED BY <2>0, <2>1, <2>2 DEF Life
<1>Service. Service'
  <2>0. ToldInv' /\ QueueInv'
    BY <1>u, KeepToldInv, KeepQueueInv DEF Inv, Service
  <2>1. OneInv'
    BY <1>5 DEF Inv, Service, OneInv
  <2>2. OwnInv'
    <3>1. \A u \in Threads : txn'[u] # None => u # t /\ txn'[u] # o /\ txn'[u] \in Objects
      BY <1>e, <1>o, TypeFacts DEF Serves, Inv
    <3>2. \A w \in Objects : live[w] /\ thread'[w] # None => w # o /\ thread[w] # t
      BY <1>e, <1>0, Shape DEF Inv, Service, OwnInv
    <3>3. \A w \in Objects : thread'[w] # None => thread'[w] \in Threads
      BY TypeFacts DEF TypeOK
    <3> QED BY <1>u, <1>e, <3>1, <3>2, <3>3 DEF Inv, Service, OwnInv
  <2>3. HandleInv'
    BY <1>u, <1>e DEF Inv, Service, HandleInv
  <2>4. KnownInv'
    BY <1>u, <1>e, <1>4, <1>5 DEF Inv, Service, KnownInv
  <2>5. ParkedInv'
    BY <1>u, <1>e, <1>5 DEF Inv, Service, ParkedInv
  <2> QED BY <2>0, <2>1, <2>2, <2>3, <2>4, <2>5 DEF Service
<1>Queueing. Queueing'
  <2>0. LockInv'
    BY <1>u, KeepLockInv DEF Inv, Queueing
  <2>1. PushInv'
    BY <1>u, <1>e, TypeFacts, Shape DEF Inv, Queueing, PushInv
  <2>2. CarryInv'
    BY <1>u, <1>e, TypeFacts, Shape DEF Inv, Queueing, CarryInv
  <2>3. AskInv'
    BY <1>u, <1>e, <1>5, TypeFacts DEF Inv, Queueing, AskInv
  <2>4. AssocInv'
    <3>1. \A p \in Pushers : At(p) \in {"push", "signal", "park"} => Obj(p) # o /\ Obj(p) \in Objects
      BY <1>4, TypeFacts DEF Inv, Holding
    <3> QED BY <1>u, <1>e, <1>5, <3>1 DEF Inv, Queueing, AssocInv
  <2> QED BY <2>0, <2>1, <2>2, <2>3, <2>4 DEF Queueing
<1> QED BY <1>a, <1>Control, <1>Life, <1>Service, <1>Queueing DEF Inv

\* The object returns to the pool, with nobody left who refers to it.
LEMMA CleanupStep ==
    ASSUME Inv, TypeOK', NEW t \in Threads, Cleanup(t)
    PROVE  Inv'
<1>u. UNCHANGED <<inUse, freeList, total, seq, thread, pending, eventQ, cleanup, qlock,
               disQ, nextSeq, threadQ, msg, push, waiting, ended, sent, overlap>>
  BY DEF Cleanup, poolVars, objPool, objVars, workVars, clientVars
<1>0. PICK o \in Objects : txn[t] = o
  BY Shape, TypeFacts DEF Inv, Control, PcInv, Cleanup, Unserved
<1>1. /\ pc[t] = "cleanup" /\ live[o] /\ thread[o] = t
      /\ t \in inUse /\ t <= total /\ Quiet(t) /\ pc \in [Threads -> WorkerPc]
  BY <1>0, Shape, TypeFacts DEF Inv, TypeOK, Control, Service, TellInv, PcInv, OwnInv,
       Cleanup, Unserved
<1>2. /\ live' = [live EXCEPT ![o] = FALSE]
      /\ objFree' = objFree \/ objFree' = Cons(o, objFree)
      /\ ~Referred(o, t) => aborted' = aborted
  BY <1>0, <1>1 DEF Cleanup, Cons, Inv, NotAborted, TypeOK
<1>3. /\ \A y : FreeObject(y)' => (y = o \/ FreeObject(y))
      /\ Distinct(objFree) /\ ~FreeObject(o) => Distinct(objFree)'
  <2>1. objFree \in Seq(Objects)
    BY DEF Inv, TypeOK
  <2>2. CASE objFree' = Cons(o, objFree)
    <3>1. /\ \A y : InSeq(objFree', y) <=> (y = o \/ InSeq(objFree, y))
          /\ Distinct(objFree) /\ ~InSeq(objFree, o) => Distinct(objFree')
      BY <2>1, <2>2, ConsFacts
    <3> QED BY <3>1 DEF FreeObject
  <2>3. CASE objFree' = objFree
    BY <2>3 DEF FreeObject
  <2> QED BY <1>2, <2>2, <2>3
<1> USE KeepThreadQ, KeepEventQ, KeepPush, KeepDisQ, KeepFreeList, KeepSound
<1>o. \A u \in Threads : (u # t => ~Serves(u, o)) /\ ~Told(u, o)
  BY <1>0, <1>1, Shape DEF Inv, Service, OneInv, Serves
<1>4. seq[o] \in ended /\ seq[o] \notin waiting /\ cleanup[o] = 0 /\ ~FreeObject(o)
  BY <1>0, <1>1 DEF Inv, Life, EndInv, ObjectInv
<1>5. ~Busy(o) /\ \A p \in Pushers : Obj(p) # o
  <2>1. ~Busy(o)
    BY <1>4 DEF Inv, Service, QueueInv
  <2>2. \A p \in Pushers : Obj(p) # o
    BY <1>0, <1>1, TypeFacts, Shape DEF Inv, Queueing, PushInv
  <2> QED BY <2>1, <2>2
<1>6. ~pending[o] /\ ~Parked(o)
  BY <1>5, <1>o DEF Inv, Service, ToldInv, ParkedInv
<1>a. NotAborted'
  <2>1. Servers(o) \ {t} = {}
    BY <1>o, ServersServe
  <2>2. ~Referred(o, t)
    BY <1>5, <1>6, <2>1 DEF Referred, Parked, InSeq, Obj
  <2> QED BY <1>2, <2>2 DEF Inv, NotAborted
<1>e. /\ pc[t] = "cleanup" /\ pc' = [pc EXCEPT ![t] = "release"] /\ pc \in [Threads -> WorkerPc]
      /\ txn[t] = o
      /\ txn'[t] = None /\ \A u \in Threads : u # t => txn'[u] = txn[u]
      /\ ~live'[o] /\ \A u \in Objects : u # o => live'[u] = live[u]
  BY <1>0, <1>1, <1>2 DEF Cleanup, Inv, TypeOK
<1>7. \A u \in Threads, w \in Objects : Serves(u, w)' <=> Serves(u, w) /\ (u # t \/ w # o)
  <2>1. \A w \in Objects : ~Told(t, w) /\ w # None
    BY <1>1, Shape
  <2> QED BY <1>u, <1>e, <1>o, <2>1 DEF Serves
<1>8. \A u \in Threads : txn'[u] # None => u # t /\ txn'[u] = txn[u] /\ txn[u] # o /\ txn[u] \in Objects
  BY <1>e, <1>o, TypeFacts DEF Serves, Inv

<1>Control. Control'
  <2>1. TellInv'
    BY <1>u, <1>e DEF Inv, Control, TellInv
  <2>2. PcInv'
    BY <1>u, <1>e, <1>1 DEF Inv, Control, PcInv, Unserved
  <2>3. PoolInv'
    BY <1>u, <1>e DEF Inv, Control, PoolInv
  <2> QED BY <2>1, <2>2, <2>3 DEF Control
<1>Life. Life'
  <2>1. ObjectInv'
    BY <1>u, <1>e, <1>1, <1>3, <1>4 DEF Inv, Life, ObjectInv
  <2>2. SeqInv'
    BY <1>u, <1>e DEF Inv, Life, SeqInv
  <2>3. DeadInv'
    BY <1>u, <1>e, <1>6, <1>4 DEF Inv, Life, DeadInv
  <2>4. EndInv'
    BY <1>u, <1>e, <1>8, <1>4 DEF Inv, Life, EndInv
  <2> QED BY <2>1, <2>2, <2>3, <2>4 DEF Life
<1>Service. Service'
  <2>1. OneInv'
    BY <1>7 DEF Inv, Service, OneInv
  <2>2. OwnInv'
    <3>1. \A w \in Objects : live'[w] /\ thread'[w] # None => thread'[w] \in Threads /\ thread[w] # t /\ w # o
      BY <1>u, <1>e, <1>0, TypeFacts DEF Inv, Service, OwnInv
    <3> QED BY <1>u, <1>e, <1>8, <3>1 DEF Inv, Service, OwnInv
  <2>3. ToldInv'
    <3>1. \A u \in Threads, w \in Objects : Told(u, w) => live'[w]
      BY <1>e, <1>o DEF Inv, Service, ToldInv
    <3>2. ToldInv
      BY DEF Inv, Service
    <3> QED BY <1>u, <3>1, <3>2 DEF ToldInv
  <2>4. QueueInv'
    BY <1>u, <1>e, <1>5 DEF Inv, Service, QueueInv
  <2>5. HandleInv'
    BY <1>u, <1>e DEF Inv, Service, HandleInv
  <2>6. KnownInv'
    BY <1>u, <1>e, <1>5, <1>7 DEF Inv, Service, KnownInv
  <2>7. ParkedInv'
    <3>a. Distinct(disQ)'
      BY <1>u, <1>e DEF Inv, Service, ParkedInv
    <3>b. ASSUME NEW u \in Objects, Parked(u)'
          PROVE  /\ live'[u] /\ Busy(u)'
                 /\ \A w \in Threads : ~Serves(w, u)'
                 /\ \A q \in Pushers : Obj(q)' # u
      <4>1. Parked(u) /\ u # o
        BY <3>b, <1>u, <1>6
      <4> QED BY <1>u, <1>e, <1>7, <4>1 DEF Inv, Service, ParkedInv
    <3> QED BY <3>a, <3>b DEF ParkedInv
  <2> QED BY <2>1, <2>2, <2>3, <2>4, <2>5, <2>6, <2>7 DEF Service
<1>Queueing. Queueing'
  <2>0. LockInv'
    BY <1>u, KeepLockInv DEF Inv, Queueing
  <2>1. PushInv'
    BY <1>u, <1>e, <1>5, TypeFacts, Shape DEF Inv, Queueing, PushInv
  <2>2. CarryInv'
    BY <1>u, <1>e, <1>5, TypeFacts, Shape DEF Inv, Queueing, CarryInv
  <2>3. AskInv'
    BY <1>u, <1>5, <1>7, TypeFacts DEF Inv, Queueing, AskInv
  <2>4. AssocInv'
    <3>1. \A p \in Pushers : At(p) \in {"push", "signal", "park"} => Obj(p) # o /\ Obj(p) \in Objects
      BY <1>5, TypeFacts DEF Inv
    <3> QED BY <1>u, <1>7, <3>1 DEF Inv, Queueing, AssocInv
  <2> QED BY <2>0, <2>1, <2>2, <2>3, <2>4 DEF Queueing
<1> QED BY <1>a, <1>Control, <1>Life, <1>Service, <1>Queueing DEF Inv

\* A worker on its way to the pool takes an entry of txdisassociatedQ ...
LEMMA CheckFindsWork ==
    ASSUME Inv, TypeOK', NEW t \in Threads, check_for_queued_requests(t),
           {i \in 1 .. Len(disQ) : eventQ[disQ[i]] # << >>} # {}
    PROVE  Inv'
<1>u. UNCHANGED <<inUse, freeList, total, objFree, objTotal, live, seq, thread, pending,
               eventQ, cleanup, qlock, nextSeq, txn, msg, push, waiting, ended, sent, overlap,
               aborted>>
  BY DEF check_for_queued_requests, poolVars, objPool, objVars, workVars, clientVars
<1>1. /\ pc[t] = "release" /\ txn[t] = None /\ t \in inUse /\ t <= total /\ Quiet(t)
      /\ pc \in [Threads -> WorkerPc]
  BY Shape DEF Inv, TypeOK, Control, TellInv, PcInv, check_for_queued_requests, Unserved
<1>2. PICK i \in 1 .. Len(disQ) :
          /\ eventQ[disQ[i]] # << >>
          /\ disQ' = SubSeq(disQ, 1, i - 1) \o SubSeq(disQ, i + 1, Len(disQ))
          /\ threadQ' = [threadQ EXCEPT ![t] = <<disQ[i]>> \o threadQ[t]]
          /\ pc' = [pc EXCEPT ![t] = "idle"]
  BY DEF check_for_queued_requests
<1>3. PICK o \in Objects : disQ[i] = o
  <2>1. disQ \in Seq(Objects)
    BY DEF Inv, TypeOK
  <2> QED BY <2>1
<1>4. threadQ' = [threadQ EXCEPT ![t] = <<o>>]
  <2>1. <<o>> \o threadQ[t] = <<o>>
    BY <1>1 DEF Quiet
  <2> QED BY <1>2, <1>3, <2>1
<1>5. /\ disQ' \in Seq(Objects) /\ Distinct(disQ')
      /\ \A y : Parked(y)' <=> (Parked(y) /\ y # o)
      /\ Parked(o)
  <2>1. disQ \in Seq(Objects) /\ Distinct(disQ)
    BY DEF Inv, TypeOK, Service, ParkedInv
  <2>2. /\ disQ' \in Seq(Objects) /\ Distinct(disQ')
        /\ \A y : InSeq(disQ', y) <=> (InSeq(disQ, y) /\ y # o)
    <3>1. disQ' = Without(disQ, i)
      BY <1>2 DEF Without
    <3> QED BY <3>1, <1>3, <2>1, RemoveFacts
  <2>3. InSeq(disQ, o)
    BY <1>3 DEF InSeq
  <2> QED BY <2>2, <2>3 DEF Parked
<1>a. NotAborted'
  BY <1>u DEF Inv, NotAborted
<1> USE KeepEventQ, KeepPush, KeepFreeList, KeepObjFree, KeepSound
<1>6. /\ live[o] /\ Busy(o) /\ \A u \in Threads : ~Serves(u, o)
      /\ \A p \in Pushers : Obj(p) # o
  BY <1>5 DEF Inv, Service, ParkedInv
<1>e. /\ Told(t, o)' /\ ~Quiet(t)' /\ \A w : Told(t, w)' => w = o
      /\ \A u \in Threads : u # t => (Quiet(u)' <=> Quiet(u)) /\ \A w : Told(u, w)' <=> Told(u, w)
      /\ pc' = [pc EXCEPT ![t] = "idle"] /\ pc \in [Threads -> WorkerPc]
  <2>1. threadQ'[t] = <<o>> /\ \A u \in Threads : u # t => threadQ'[u] = threadQ[u]
    BY <1>4 DEF Inv, TypeOK
  <2>2. <<o>> # << >> /\ \A w : <<o>> = <<w>> => w = o
    OBVIOUS
  <2>3. \A u \in Threads : u # t => (Quiet(u)' <=> Quiet(u)) /\ \A w : Told(u, w)' <=> Told(u, w)
    BY <2>1 DEF Quiet, Told
  <2>4. Told(t, o)' /\ ~Quiet(t)' /\ \A w : Told(t, w)' => w = o
    BY <2>1, <2>2 DEF Quiet, Told
  <2> QED BY <1>1, <1>2, <2>3, <2>4
<1>7. \A u \in Threads, w \in Objects : Serves(u, w)' <=> Serves(u, w) \/ (u = t /\ w = o)
  <2>1. \A w \in Objects : ~Told(t, w) /\ w # None
    BY <1>1, Shape
  <2> QED BY <1>1, <1>u, <1>e, <2>1 DEF Serves

<1>Control. Control'
  <2>1. TellInv'
    BY <1>u, <1>e, <1>1 DEF Inv, Control, TellInv
  <2>2. PcInv'
    BY <1>u, <1>e, <1>1 DEF Inv, Control, PcInv, Unserved
  <2>3. PoolInv'
    <3>1. ~FreeThread(t)
      BY <1>1 DEF Inv, Control, PoolInv
    <3> QED BY <1>u, <1>e, <3>1 DEF Inv, Control, PoolInv
  <2> QED BY <2>1, <2>2, <2>3 DEF Control
<1>Life. Life'
  <2>0. ObjectInv' /\ SeqInv' /\ DeadInv'
    BY <1>u, KeepObjectInv, KeepSeqInv, KeepDeadInv DEF Inv, Life
  <2>1. EndInv'
    BY <1>u, <1>e, <1>1 DEF Inv, Life, EndInv
  <2> QED BY <2>0, <2>1 DEF Life
<1>Service. Service'
  <2>0. OwnInv' /\ QueueInv'
    BY <1>u, KeepOwnInv, KeepQueueInv DEF Inv, Service
  <2>1. OneInv'
    BY <1>6, <1>7 DEF Inv, Service, OneInv
  <2>2. ToldInv'
    <3>1. \A u \in Threads, w \in Objects : Told(u, w)' => Told(u, w) \/ w = o
      BY <1>e
    <3>2. \A u \in Threads, w \in Objects : Told(u, w) => Told(u, w)'
      BY <1>1, <1>e, Shape
    <3> QED BY <1>u, <1>6, <3>1, <3>2 DEF Inv, Service, ToldInv
  <2>3. HandleInv'
    BY <1>u, <1>e, <1>1 DEF Inv, Service, HandleInv
  <2>4. KnownInv'
    BY <1>u, <1>5, <1>7 DEF Inv, Service, KnownInv
  <2>5. ParkedInv'
    BY <1>u, <1>5, <1>7 DEF Inv, Service, ParkedInv
  <2> QED BY <2>0, <2>1, <2>2, <2>3, <2>4, <2>5 DEF Service
<1>Queueing. Queueing'
  <2>0. LockInv'
    BY <1>u, KeepLockInv DEF Inv, Queueing
  <2>1. PushInv'
    BY <1>u, <1>e, <1>1, <1>6 DEF Inv, Queueing, PushInv
  <2>2. CarryInv'
    BY <1>u, <1>e, <1>1, <1>6 DEF Inv, Queueing, CarryInv
  <2>3. AskInv'
    BY <1>u, <1>6, <1>7, TypeFacts DEF Inv, Queueing, AskInv
  <2>4. AssocInv'
    <3>1. \A p \in Pushers : At(p) \in {"push", "signal", "park"} => Obj(p) # o /\ Obj(p) \in Objects
      BY <1>6, TypeFacts DEF Inv
    <3> QED BY <1>u, <1>7, <3>1 DEF Inv, Queueing, AssocInv
  <2> QED BY <2>0, <2>1, <2>2, <2>3, <2>4 DEF Queueing
<1> QED BY <1>a, <1>Control, <1>Life, <1>Service, <1>Queueing DEF Inv

\* ... or finds none that has work.
LEMMA CheckFindsNothing ==
    ASSUME Inv, TypeOK', NEW t \in Threads, check_for_queued_requests(t),
           {i \in 1 .. Len(disQ) : eventQ[disQ[i]] # << >>} = {}
    PROVE  Inv'
<1>u. UNCHANGED <<inUse, freeList, total, objFree, objTotal, live, seq, thread, pending,
               eventQ, cleanup, qlock, disQ, nextSeq, threadQ, txn, msg, push, waiting,
               ended, sent, overlap, aborted>>
  BY DEF check_for_queued_requests, poolVars, objPool, objVars, workVars, clientVars
<1>1. pc[t] = "release" /\ pc \in [Threads -> WorkerPc] /\ Quiet(t) /\ txn[t] = None
  BY DEF Inv, TypeOK, Control, TellInv, PcInv, check_for_queued_requests, Unserved
<1>e. pc' = [pc EXCEPT ![t] = "free"]
  BY DEF check_for_queued_requests
<1>a. NotAborted'
  BY <1>u DEF Inv, NotAborted
<1> USE KeepThreadQ, KeepEventQ, KeepPush, KeepDisQ, KeepFreeList, KeepObjFree,
     KeepSound
<1>Control. Control'
  <2>1. TellInv'
    BY <1>u, <1>e, <1>1 DEF Inv, Control, TellInv
  <2>2. PcInv'
    BY <1>u, <1>e, <1>1 DEF Inv, Control, PcInv, Unserved
  <2>3. PoolInv'
    BY <1>u, <1>e, <1>1 DEF Inv, Control, PoolInv
  <2> QED BY <2>1, <2>2, <2>3 DEF Control
<1>Life. Life'
  <2>0. ObjectInv' /\ SeqInv' /\ DeadInv'
    BY <1>u, KeepObjectInv, KeepSeqInv, KeepDeadInv DEF Inv, Life
  <2>1. EndInv'
    BY <1>u, <1>e, <1>1 DEF Inv, Life, EndInv
  <2> QED BY <2>0, <2>1 DEF Life
<1>Service. Service'
  <2>0. OneInv' /\ OwnInv' /\ ToldInv' /\ QueueInv' /\ KnownInv' /\ ParkedInv'
    BY <1>u, KeepOneInv, KeepOwnInv, KeepToldInv, KeepQueueInv, KeepKnownInv,
         KeepParkedInv DEF Inv, Service
  <2>1. HandleInv'
    BY <1>u, <1>e, <1>1 DEF Inv, Service, HandleInv
  <2> QED BY <2>0, <2>1 DEF Service
<1>Queueing. Queueing'
  <2>0. LockInv' /\ AskInv' /\ AssocInv'
    BY <1>u, KeepLockInv, KeepAskInv, KeepAssocInv DEF Inv, Queueing
  <2>1. PushInv'
    BY <1>u, <1>e, <1>1 DEF Inv, Queueing, PushInv
  <2>2. CarryInv'
    BY <1>u, <1>e, <1>1 DEF Inv, Queueing, CarryInv
  <2> QED BY <2>0, <2>1, <2>2 DEF Queueing
<1> QED BY <1>a, <1>Control, <1>Life, <1>Service, <1>Queueing DEF Inv

\* The thread returns to the pool.
LEMMA deleteElementStep ==
    ASSUME Inv, TypeOK', NEW t \in Threads, deleteElement(t)
    PROVE  Inv'
<1>u. UNCHANGED <<total, objFree, objTotal, live, seq, thread, pending, eventQ, cleanup,
               qlock, disQ, nextSeq, threadQ, txn, msg, push, waiting, ended, sent, overlap,
               aborted>>
  BY DEF deleteElement, poolVars, objPool, objVars, workVars, clientVars
<1>1. /\ pc[t] = "free" /\ txn[t] = None /\ t \in inUse /\ t <= total /\ Quiet(t)
      /\ pc \in [Threads -> WorkerPc] /\ pc' = [pc EXCEPT ![t] = "idle"]
      /\ inUse' = inUse \ {t}
  BY Shape DEF Inv, TypeOK, Control, TellInv, PcInv, deleteElement, Unserved
<1>2. /\ freeList' \in Seq(Threads) /\ Distinct(freeList')
      /\ \A y : FreeThread(y)' <=> (y = t \/ FreeThread(y))
      /\ total' = Cardinality(inUse') + Len(freeList')
  BY InvCore, ReturnedThread
<1>a. NotAborted'
  BY <1>u DEF Inv, NotAborted
<1> USE KeepThreadQ, KeepEventQ, KeepPush, KeepDisQ, KeepObjFree, KeepSound

<1>Control. Control'
  <2>1. TellInv'
    BY <1>u, <1>1 DEF Inv, Control, TellInv
  <2>2. PcInv'
    BY <1>u, <1>1 DEF Inv, Control, PcInv, Unserved
  <2>3. PoolInv'
    <3>2. \A u \in Threads : (u \in inUse' \/ FreeThread(u)') <=> u <= total'
      BY <1>u, <1>1, <1>2 DEF Inv, Control, PoolInv
    <3>3. \A u \in Threads : FreeThread(u)' => u \notin inUse' /\ pc'[u] = "idle" /\ Quiet(u)'
      BY <1>u, <1>1, <1>2 DEF Inv, Control, PoolInv
    <3> QED BY <1>2, <3>2, <3>3 DEF PoolInv
  <2> QED BY <2>1, <2>2, <2>3 DEF Control
<1>Life. Life'
  <2>0. ObjectInv' /\ SeqInv' /\ DeadInv'
    BY <1>u, KeepObjectInv, KeepSeqInv, KeepDeadInv DEF Inv, Life
  <2>1. EndInv'
    BY <1>u, <1>1 DEF Inv, Life, EndInv
  <2> QED BY <2>0, <2>1 DEF Life
<1>Service. Service'
  <2>0. OneInv' /\ OwnInv' /\ ToldInv' /\ QueueInv' /\ KnownInv' /\ ParkedInv'
    BY <1>u, KeepOneInv, KeepOwnInv, KeepToldInv, KeepQueueInv, KeepKnownInv,
         KeepParkedInv DEF Inv, Service
  <2>1. HandleInv'
    BY <1>u, <1>1 DEF Inv, Service, HandleInv
  <2> QED BY <2>0, <2>1 DEF Service
<1>Queueing. Queueing'
  <2>0. LockInv' /\ AskInv' /\ AssocInv'
    BY <1>u, KeepLockInv, KeepAskInv, KeepAssocInv DEF Inv, Queueing
  <2>1. PushInv'
    BY <1>u, <1>1 DEF Inv, Queueing, PushInv
  <2>2. CarryInv'
    BY <1>u, <1>1 DEF Inv, Queueing, CarryInv
  <2> QED BY <2>0, <2>1, <2>2 DEF Queueing
<1> QED BY <1>a, <1>Control, <1>Life, <1>Service, <1>Queueing DEF Inv

-----------------------------------------------------------------------------
(* The invariant holds.                                                    *)

\* Nothing has been constructed, begun or queued at the start.
LEMMA InitInv == Init => Inv
<1> SUFFICES ASSUME Init PROVE Inv
  OBVIOUS
<1>1. /\ \A t \in Threads : Quiet(t) /\ ~FreeThread(t) /\ \A o : ~Told(t, o)
      /\ \A o \in Objects : ~Busy(o) /\ ~Parked(o) /\ ~FreeObject(o)
      /\ \A p \in Pushers : At(p) = "idle" /\ Obj(p) = None
      /\ Distinct(freeList) /\ Distinct(objFree) /\ Distinct(disQ)
  <2>1. \A x : ~InSeq(<< >>, x)
    BY DEF InSeq
  <2>2. Distinct(<< >>)
    BY DEF Distinct
  <2>3. \A t \in Threads : Quiet(t)
    BY DEF Init, Quiet
  <2>4. \A t \in Threads : \A o : ~Told(t, o)
    BY <2>3, Shape
  <2>5. \A o \in Objects : ~Busy(o)
    BY DEF Init, Busy
  <2>6. \A p \in Pushers : At(p) = "idle" /\ Obj(p) = None
    BY DEF Init, At, Obj, Idle
  <2> QED BY <2>1, <2>2, <2>3, <2>4, <2>5, <2>6 DEF Init, FreeThread, FreeObject, Parked
<1>2. None \notin Objects /\ \A t \in Threads : t \in Nat /\ ~(t <= 0)
  BY PoolAssumption DEF None, Objects, Threads
<1>3. \A t \in Threads, o \in Objects : ~Serves(t, o)
  BY <1>1, <1>2 DEF Init, Serves
<1>4. TypeOK
  <2>1. /\ << >> \in Seq(Threads) /\ << >> \in Seq(Objects) /\ << >> \in Seq(Event)
        /\ 0 \in 0 .. MaxThreads /\ 0 \in 0 .. MaxObjects /\ 0 \in 0 .. MaxTxns
        /\ 1 \in 1 .. MaxTxns + 1 /\ 0 \in 0 .. MaxRequests
    BY PoolAssumption, EnvironmentAssumption
  <2> QED BY <2>1 DEF Init, TypeOK, WorkerPc
<1>5. Control
  <2>1. total = Cardinality(inUse) + Len(freeList)
    BY FS_EmptySet DEF Init
  <2>2. TellInv
    BY <1>1 DEF TellInv
  <2>3. PcInv
    BY <1>2 DEF Init, PcInv, Unserved
  <2>4. PoolInv
    BY <1>1, <1>2, <2>1 DEF Init, PoolInv
  <2> QED BY <2>2, <2>3, <2>4 DEF Control
<1>6. Life
  BY <1>1 DEF Init, Life, ObjectInv, SeqInv, DeadInv, EndInv
<1>7. Service
  BY <1>1, <1>2, <1>3 DEF Init, Service, OneInv, OwnInv, ToldInv, QueueInv, HandleInv,
       KnownInv, ParkedInv
<1>8. Queueing
  BY <1>1 DEF Init, Queueing, PushInv, LockInv, CarryInv, AskInv, AssocInv, Carrying,
       Holding
<1> QED BY <1>4, <1>5, <1>6, <1>7, <1>8 DEF Inv, NotAborted, Init

\* A stuttering step changes nothing.
LEMMA StutterInv ==
    ASSUME Inv, UNCHANGED vars
    PROVE  Inv'
<1>1. UNCHANGED <<inUse, freeList, total, objFree, objTotal, live, seq, thread, pending,
               eventQ, cleanup, qlock, disQ, nextSeq, pc, threadQ, txn, msg, push,
               waiting, ended, sent, overlap, aborted>>
  BY DEF vars, poolVars, objPool, objVars, workVars, clientVars
<1>2. TypeOK' /\ NotAborted'
  BY <1>1 DEF Inv, TypeOK, NotAborted
<1>3. Control'
  BY <1>1, KeepTellInv, KeepPcInv, KeepPoolInv DEF Inv, Control
<1>4. Life'
  BY <1>1, KeepObjectInv, KeepSeqInv, KeepDeadInv, KeepEndInv DEF Inv, Life
<1>5. Service'
  BY <1>1, KeepOneInv, KeepOwnInv, KeepToldInv, KeepQueueInv, KeepHandleInv,
       KeepKnownInv, KeepParkedInv DEF Inv, Service
<1>6. Queueing'
  BY <1>1, KeepPushInv, KeepLockInv, KeepCarryInv, KeepAskInv, KeepAssocInv DEF Inv,
       Queueing
<1> QED BY <1>2, <1>3, <1>4, <1>5, <1>6 DEF Inv

\* Every step of a pusher preserves the invariant.
LEMMA PusherStep ==
    ASSUME Inv, TypeOK', NEW p \in Pushers, Pusher(p)
    PROVE  Inv'
<1>1. CASE queueToTransaction(p)
  <2>1. CASE thread[push[p].obj] # None
    BY <1>1, <2>1, QueueToServed
  <2>2. CASE thread[push[p].obj] = None
    BY <1>1, <2>2, QueueToUnserved
  <2> QED BY <2>1, <2>2
<1>2. CASE TestPending(p)
  BY <1>2, TestPendingStep
<1>3. CASE new_thread(p)
  <2>1. CASE newElement(freeList, total, LowThreads, MaxThreads) = None
    BY <1>3, <2>1, NewThreadRefused
  <2>2. CASE newElement(freeList, total, LowThreads, MaxThreads) # None
    BY <1>3, <2>2, NewThreadGranted
  <2> QED BY <2>1, <2>2
<1>4. CASE eventQ_push(p)
  BY <1>4, eventQ_pushStep
<1>5. CASE Signal(p)
  <2>1. CASE thread[push[p].obj] # None
    BY <1>5, <2>1, SignalWakes
  <2>2. CASE thread[push[p].obj] = None
    BY <1>5, <2>2, SignalFails
  <2> QED BY <2>1, <2>2
<1>6. CASE Park(p)
  <2>1. CASE pending[push[p].obj] \/ push[p].assoc
    BY <1>6, <2>1, ParkSkips
  <2>2. CASE ~(pending[push[p].obj] \/ push[p].assoc)
    BY <1>6, <2>2, ParkAppends
  <2> QED BY <2>1, <2>2
<1> QED BY <1>1, <1>2, <1>3, <1>4, <1>5, <1>6 DEF Pusher

\* Every step of a worker preserves the invariant.
LEMMA WorkerStep ==
    ASSUME Inv, TypeOK', NEW t \in Threads, Worker(t)
    PROVE  Inv'
<1>1. CASE associate(t)
  BY <1>1, associateStep
<1>2. CASE PurgeQueue(t)
  BY <1>2, PurgeQueueStep
<1>3. CASE eventQ_pop(t)
  BY <1>3, eventQ_popStep
<1>4. CASE TakeEvent(t)
  BY <1>4, TakeEventStep
<1>5. CASE Handle(t)
  BY <1>5, HandleStep
<1>6. CASE req_forget(t)
  BY <1>6, req_forgetStep
<1>7. CASE process_eventQ(t)
  BY <1>7, process_eventQStep
<1>8. CASE disassociate(t)
  <2>1. CASE eventQ[txn[t]] # << >>
    BY <1>8, <2>1, DisassociateBack
  <2>2. CASE eventQ[txn[t]] = << >> /\ cleanup[txn[t]] = 1
    BY <1>8, <2>2, DisassociateLast
  <2>3. CASE eventQ[txn[t]] = << >> /\ cleanup[txn[t]] # 1
    BY <1>8, <2>3, DisassociateLeave
  <2> QED BY <2>1, <2>2, <2>3
<1>9. CASE Cleanup(t)
  BY <1>9, CleanupStep
<1>10. CASE check_for_queued_requests(t)
  <2>1. CASE {i \in 1 .. Len(disQ) : eventQ[disQ[i]] # << >>} # {}
    BY <1>10, <2>1, CheckFindsWork
  <2>2. CASE {i \in 1 .. Len(disQ) : eventQ[disQ[i]] # << >>} = {}
    BY <1>10, <2>2, CheckFindsNothing
  <2> QED BY <2>1, <2>2
<1>11. CASE deleteElement(t)
  BY <1>11, deleteElementStep
<1> QED BY <1>1, <1>2, <1>3, <1>4, <1>5, <1>6, <1>7, <1>8, <1>9, <1>10, <1>11 DEF Worker

\* That requests have overlapped is not forgotten.
LEMMA OverlapStays ==
    ASSUME [Next]_vars, overlap
    PROVE  overlap'
<1>1. CASE new_tx
  BY <1>1 DEF new_tx, clientVars
<1>2. CASE \E p \in Pushers, o \in Objects, k \in {"keep", "forget"} : Request(p, o, k)
  BY <1>2 DEF Request
<1>3. CASE \E p \in Pushers : Pusher(p)
  BY <1>3 DEF Pusher, queueToTransaction, TestPending, new_thread, eventQ_push, Signal, Park,
       clientVars
<1>4. CASE \E t \in Threads : Worker(t)
  BY <1>4 DEF Worker, associate, PurgeQueue, eventQ_pop, TakeEvent, Handle, req_forget,
       process_eventQ, disassociate, Cleanup, check_for_queued_requests, deleteElement,
       clientVars
<1>5. CASE UNCHANGED vars
  BY <1>5 DEF vars, clientVars
<1> QED BY <1>1, <1>2, <1>3, <1>4, <1>5 DEF Next

\* The invariant holds until requests of a transaction overlap.
LEMMA InvHolds == Spec => [](overlap \/ Inv)
<1>1. (overlap \/ Inv) /\ TypeInv' /\ [Next]_vars => (overlap \/ Inv)'
  <2> SUFFICES ASSUME Inv, TypeOK', ~overlap', [Next]_vars PROVE Inv'
    BY OverlapStays DEF TypeInv
  <2>1. CASE new_tx
    BY <2>1, new_txStep
  <2>2. CASE \E p \in Pushers, o \in Objects, k \in {"keep", "forget"} : Request(p, o, k)
    BY <2>2, RequestStep
  <2>3. CASE \E p \in Pushers : Pusher(p)
    BY <2>3, PusherStep
  <2>4. CASE \E t \in Threads : Worker(t)
    BY <2>4, WorkerStep
  <2>5. CASE UNCHANGED vars
    BY <2>5, StutterInv
  <2> QED BY <2>1, <2>2, <2>3, <2>4, <2>5 DEF Next
<1> QED BY <1>1, InitInv, TypeHolds, PTL DEF Spec

-----------------------------------------------------------------------------
(* What it means.                                                          *)

\* Types, whoever queues requests: iv_total of neither pool ever passes iv_max
\* or goes below zero, though the main thread makes elements while the workers
\* release and delete them.
THEOREM ThreadsTypeCorrect == Spec => []TypeOK
<1>1. TypeInv => TypeOK
  BY DEF TypeInv
<1> QED BY <1>1, TypeHolds, PTL

\* The thread pool stays sound (CTmPool newElement and deleteElement): nothing
\* is on both lists or on the free list twice, and a free thread is idle.  It
\* does so however many clients a transaction has.
THEOREM ThreadPoolSound == Spec => []PoolSound
<1>1. ASSUME PoolCore PROVE PoolSound
  <2> DEFINE free == {freeList[i] : i \in 1 .. Len(freeList)}
  <2>1. freeList \in Seq(Threads) /\ Len(freeList) \in Nat /\ inUse \subseteq Threads
    BY <1>1 DEF PoolCore
  <2>2. free \subseteq Threads /\ \A t : t \in free <=> FreeThread(t)
    BY <2>1 DEF FreeThread, InSeq
  <2>3. Cardinality(free) = Len(freeList)
    <3>1. freeList \in Bijection(1 .. Len(freeList), free)
      <4>1. freeList \in [1 .. Len(freeList) -> free]
        BY <2>1
      <4>2. \A i, j \in 1 .. Len(freeList) : freeList[i] = freeList[j] => i = j
        BY <1>1 DEF PoolCore, PoolInv, Distinct
      <4>3. \A t \in free : \E i \in 1 .. Len(freeList) : freeList[i] = t
        OBVIOUS
      <4> QED BY <4>1, <4>2, <4>3 DEF Bijection, Injection, Surjection, IsInjective
    <3>2. ExistsBijection(1 .. Len(freeList), free)
      BY <3>1 DEF ExistsBijection
    <3> QED BY <2>1, <3>2, FS_CountingElements
  <2> HIDE DEF free
  <2>4. {t \in Threads : pc[t] # "none"} = inUse \cup free
    BY <1>1, <2>1, <2>2 DEF PoolCore, PoolInv
  <2>5. inUse \cap free = {}
    BY <1>1, <2>1, <2>2 DEF PoolCore, PoolInv
  <2>6. total = Cardinality(inUse) + Len(freeList)
    BY <1>1 DEF PoolCore, PoolInv
  <2>7. \A t \in free : pc[t] = "idle" /\ threadQ[t] = << >> /\ txn[t] = None
    BY <1>1, <2>2 DEF PoolCore, PoolInv, Quiet, Unserved
  <2> QED BY <2>3, <2>4, <2>5, <2>6, <2>7 DEF PoolSound, free
<1> QED BY <1>1, CoreHolds, PTL

\* As long as no two requests of a transaction overlap, no two threads work for
\* one transaction object, ip_Thread names the one that does, and the process
\* is not brought down by the checks of eventQ_pop, by a NULL ip_Thread in
\* process_eventQ, by the purge of associate or by a deleted object.
THEOREM OneServerUntilOverlap == Spec => []OneServerInTurn
<1>1. ASSUME Inv PROVE OneServer /\ ~aborted
  <2>1. ASSUME NEW o \in Objects PROVE Cardinality(Servers(o)) <= 1
    <3>1. CASE Servers(o) = {}
      BY <3>1, FS_EmptySet
    <3>2. CASE Servers(o) # {}
      <4>1. PICK t : t \in Servers(o)
        BY <3>2
      <4>2. Servers(o) = {t}
        BY <1>1, <4>1, ServersServe DEF Inv, Service, OneInv
      <4> QED BY <4>2, FS_Singleton
    <3> QED BY <3>1, <3>2
  <2>2. \A o \in Objects, t \in Threads : txn[t] = o => thread[o] = t
    BY <1>1, Shape DEF Inv, Service, OwnInv
  <2> QED BY <1>1, <2>1, <2>2 DEF OneServer, Inv, NotAborted
<1>2. (overlap \/ Inv) => OneServerInTurn
  BY <1>1 DEF OneServerInTurn
<1> QED BY <1>2, InvHolds, PTL

\* As long as no two requests of a transaction overlap, no event is forgotten: a
\* thread serves its object or is told to, the object is on txdisassociatedQ, or
\* the thread that queued it is still at it; and no event is left in an object
\* that returned to the pool.
THEOREM WorkKnownUntilOverlap == Spec => []WorkIsKnown
<1>1. ASSUME overlap \/ Inv PROVE WorkIsKnown
  <2> SUFFICES ASSUME NEW o \in Objects, ~overlap, eventQ[o] # << >>
               PROVE  /\ live[o]
                      /\ \/ Servers(o) # {}
                         \/ \E i \in 1 .. Len(disQ) : disQ[i] = o
                         \/ \E p \in Pushers : push[p].obj = o
    BY DEF WorkIsKnown
  <2>0. Inv
    BY <1>1
  <2>1. /\ live[o]
        /\ \/ \E t \in Threads : Serves(t, o)
           \/ Parked(o)
           \/ \E p \in Pushers : Obj(p) = o
    BY <2>0 DEF Inv, Service, KnownInv, QueueInv, Busy
  <2>2. Servers(o) = {t \in Threads : Serves(t, o)}
    BY <2>0, ServersServe
  <2> QED BY <2>1, <2>2 DEF Parked, InSeq, Obj
<1> QED BY <1>1, InvHolds, PTL
=============================================================================
