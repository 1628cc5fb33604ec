------------------------- MODULE DtmRecoveryProofs -------------------------
(***************************************************************************)
(* Theorems about module DtmRecovery, for all sets of transactions,        *)
(* regions and TMs and any number of crashes: its type invariant and its   *)
(* three safety invariants.                                                *)
(*                                                                         *)
(* LostIsExplained says what a running region still has.  It is not        *)
(* inductive, as a crash takes all of that away: what counts then is the   *)
(* log.  So DurableInv also says that a region the TM counts on can rebuild*)
(* the transaction (Logged), and it holds from the vote on, before there is*)
(* a decision.  The vote needs LoggingInv (the entry is still there when   *)
(* its prepare record is written), and an abort by the recovery thread     *)
(* needs RecoveryInv and TlogInv (it does not go against the decision      *)
(* unless a cause is noted).  InDoubtAnnounced needs the counts (Counted)  *)
(* and that a region that has started has nothing in doubt, and            *)
(* StoredIsExplained that the logs would bring in nothing else (Within).   *)
(*                                                                         *)
(* A step changes at most one region.  For each operation of a region a    *)
(* lemma shows that the region stays in order and what it may lose; the    *)
(* Effect lemmas lift this to the actions.                                 *)
(***************************************************************************)
EXTENDS DtmRecovery, FiniteSetTheorems, WellFoundedInduction, TLAPS

\* The edits that a replay applies.
Stores == {"COMMIT", "CONTROL_POINT_COMMIT", "PUT"}

\* The transactions the TM has decided to commit.
Committed == {t \in Txns : decision[t] = "commit"}

\* The transactions that may be in the table of region r, with R the edits that
\* HBase itself has restored: the committed ones and those of R.
Allowed(r, R) == Committed \cup {t \in Txns : <<t, r>> \in R}

\* The transactions whose commit the application has asked for, or which are
\* over.
Begun == {t \in Txns : phase[t] # "active"}

\* The parts of a region fit: the synced part of the log exists, what is in
\* the files is in the store, only a server that is up and has rebuilt its
\* lists has entries for transactions, and a reinstated one is in doubt.
Good(g) ==
    /\ g \in RegionType
    /\ g.synced <= Len(g.log)
    /\ g.files \subseteq g.store
    /\ \A t \in Txns : g.pend[t] # "none" => g.up /\ g.built
    /\ \A t \in Txns : g.pend[t] = "reinstated" => t \in g.indoubt

\* The transactions of TM m in doubt in region g.
Mine(g, m) == {t \in g.indoubt : TmOf[t] = m}

\* The counts by which the region decides to delete the zNodes are right,
\* and a region that has started has nothing in doubt.
Counted(g) ==
    /\ IsFiniteSet(g.indoubt)
    /\ \A m \in TMs : g.count[m] = Cardinality(Mine(g, m))
    /\ g.state = 2 => g.indoubt = {}
    /\ ~g.up => g.state = 0

\* Nothing but transactions of C is in the store, or would come there with a
\* replay of the log.
Within(g, C) ==
    /\ g.store \subseteq C
    /\ \A i \in 1 .. Len(g.log) : g.log[i].op \in Stores => g.log[i].t \in C

\* Only transactions of A have a prepare record, are in doubt or pending.
Asked(g, A) ==
    /\ \A i \in 1 .. Len(g.log) : g.log[i].op = "COMMIT_REQUEST" => g.log[i].t \in A
    /\ g.indoubt \subseteq A
    /\ \A t \in Txns : g.pend[t] \in {"checked", "pending", "reinstated"} => t \in A

\* A running region has t: in the table, in doubt or pending.
Held(g, t) ==
    \/ t \in g.store \cup g.indoubt
    \/ g.pend[t] \in {"checked", "pending", "reinstated"}

\* A crash cannot take t from the region: its writes are in the files, or
\* its prepare record is synced and no abort record follows.
Logged(g, t) ==
    \/ t \in g.files
    \/ \E i \in 1 .. g.synced :
          /\ g.log[i] = Edit("COMMIT_REQUEST", t)
          /\ \A k \in i + 1 .. Len(g.log) : g.log[k] # Edit("ABORT", t)

\* Held, and stays so when the server crashes.
Durable(g, t) == (g.up => Held(g, t)) /\ Logged(g, t)

\* What holds of every region, with C the transactions that may be in its table
\* and A those whose commit was asked for.
Region(g, C, A) == Good(g) /\ Counted(g) /\ Within(g, C) /\ Asked(g, A)

\* Every region is in order.
RegionsInv == \A r \in Regions : Region(reg[r], Allowed(r, restored), Begun)

\* The TM decides after phase one; votes are counted while it prepares, and
\* threads of phase two run after the decision.
ClientInv ==
    \A t \in Txns :
        /\ phase[t] \in {"active", "preparing"} => decision[t] = "none"
        /\ voted[t] # {} => phase[t] = "preparing"
        /\ todo[t] # {} => phase[t] \in {"sent", "forgotten"}

\* The TLOG does not lie: a COMMITTED or ABORTED record is the decision of
\* the TM.  The record of a commit is there unless it went with age.
TlogInv ==
    \A t \in Txns :
        /\ \A i \in 1 .. Len(tlog[t]) :
              /\ tlog[t][i].state = "COMMITTED" => decision[t] = "commit"
              /\ tlog[t][i].state = "ABORTED" => decision[t] = "abort"
        /\ decision[t] = "commit" /\ cause[t] = {} =>
              \E i \in 1 .. Len(tlog[t]) : tlog[t][i].state = "COMMITTED"

\* The recovery thread only finds transactions whose commit was asked for;
\* its commits carry out the decision.  An abort does not go against the
\* decision, and does not meet a transaction that is being prepared, unless
\* a cause has been noted.
RecoveryInv ==
    /\ \A m \in TMs, t \in Txns : rec[m].found[t] # {} => phase[t] # "active"
    /\ \A q \in resolve :
          /\ q.op = "commit" => decision[q.t] = "commit"
          /\ q.op = "abort" /\ cause[q.t] = {} =>
                phase[q.t] \notin {"active", "preparing"} /\ decision[q.t] # "commit"

\* Between the check and the prepare record of commitRequest the region
\* keeps the transaction "checked", unless the recovery thread came too
\* early.
LoggingInv ==
    \A r \in Regions, t \in Txns : <<r, t>> \in logging =>
        /\ phase[t] # "active"
        /\ phase[t] = "preparing" /\ cause[t] = {} => reg[r].pend[t] = "checked"

\* Each transaction in doubt has the zNode for its TM.
AnnouncedInv ==
    \A r \in Regions : \A t \in reg[r].indoubt : <<TmOf[t], r>> \in znode

\* The TM counts on region r for t: it has voted, or t is committed and r
\* takes part.
Protected(r, t) == r \in voted[t] \/ (decision[t] = "commit" /\ r \in joined[t])

\* A region the TM counts on has the transaction, whatever crashes, unless
\* the prepare edit was dropped or a cause of the recovery going wrong is
\* noted.
DurableInv ==
    \A r \in Regions, t \in Txns :
        Protected(r, t) =>
            <<t, r>> \in dropped \/ cause[t] # {} \/ Durable(reg[r], t)

\* From g to h the log grew by edits of E, and what was synced stays; or all
\* of it was flushed into the files.
Kept(g, h, E) ==
    \/ /\ h.files = g.files /\ g.synced <= h.synced /\ h.synced <= Len(h.log)
       /\ Len(g.log) <= Len(h.log)
       /\ \A i \in 1 .. Len(g.log) : h.log[i] = g.log[i]
       /\ \A i \in Len(g.log) + 1 .. Len(h.log) : h.log[i] \in E
    \/ h.log = <<>> /\ h.synced = 0 /\ h.files = h.store

\* The fields F are left alone.
Same(g, h, F) == \A f \in F : h[f] = g[f]

\* h is g with t resolved.
Counts(g, h, t) ==
    /\ h.indoubt = g.indoubt \ {t}
    /\ h.count = [g.count EXCEPT ![TmOf[t]] = IF @ > 0 THEN @ - 1 ELSE 0]
    /\ h.state = 2 => g.state = 2 \/ h.indoubt = {}

\* The prepare edit of t leaves the log and its writes are not in the store:
\* what SetRegion notes in dropped.
Drops(g, h, t) == t \in Prepared(g.log) \ (Prepared(h.log) \cup h.store)

\* h is a closed region with these files and this log.
Down(h, files, log) ==
    /\ ~h.up /\ ~h.built /\ h.state = 0 /\ h.indoubt = {}
    /\ h.log = log /\ h.synced = Len(log) /\ h.store = files /\ h.files = files
    /\ \A t \in Txns : h.pend[t] = "none"
    /\ \A m \in TMs : h.count[m] = 0

\* The step replaces region r.
Puts(r, h) == reg' = [reg EXCEPT ![r] = h]

\* After the step every region is in order, with the transactions that were
\* committed and begun before it and the edits that are restored after it.
Sound ==
    /\ reg' \in [Regions -> RegionType]
    /\ \A s \in Regions : Region(reg'[s], Allowed(s, restored'), Begun)

\* The step takes no durable transaction from a region, but for the pairs in
\* X, and but for those noted in dropped.
Keeps(X) ==
    /\ dropped \subseteq dropped'
    /\ \A s \in Regions, u \in Txns : <<s, u>> \notin X /\ Durable(reg[s], u) =>
          Durable(reg'[s], u) \/ <<u, s>> \in dropped'

\* After the step all transactions in doubt are announced.
Posts == \A s \in Regions : \A u \in reg'[s].indoubt : <<TmOf[u], s>> \in znode'

\* The step leaves checked entries alone, but for the pairs in Y.
Frame(Y) ==
    \A s \in Regions, u \in Txns : <<s, u>> \notin Y /\ reg[s].pend[u] = "checked" =>
        reg'[s].pend[u] = "checked"

\* What a step does to the regions.
Effect(X, Y) == Sound /\ Keeps(X) /\ Posts /\ Frame(Y)

\* The region with another entry for t.
Marks(g, t, p) == [g EXCEPT !.pend[t] = p]

\* How the state of a transaction in the TM moves: a decision is made once,
\* out of phase one; phases do not go back; causes stay.
Evolves ==
    \A t \in Txns :
        /\ decision'[t] = decision[t] \/ phase[t] \in {"active", "preparing"}
        /\ phase[t] # "active" => phase'[t] # "active"
        /\ phase[t] \notin {"active", "preparing"} =>
              phase'[t] \notin {"active", "preparing"}
        /\ cause[t] \subseteq cause'[t]

\* The records of the TLOG.
RecordType == [state : {"COMMITTED", "ABORTED", "FORGOTTEN"}, cp : Nat]

\* The step appends e to the row of t, and e fits the decision.
Records(t, e) ==
    /\ e \in RecordType
    /\ tlog' = [tlog EXCEPT ![t] = Append(@, e)]
    /\ cause' = cause
    /\ \A u \in Txns : u # t => decision'[u] = decision[u]
    /\ \/ decision'[t] = decision[t]
       \/ decision[t] = "none" /\ (decision'[t] = "commit" => e.state = "COMMITTED")
    /\ e.state = "COMMITTED" => decision'[t] = "commit"
    /\ e.state = "ABORTED" => decision'[t] = "abort"

\* The inductive invariant.
Inv ==
    /\ TypeOK
    /\ RegionsInv
    /\ ClientInv
    /\ TlogInv
    /\ RecoveryInv
    /\ LoggingInv
    /\ AnnouncedInv
    /\ DurableInv

\* appendNoSync adds an edit at the end of the log and nothing else.
LEMMA AppendFacts ==
    ASSUME NEW g \in RegionType, NEW op \in Ops, NEW t \in Txns
    PROVE  /\ appendNoSync(g, op, t) \in RegionType
           /\ appendNoSync(g, op, t).log = Append(g.log, Edit(op, t))
           /\ Same(g, appendNoSync(g, op, t), {"up", "pend", "indoubt", "count", "built",
                "state", "gen", "synced", "store", "files"})
<1>1. /\ Edit(op, t) \in [op : Ops, t : Txns]
      /\ Append(g.log, Edit(op, t)) \in Seq([op : Ops, t : Txns])
  BY DEF Edit, RegionType
<1>. QED
  BY <1>1 DEF Same, appendNoSync, RegionType

\* Sync moves the synced position to the end of the log.
LEMMA SyncFacts ==
    ASSUME NEW g \in RegionType
    PROVE  /\ Sync(g) \in RegionType
           /\ Sync(g).synced = Len(g.log)
           /\ Same(g, Sync(g), {"up", "pend", "indoubt", "count", "built", "state", "gen",
                "log", "store", "files"})
<1>1. Len(g.log) \in Nat
  BY DEF RegionType
<1>. QED
  BY <1>1 DEF Same, Sync, RegionType

\* flushcache empties the log into the files.
LEMMA FlushFacts ==
    ASSUME NEW g \in RegionType
    PROVE  /\ flushcache(g) \in RegionType
           /\ flushcache(g).synced = 0 /\ flushcache(g).log = <<>>
           /\ flushcache(g).files = g.store
           /\ Same(g, flushcache(g), {"up", "pend", "indoubt", "count", "built", "state",
                "gen", "store"})
<1>1. <<>> \in Seq([op : Ops, t : Txns])
  OBVIOUS
<1>. QED
  BY <1>1 DEF Same, flushcache, RegionType

\* startRegionAfterRecovery is a flush that starts the region.
LEMMA StartFacts ==
    ASSUME NEW g \in RegionType
    PROVE  /\ startRegionAfterRecovery(g) \in RegionType
           /\ startRegionAfterRecovery(g).synced = 0
           /\ startRegionAfterRecovery(g).log = <<>>
           /\ startRegionAfterRecovery(g).files = g.store
           /\ startRegionAfterRecovery(g).state = 2
           /\ Same(g, startRegionAfterRecovery(g), {"up", "pend", "indoubt", "count",
                "built", "gen", "store"})
<1> DEFINE h == flushcache(g)
<1>1. startRegionAfterRecovery(g) = [h EXCEPT !.state = 2]
  BY DEF startRegionAfterRecovery
<1>2. h \in RegionType
  BY FlushFacts
<1>3. /\ h.synced = 0 /\ h.log = <<>> /\ h.files = g.store
      /\ Same(g, h, {"up", "pend", "indoubt", "count", "built", "gen", "store"})
  BY FlushFacts DEF Same
<1> HIDE DEF h
<1>. QED
  BY <1>1, <1>2, <1>3 DEF Same, RegionType

\* An append keeps the log.
LEMMA AppendKept ==
    ASSUME NEW g \in RegionType, g.synced <= Len(g.log), NEW op \in Ops, NEW t \in Txns,
           NEW h, h = appendNoSync(g, op, t)
    PROVE  Kept(g, h, {Edit(op, t)})
<1>1. h.log = Append(g.log, Edit(op, t)) /\ h.files = g.files /\ h.synced = g.synced
  BY AppendFacts DEF Same
<1>2. g.log \in Seq([op : Ops, t : Txns]) /\ g.synced \in Nat
  BY DEF RegionType
<1>3. Edit(op, t) \in [op : Ops, t : Txns]
  BY DEF Edit
<1>4. /\ Len(h.log) = Len(g.log) + 1 /\ h.log[Len(g.log) + 1] = Edit(op, t)
      /\ \A i \in 1 .. Len(g.log) : h.log[i] = g.log[i]
      /\ Len(g.log) \in Nat
  BY <1>1, <1>2, <1>3
<1>5. \A i \in Len(g.log) + 1 .. Len(h.log) : h.log[i] \in {Edit(op, t)}
  BY <1>4
<1>6. h.files = g.files /\ g.synced <= h.synced /\ h.synced <= Len(h.log)
  BY <1>1, <1>2, <1>4
<1>. QED
  BY <1>4, <1>5, <1>6 DEF Kept

\* constructIndoubtTransactions reinstates what is in doubt, and starts a
\* region that has nothing in doubt.
LEMMA ConstructFacts ==
    ASSUME NEW g \in RegionType, g.synced <= Len(g.log), NEW h,
           h = constructIndoubtTransactions(g)
    PROVE  /\ h \in RegionType /\ h.built = TRUE /\ Kept(g, h, {})
           /\ h.pend = [t \in Txns |-> IF ~g.built /\ t \in g.indoubt THEN "reinstated"
                                       ELSE g.pend[t]]
           /\ h.state = 2 => g.state = 2 \/ g.indoubt = {}
           /\ Same(g, h, {"up", "indoubt", "count", "store"})
<1>1. CASE g.built
  <2>1. h = g /\ g.built = TRUE
    BY <1>1 DEF constructIndoubtTransactions, RegionType
  <2>2. Kept(g, g, {})
    BY DEF Kept, RegionType
  <2>. QED
    BY <1>1, <2>1, <2>2 DEF Same, RegionType
<1>2. CASE ~g.built /\ g.indoubt = {}
  <2> DEFINE s == startRegionAfterRecovery(g)
  <2>1. h = [s EXCEPT !.built = TRUE]
    BY <1>2 DEF constructIndoubtTransactions
  <2>2. s \in RegionType
    BY StartFacts
  <2>3. /\ s.synced = 0 /\ s.log = <<>> /\ s.files = g.store /\ s.state = 2
        /\ Same(g, s, {"up", "pend", "indoubt", "count", "built", "gen", "store"})
    BY StartFacts
  <2> HIDE DEF s
  <2>4. /\ h \in RegionType /\ h.built = TRUE
        /\ h.synced = 0 /\ h.log = <<>> /\ h.files = g.store
        /\ Same(s, h, {"up", "pend", "indoubt", "count", "store"})
    BY <2>1, <2>2, <2>3 DEF Same, RegionType
  <2>. QED
    BY <1>2, <2>3, <2>4 DEF Same, Kept, RegionType
<1>3. CASE ~g.built /\ g.indoubt # {}
  <2> DEFINE p == [t \in Txns |-> IF t \in g.indoubt THEN "reinstated" ELSE g.pend[t]]
  <2>1. h = [g EXCEPT !.built = TRUE, !.pend = p]
    BY <1>3 DEF constructIndoubtTransactions
  <2>2. p \in [Txns -> {"none", "active", "checked", "pending", "reinstated"}]
    BY DEF RegionType
  <2>3. p = [t \in Txns |-> IF ~g.built /\ t \in g.indoubt THEN "reinstated" ELSE g.pend[t]]
    BY <1>3
  <2> HIDE DEF p
  <2>4. /\ h \in RegionType /\ h.built = TRUE /\ h.pend = p
        /\ Same(g, h, {"up", "indoubt", "count", "state", "gen", "store", "files",
             "synced", "log"})
    BY <2>1, <2>2 DEF Same, RegionType
  <2>5. Kept(g, h, {})
    BY <2>4 DEF Same, Kept, RegionType
  <2>. QED
    BY <2>3, <2>4, <2>5 DEF Same
<1>. QED
  BY <1>1, <1>2, <1>3

\* Resolved takes t out of the transactions in doubt and counts it off for
\* its TM.
LEMMA ResolvedFacts ==
    ASSUME NEW g \in RegionType, g.synced <= Len(g.log), NEW t \in Txns, NEW h,
           h = Resolved(g, t)
    PROVE  /\ h \in RegionType /\ Kept(g, h, {})
           /\ Counts(g, h, t)
           /\ Same(g, h, {"up", "pend", "built", "store"})
<1> DEFINE c == [g.count EXCEPT ![TmOf[t]] = IF @ > 0 THEN @ - 1 ELSE 0]
           d == g.indoubt \ {t}
           k == [g EXCEPT !.indoubt = d, !.count = c]
<1>1. h = IF k.indoubt = {} THEN startRegionAfterRecovery(k) ELSE k
  BY DEF Resolved, RegionType
<1>2. c \in [TMs -> Nat] /\ d \subseteq Txns
  BY ConstantAssumption DEF RegionType
<1> HIDE DEF c, d
<1>3. /\ k \in RegionType /\ k.indoubt = d /\ k.count = c
      /\ Same(g, k, {"up", "pend", "built", "store", "files", "synced", "log", "state"})
  BY <1>2 DEF Same, RegionType
<1> HIDE DEF k
<1>4. CASE d = {}
  <2> DEFINE s == startRegionAfterRecovery(k)
  <2>1. /\ s \in RegionType /\ s.synced = 0 /\ s.log = <<>> /\ s.files = k.store
        /\ Same(k, s, {"up", "pend", "indoubt", "count", "built", "gen", "store"})
    BY <1>3, StartFacts
  <2>2. h = s
    BY <1>1, <1>3, <1>4
  <2> HIDE DEF s
  <2>. QED
    BY <1>3, <1>4, <2>1, <2>2 DEF Same, Kept, Counts, d, c
<1>5. CASE d # {}
  <2>1. h = k
    BY <1>1, <1>3, <1>5
  <2>2. Kept(g, h, {})
    BY <1>3, <2>1 DEF Same, Kept, RegionType
  <2>. QED
    BY <1>3, <2>1, <2>2 DEF Same, Counts, c, d
<1>. QED
  BY <1>4, <1>5

\* A step that only appends, then any step.

\* Appends followed by a step that keeps the log, keep it.
LEMMA KeptTrans ==
    ASSUME NEW g \in RegionType, NEW h \in RegionType, NEW k \in RegionType,
           NEW D, NEW E, h.files = g.files, g.synced <= h.synced,
           Len(g.log) <= Len(h.log),
           \A i \in 1 .. Len(g.log) : h.log[i] = g.log[i],
           \A i \in Len(g.log) + 1 .. Len(h.log) : h.log[i] \in D,
           Kept(h, k, E), D \subseteq E
    PROVE  Kept(g, k, E)
<1>1. /\ Len(g.log) \in Nat /\ Len(h.log) \in Nat /\ Len(k.log) \in Nat
      /\ g.synced \in Nat /\ h.synced \in Nat /\ k.synced \in Nat
  BY DEF RegionType
<1>2. CASE k.log = <<>> /\ k.synced = 0 /\ k.files = k.store
  BY <1>2 DEF Kept
<1>3. CASE /\ k.files = h.files /\ h.synced <= k.synced /\ k.synced <= Len(k.log)
           /\ Len(h.log) <= Len(k.log)
           /\ \A i \in 1 .. Len(h.log) : k.log[i] = h.log[i]
           /\ \A i \in Len(h.log) + 1 .. Len(k.log) : k.log[i] \in E
  <2>1. k.files = g.files /\ g.synced <= k.synced /\ Len(g.log) <= Len(k.log)
    BY <1>1, <1>3
  <2>2. \A i \in 1 .. Len(g.log) : k.log[i] = g.log[i]
    BY <1>1, <1>3
  <2>3. ASSUME NEW i \in Len(g.log) + 1 .. Len(k.log) PROVE k.log[i] \in E
    <3>1. CASE i \in Len(g.log) + 1 .. Len(h.log)
      <4>1. i \in 1 .. Len(h.log) /\ h.log[i] \in D
        BY <1>1, <3>1
      <4>. QED
        BY <1>3, <4>1
    <3>2. CASE i \in Len(h.log) + 1 .. Len(k.log)
      BY <1>3, <3>2
    <3>. QED
      BY <1>1, <3>1, <3>2
  <2>. QED
    BY <1>3, <2>1, <2>2, <2>3 DEF Kept
<1>. QED
  BY <1>2, <1>3 DEF Kept

\* CommitRecord adds one commit edit.
LEMMA CommitRecordFacts ==
    ASSUME NEW g \in RegionType, g.synced <= Len(g.log), NEW t \in Txns,
           NEW h, h = CommitRecord(g, t)
    PROVE  /\ h \in RegionType
           /\ Kept(g, h, {Edit("COMMIT", t), Edit("CONTROL_POINT_COMMIT", t)})
           /\ Len(h.log) = Len(g.log) + 1 /\ h.synced = g.synced /\ h.files = g.files
           /\ \A i \in 1 .. Len(g.log) : h.log[i] = g.log[i]
           /\ h.log[Len(g.log) + 1] \in {Edit("COMMIT", t), Edit("CONTROL_POINT_COMMIT", t)}
           /\ Same(g, h, {"up", "pend", "indoubt", "count", "built", "state", "store"})
<1> DEFINE op == IF g.gen THEN "COMMIT" ELSE "CONTROL_POINT_COMMIT"
           a == appendNoSync(g, op, t)
<1>1. op \in Ops
  BY DEF Ops
<1>2. Edit(op, t) \in {Edit("COMMIT", t), Edit("CONTROL_POINT_COMMIT", t)}
  OBVIOUS
<1> HIDE DEF op
<1>3. /\ a \in RegionType /\ a.log = Append(g.log, Edit(op, t))
      /\ Same(g, a, {"up", "pend", "indoubt", "count", "built", "state", "gen", "synced",
           "store", "files"})
  BY <1>1, AppendFacts
<1>4. h = [a EXCEPT !.gen = TRUE]
  BY DEF CommitRecord, op
<1> HIDE DEF a
<1>5. /\ h \in RegionType /\ h.log = a.log
      /\ Same(a, h, {"up", "pend", "indoubt", "count", "built", "state", "synced", "store",
           "files"})
  BY <1>3, <1>4 DEF Same, RegionType
<1>6. g.log \in Seq([op : Ops, t : Txns]) /\ g.synced \in Nat
  BY DEF RegionType
<1>7. Edit(op, t) \in [op : Ops, t : Txns]
  BY <1>1 DEF Edit
<1>8. /\ Len(h.log) = Len(g.log) + 1 /\ h.log[Len(g.log) + 1] = Edit(op, t)
      /\ \A i \in 1 .. Len(g.log) : h.log[i] = g.log[i]
      /\ Len(g.log) \in Nat
  BY <1>3, <1>5, <1>6, <1>7
<1>9. \A i \in Len(g.log) + 1 .. Len(h.log) :
         h.log[i] \in {Edit("COMMIT", t), Edit("CONTROL_POINT_COMMIT", t)}
  BY <1>2, <1>8
<1>10. h.files = g.files /\ h.synced = g.synced
  BY <1>3, <1>5 DEF Same
<1>11. Kept(g, h, {Edit("COMMIT", t), Edit("CONTROL_POINT_COMMIT", t)})
  BY <1>6, <1>8, <1>9, <1>10 DEF Kept
<1>12. Same(g, h, {"up", "pend", "indoubt", "count", "built", "state", "store"})
  BY <1>3, <1>5 DEF Same
<1>. QED
  BY <1>2, <1>5, <1>8, <1>10, <1>11, <1>12

\* The edit of an abort.
AbortEdits(t) == {Edit("ABORT", t)}

\* The edits of a commit.
CommitEdits(t) == {Edit("PUT", t), Edit("COMMIT", t), Edit("CONTROL_POINT_COMMIT", t)}

\* Kept with more edits allowed.
LEMMA KeptMore ==
    ASSUME NEW g, NEW h, NEW D, NEW E, Kept(g, h, D), D \subseteq E
    PROVE  Kept(g, h, E)
  BY DEF Kept

\* What commit does to a region: t is in the store and its entry gone, and
\* the log has at most the edits of a commit more.
LEMMA CommitFacts ==
    ASSUME NEW g \in RegionType, g.synced <= Len(g.log), NEW t \in Txns,
           NEW h, h = commit(g, t)
    PROVE  /\ h \in RegionType /\ Kept(g, h, CommitEdits(t))
           /\ h.store = g.store \cup {t} /\ h.pend = [g.pend EXCEPT ![t] = "none"]
           /\ h.up = g.up /\ h.built = g.built
           /\ g.pend[t] = "reinstated" => Counts(g, h, t)
           /\ g.pend[t] # "reinstated" =>
                 Same(g, h, {"indoubt", "count", "state"})
<1> DEFINE st == g.store \cup {t}
           pe == [g.pend EXCEPT ![t] = "none"]
           s == [g EXCEPT !.store = st, !.pend = pe]
           p == appendNoSync(s, "PUT", t)
           q == Sync(p)
           c == CommitRecord(q, t)
<1>1. h = IF g.pend[t] = "reinstated" THEN Resolved(c, t) ELSE CommitRecord(s, t)
  BY DEF commit, RegionType
<1>2. st \subseteq Txns /\ pe \in [Txns -> {"none", "active", "checked", "pending",
          "reinstated"}]
  BY DEF RegionType
<1> HIDE DEF st, pe
<1>3. /\ s \in RegionType /\ s.store = st /\ s.pend = pe
      /\ Same(g, s, {"up", "indoubt", "count", "built", "state", "files", "synced", "log"})
  BY <1>2 DEF Same, RegionType
<1> HIDE DEF s
<1>4. "PUT" \in Ops /\ Edit("PUT", t) \in [op : Ops, t : Txns]
  BY DEF Ops, Edit
<1>5. /\ g.log \in Seq([op : Ops, t : Txns]) /\ g.synced \in Nat /\ Len(g.log) \in Nat
      /\ s.synced <= Len(s.log)
  BY <1>3 DEF Same, RegionType
<1>6. CASE g.pend[t] # "reinstated"
  <2>1. h = CommitRecord(s, t)
    BY <1>1, <1>6
  <2>2. /\ h \in RegionType
        /\ Kept(s, h, {Edit("COMMIT", t), Edit("CONTROL_POINT_COMMIT", t)})
        /\ Same(s, h, {"up", "pend", "indoubt", "count", "built", "state", "store"})
    <3>1. s \in RegionType /\ s.synced <= Len(s.log)
      BY <1>3, <1>5
    <3>. QED
      BY <3>1, <2>1, CommitRecordFacts
  <2>3. Kept(g, h, {Edit("COMMIT", t), Edit("CONTROL_POINT_COMMIT", t)})
    BY <1>3, <2>2 DEF Same, Kept
  <2>4. Kept(g, h, CommitEdits(t))
    BY <2>3, KeptMore DEF CommitEdits
  <2>. QED
    BY <1>3, <1>6, <2>2, <2>4 DEF Same, st, pe
<1>7. CASE g.pend[t] = "reinstated"
  <2>1. /\ p \in RegionType /\ p.log = Append(s.log, Edit("PUT", t))
        /\ Same(s, p, {"up", "pend", "indoubt", "count", "built", "state", "gen", "synced",
             "store", "files"})
    BY <1>3, <1>4, AppendFacts
  <2>2. /\ q \in RegionType /\ q.synced = Len(p.log)
        /\ Same(p, q, {"up", "pend", "indoubt", "count", "built", "state", "gen", "log",
             "store", "files"})
    BY <2>1, SyncFacts
  <2>3. /\ Len(q.log) = Len(g.log) + 1 /\ q.log[Len(g.log) + 1] = Edit("PUT", t)
        /\ \A i \in 1 .. Len(g.log) : q.log[i] = g.log[i]
        /\ q.synced = Len(q.log)
    <3>1. q.log = Append(g.log, Edit("PUT", t)) /\ q.synced = Len(q.log)
      BY <1>3, <2>1, <2>2 DEF Same
    <3>. QED
      BY <3>1, <1>4, <1>5
  <2> HIDE DEF p, q
  <2>4. /\ c \in RegionType
        /\ Kept(q, c, {Edit("COMMIT", t), Edit("CONTROL_POINT_COMMIT", t)})
        /\ Len(c.log) = Len(q.log) + 1 /\ c.synced = q.synced /\ c.files = q.files
        /\ \A i \in 1 .. Len(q.log) : c.log[i] = q.log[i]
        /\ c.log[Len(q.log) + 1] \in {Edit("COMMIT", t), Edit("CONTROL_POINT_COMMIT", t)}
        /\ Same(q, c, {"up", "pend", "indoubt", "count", "built", "state", "store"})
    <3>1. q \in RegionType /\ q.synced <= Len(q.log) /\ c = CommitRecord(q, t)
      BY <2>2, <2>3, <1>5
    <3> HIDE DEF c
    <3>. QED
      BY <3>1, CommitRecordFacts
  <2> HIDE DEF c
  <2>5. /\ h \in RegionType /\ Kept(c, h, {})
        /\ Counts(c, h, t)
        /\ Same(c, h, {"up", "pend", "built", "store"})
    <3>1. c \in RegionType /\ c.synced <= Len(c.log)
      BY <1>5, <2>3, <2>4
    <3>2. h = Resolved(c, t)
      BY <1>1, <1>7
    <3>. QED
      BY <3>1, <3>2, ResolvedFacts
  <2>6. Kept(g, h, CommitEdits(t))
    <3>1. Kept(c, h, CommitEdits(t))
      BY <2>5, KeptMore
    <3>2. c.files = g.files /\ g.synced <= c.synced /\ Len(g.log) <= Len(c.log)
      BY <1>3, <1>5, <2>1, <2>2, <2>3, <2>4 DEF Same
    <3>3. \A i \in 1 .. Len(g.log) : c.log[i] = g.log[i]
      BY <1>5, <2>3, <2>4
    <3>4. \A i \in Len(g.log) + 1 .. Len(c.log) : c.log[i] \in CommitEdits(t)
      <4> SUFFICES ASSUME NEW i \in Len(g.log) + 1 .. Len(c.log)
                   PROVE  c.log[i] \in CommitEdits(t)
        OBVIOUS
      <4>1. CASE i = Len(g.log) + 1
        <5>1. c.log[i] = q.log[i]
          BY <1>5, <2>3, <2>4, <4>1
        <5>. QED
          BY <5>1, <2>3, <4>1 DEF CommitEdits
      <4>2. CASE i = Len(g.log) + 2
        <5>1. c.log[i] \in {Edit("COMMIT", t), Edit("CONTROL_POINT_COMMIT", t)}
          BY <1>5, <2>3, <2>4, <4>2
        <5>. QED
          BY <5>1 DEF CommitEdits
      <4>3. Len(c.log) = Len(g.log) + 2 /\ Len(g.log) \in Nat
        BY <1>5, <2>3, <2>4
      <4>4. i = Len(g.log) + 1 \/ i = Len(g.log) + 2
        BY <4>3
      <4>. QED
        BY <4>1, <4>2, <4>4
    <3>. QED
      BY <2>4, <2>5, <3>1, <3>2, <3>3, <3>4, KeptTrans
  <2>7. Counts(g, h, t)
    BY <1>3, <2>1, <2>2, <2>4, <2>5 DEF Same, Counts
  <2>8. h.store = st /\ h.pend = pe /\ h.up = g.up /\ h.built = g.built
    BY <1>3, <2>1, <2>2, <2>4, <2>5 DEF Same
  <2>. QED
    BY <1>7, <2>5, <2>6, <2>7, <2>8 DEF st, pe
<1>. QED
  BY <1>6, <1>7

\* What abortTransaction does to a region: the entry of t is gone, and the
\* log has at most an abort edit more.
LEMMA AbortFacts ==
    ASSUME NEW g \in RegionType, g.synced <= Len(g.log), NEW t \in Txns,
           NEW h, h = abortTransaction(g, t)
    PROVE  /\ h \in RegionType /\ Kept(g, h, AbortEdits(t))
           /\ h.store = g.store /\ h.pend = [g.pend EXCEPT ![t] = "none"]
           /\ h.up = g.up /\ h.built = g.built
           /\ g.pend[t] = "reinstated" => Counts(g, h, t)
           /\ g.pend[t] # "reinstated" =>
                 Same(g, h, {"indoubt", "count", "state"})
<1> DEFINE pe == [g.pend EXCEPT ![t] = "none"]
           s == [g EXCEPT !.pend = pe]
<1>1. h = IF g.pend[t] = "reinstated" THEN Resolved(s, t) ELSE appendNoSync(s, "ABORT", t)
  BY DEF abortTransaction, RegionType
<1>2. pe \in [Txns -> {"none", "active", "checked", "pending", "reinstated"}]
  BY DEF RegionType
<1> HIDE DEF pe
<1>3. /\ s \in RegionType /\ s.pend = pe
      /\ Same(g, s, {"up", "indoubt", "count", "built", "state", "files", "synced", "log",
           "store"})
  BY <1>2 DEF Same, RegionType
<1> HIDE DEF s
<1>4. "ABORT" \in Ops /\ s.synced <= Len(s.log)
  BY <1>3 DEF Same, Ops
<1>5. CASE g.pend[t] # "reinstated"
  <2>1. h = appendNoSync(s, "ABORT", t)
    BY <1>1, <1>5
  <2>2. /\ h \in RegionType
        /\ Same(s, h, {"up", "pend", "indoubt", "count", "built", "state", "gen", "synced",
             "store", "files"})
    BY <1>3, <1>4, <2>1, AppendFacts
  <2>3. Kept(s, h, AbortEdits(t))
    BY <1>3, <1>4, <2>1, AppendKept DEF AbortEdits
  <2>4. Kept(g, h, AbortEdits(t))
    BY <1>3, <2>3 DEF Same, Kept
  <2>. QED
    BY <1>3, <1>5, <2>2, <2>4 DEF Same, pe
<1>6. CASE g.pend[t] = "reinstated"
  <2>1. h = Resolved(s, t)
    BY <1>1, <1>6
  <2>2. /\ h \in RegionType /\ Kept(s, h, {})
        /\ Counts(s, h, t)
        /\ Same(s, h, {"up", "pend", "built", "store"})
    BY <1>3, <1>4, <2>1, ResolvedFacts
  <2>3. Kept(g, h, {})
    BY <1>3, <2>2 DEF Same, Kept
  <2>4. Kept(g, h, AbortEdits(t))
    BY <2>3, KeptMore
  <2>. QED
    BY <1>3, <1>6, <2>2, <2>4 DEF Same, pe, Counts
<1>. QED
  BY <1>5, <1>6

\* The elements of a sequence.
LEMMA SeqFacts ==
    ASSUME NEW S, NEW s \in Seq(S)
    PROVE  /\ Len(s) \in Nat /\ DOMAIN s = 1 .. Len(s)
           /\ \A i \in 1 .. Len(s) : s[i] \in S
  OBVIOUS

\* The prefixes of a sequence.
LEMMA PrefixFacts ==
    ASSUME NEW S, NEW s \in Seq(S), NEW n \in 0 .. Len(s)
    PROVE  /\ SubSeq(s, 1, n) \in Seq(S) /\ Len(SubSeq(s, 1, n)) = n
           /\ \A i \in 1 .. n : SubSeq(s, 1, n)[i] = s[i] /\ i \in 1 .. Len(s)
  OBVIOUS

\* The fields of a region.
LEMMA Types ==
    ASSUME NEW g \in RegionType
    PROVE  /\ g.log \in Seq([op : Ops, t : Txns]) /\ Len(g.log) \in Nat /\ g.synced \in Nat
           /\ g.pend \in [Txns -> {"none", "active", "checked", "pending", "reinstated"}]
           /\ g.indoubt \subseteq Txns /\ g.count \in [TMs -> Nat]
           /\ g.store \subseteq Txns /\ g.files \subseteq Txns /\ g.state \in {0, 2}
           /\ g.up \in BOOLEAN /\ g.built \in BOOLEAN
           /\ DOMAIN g.log = 1 .. Len(g.log)
           /\ \A i \in 1 .. Len(g.log) : g.log[i] \in [op : Ops, t : Txns]
<1>1. /\ g.log \in Seq([op : Ops, t : Txns]) /\ g.synced \in Nat
      /\ g.pend \in [Txns -> {"none", "active", "checked", "pending", "reinstated"}]
      /\ g.indoubt \subseteq Txns /\ g.count \in [TMs -> Nat]
      /\ g.store \subseteq Txns /\ g.files \subseteq Txns /\ g.state \in {0, 2}
      /\ g.up \in BOOLEAN /\ g.built \in BOOLEAN
  BY DEF RegionType
<1>2. /\ Len(g.log) \in Nat /\ DOMAIN g.log = 1 .. Len(g.log)
      /\ \A i \in 1 .. Len(g.log) : g.log[i] \in [op : Ops, t : Txns]
  BY <1>1, SeqFacts
<1>. QED
  BY <1>1, <1>2

\* A log that is kept has its synced part.
LEMMA KeptLength ==
    ASSUME NEW g, NEW h \in RegionType, NEW E, Good(g), Kept(g, h, E), g.store \subseteq h.store
    PROVE  h.synced <= Len(h.log) /\ h.files \subseteq h.store
<1>1. h.log = <<>> => Len(h.log) = 0
  OBVIOUS
<1>. QED
  BY <1>1 DEF Good, Kept

\* An edit of a log that is kept was there, or is one of the new ones.
LEMMA KeptEdit ==
    ASSUME NEW g, NEW h \in RegionType, NEW E, Good(g), Kept(g, h, E),
           NEW i \in 1 .. Len(h.log)
    PROVE  \/ i \in 1 .. Len(g.log) /\ h.log[i] = g.log[i]
           \/ h.log[i] \in E
<1>1. Len(g.log) \in Nat /\ Len(h.log) \in Nat
  BY Types DEF Good
<1>2. h.log = <<>> => Len(h.log) = 0
  OBVIOUS
<1>3. CASE i \in 1 .. Len(g.log)
  BY <1>1, <1>2, <1>3 DEF Kept
<1>4. CASE i \in Len(g.log) + 1 .. Len(h.log)
  BY <1>1, <1>2, <1>4 DEF Kept
<1>. QED
  BY <1>1, <1>3, <1>4

\* A log that is kept brings in nothing but committed transactions, if the
\* new edits do not.
LEMMA KeptWithin ==
    ASSUME NEW g, NEW h \in RegionType, NEW E, NEW C, Good(g), Kept(g, h, E), Within(g, C),
           h.store \subseteq C, \A e \in E : e.op \in Stores => e.t \in C
    PROVE  Within(h, C)
  BY KeptEdit DEF Within

\* The prepare edits of a log that is kept are of transactions whose commit
\* was asked for.
LEMMA KeptAsked ==
    ASSUME NEW g, NEW h \in RegionType, NEW E, NEW A, Good(g), Kept(g, h, E), Asked(g, A),
           \A e \in E : e.op = "COMMIT_REQUEST" => e.t \in A,
           h.indoubt \subseteq g.indoubt,
           \A u \in Txns : h.pend[u] \in {"checked", "pending", "reinstated"} => u \in A
    PROVE  Asked(h, A)
<1>1. h.indoubt \subseteq A
  BY DEF Asked
<1>. QED
  BY <1>1, KeptEdit DEF Asked

\* The empty log has no prepare edit.
LEMMA NothingPrepared == Prepared(<<>>) = {}
  BY DEF Prepared

\* What was safe from a crash stays so in a log that is kept and gets no
\* abort edit for it, or is noted as dropped.
LEMMA KeptLogged ==
    ASSUME NEW g, NEW h \in RegionType, NEW E, NEW u \in Txns, Good(g), Kept(g, h, E),
           g.store \subseteq h.store, Edit("ABORT", u) \notin E, Logged(g, u)
    PROVE  Logged(h, u) \/ Drops(g, h, u)
<1>1. /\ Len(g.log) \in Nat /\ g.synced \in Nat /\ Len(h.log) \in Nat /\ h.synced \in Nat
      /\ g.synced <= Len(g.log) /\ g.files \subseteq g.store
  BY Types DEF Good
<1>2. CASE u \in g.files
  BY <1>1, <1>2 DEF Kept, Logged
<1>3. CASE u \notin g.files
  <2>1. PICK i \in 1 .. g.synced :
          /\ g.log[i] = Edit("COMMIT_REQUEST", u)
          /\ \A k \in i + 1 .. Len(g.log) : g.log[k] # Edit("ABORT", u)
    BY <1>3 DEF Logged
  <2>2. i \in 1 .. Len(g.log)
    BY <1>1
  <2>3. CASE h.log = <<>> /\ h.synced = 0 /\ h.files = h.store
    <3>1. i \in DOMAIN g.log
      BY <2>2, Types DEF Good
    <3>2. u \in Prepared(g.log)
      BY <2>1, <3>1 DEF Prepared, Edit
    <3>3. Prepared(h.log) = {}
      BY <2>3, NothingPrepared
    <3>. QED
      BY <2>3, <3>2, <3>3 DEF Logged, Drops
  <2>4. CASE /\ g.synced <= h.synced /\ Len(g.log) <= Len(h.log)
             /\ \A k \in 1 .. Len(g.log) : h.log[k] = g.log[k]
    <3>1. i \in 1 .. h.synced
      BY <1>1, <2>4
    <3>2. h.log[i] = Edit("COMMIT_REQUEST", u)
      BY <2>1, <2>2, <2>4
    <3>3. ASSUME NEW k \in i + 1 .. Len(h.log) PROVE h.log[k] # Edit("ABORT", u)
      <4>1. k \in 1 .. Len(h.log)
        BY <1>1, <2>2
      <4>2. \/ k \in 1 .. Len(g.log) /\ h.log[k] = g.log[k]
            \/ h.log[k] \in E
        BY <4>1, KeptEdit
      <4>3. k \in 1 .. Len(g.log) => k \in i + 1 .. Len(g.log)
        BY <1>1
      <4>. QED
        BY <2>1, <4>2, <4>3
    <3>. QED
      BY <3>1, <3>2, <3>3 DEF Logged
  <2>. QED
    BY <2>3, <2>4 DEF Kept
<1>. QED
  BY <1>2, <1>3

\* Resolving a transaction in doubt keeps the counts right.
LEMMA CountsRight ==
    ASSUME NEW g \in RegionType, NEW h \in RegionType, NEW t \in g.indoubt, Counted(g),
           Counts(g, h, t), h.up = g.up, g.up
    PROVE  Counted(h)
<1>1. h.indoubt = g.indoubt \ {t} /\ t \in Txns /\ TmOf[t] \in TMs
  BY ConstantAssumption, Types DEF Counts
<1>2. IsFiniteSet(h.indoubt)
  BY <1>1, FS_Subset DEF Counted
<1>3. ASSUME NEW m \in TMs PROVE h.count[m] = Cardinality(Mine(h, m))
  <2>1. /\ IsFiniteSet(Mine(g, m)) /\ g.count[m] = Cardinality(Mine(g, m))
        /\ g.count[m] \in Nat
    <3>1. Mine(g, m) \subseteq g.indoubt
      BY DEF Mine
    <3>. QED
      BY <3>1, FS_Subset, Types DEF Counted
  <2>2. CASE m # TmOf[t]
    <3>1. Mine(h, m) = Mine(g, m)
      BY <1>1, <2>2 DEF Mine
    <3>2. h.count[m] = g.count[m]
      BY <1>1, <2>2, Types DEF Counts
    <3>. QED
      BY <2>1, <3>1, <3>2
  <2>3. CASE m = TmOf[t]
    <3>1. Mine(h, m) = Mine(g, m) \ {t} /\ t \in Mine(g, m)
      BY <1>1, <2>3 DEF Mine
    <3>2. Cardinality(Mine(g, m) \ {t}) = Cardinality(Mine(g, m)) - 1
      BY <2>1, <3>1, FS_RemoveElement
    <3>3. Cardinality(Mine(g, m)) # 0
      BY <2>1, <3>1, FS_EmptySet
    <3>4. h.count[m] = IF g.count[m] > 0 THEN g.count[m] - 1 ELSE 0
      BY <1>1, <2>3, Types DEF Counts
    <3>. QED
      BY <2>1, <3>1, <3>2, <3>3, <3>4
  <2>. QED
    BY <2>2, <2>3
<1>4. h.state = 2 => h.indoubt = {}
  BY <1>1 DEF Counts, Counted
<1>. QED
  BY <1>2, <1>3, <1>4 DEF Counted

\* A commit of a committed transaction leaves the region in order, and takes
\* no transaction from it that is not noted as dropped (the flush that ends
\* the recovery).
LEMMA CommitRegion ==
    ASSUME NEW g, NEW C, NEW A, Region(g, C, A), NEW t \in Txns, t \in C, g.pend[t] # "none",
           NEW h, h = commit(g, t)
    PROVE  /\ Region(h, C, A)
           /\ \A u \in Txns : Durable(g, u) => Durable(h, u) \/ Drops(g, h, u)
           /\ h.indoubt \subseteq g.indoubt
           /\ \A u \in Txns : u # t => h.pend[u] = g.pend[u]
<1>1. /\ g \in RegionType /\ g.synced <= Len(g.log) /\ g.files \subseteq g.store
      /\ g.up /\ g.built /\ Good(g) /\ Counted(g) /\ Within(g, C) /\ Asked(g, A)
  BY DEF Region, Good
<1>2. /\ h \in RegionType /\ Kept(g, h, CommitEdits(t))
      /\ h.store = g.store \cup {t} /\ h.pend = [g.pend EXCEPT ![t] = "none"]
      /\ h.up = g.up /\ h.built = g.built
      /\ g.pend[t] = "reinstated" => Counts(g, h, t)
      /\ g.pend[t] # "reinstated" => Same(g, h, {"indoubt", "count", "state"})
  <2>1. g \in RegionType /\ g.synced <= Len(g.log)
    BY <1>1
  <2>. QED
    BY <2>1, CommitFacts
<1>3. h.indoubt \subseteq g.indoubt /\ \A u \in g.indoubt : u \in h.indoubt \/ u = t
  BY <1>2 DEF Counts, Same
<1>4. \A u \in Txns : h.pend[u] = IF u = t THEN "none" ELSE g.pend[u]
  BY <1>1, <1>2, Types
<1>5. Good(h)
  <2>1. h.synced <= Len(h.log) /\ h.files \subseteq h.store
    BY <1>1, <1>2, KeptLength
  <2>2. \A u \in Txns : h.pend[u] # "none" => h.up /\ h.built
    BY <1>1, <1>2
  <2>3. \A u \in Txns : h.pend[u] = "reinstated" => u \in h.indoubt
    BY <1>1, <1>3, <1>4 DEF Good
  <2>. QED
    BY <1>2, <2>1, <2>2, <2>3 DEF Good
<1>6. Counted(h)
  <2>1. CASE g.pend[t] = "reinstated"
    <3>1. t \in g.indoubt
      BY <1>1, <2>1 DEF Good
    <3>. QED
      BY <1>1, <1>2, <2>1, <3>1, CountsRight
  <2>2. CASE g.pend[t] # "reinstated"
    BY <1>1, <1>2, <2>2 DEF Counted, Same, Mine
  <2>. QED
    BY <2>1, <2>2
<1>7. Within(h, C)
  <2>1. \A e \in CommitEdits(t) : e.op \in Stores => e.t \in C
    BY DEF CommitEdits, Edit
  <2>2. h.store \subseteq C
    BY <1>1, <1>2 DEF Within
  <2>. QED
    BY <1>1, <1>2, <2>1, <2>2, KeptWithin
<1>8. Asked(h, A)
  <2>1. \A e \in CommitEdits(t) : e.op = "COMMIT_REQUEST" => e.t \in A
    BY DEF CommitEdits, Edit
  <2>2. \A u \in Txns : h.pend[u] \in {"checked", "pending", "reinstated"} => u \in A
    BY <1>1, <1>4 DEF Asked
  <2>. QED
    BY <1>1, <1>2, <1>3, <2>1, <2>2, KeptAsked
<1>9. ASSUME NEW u \in Txns, Durable(g, u) PROVE Durable(h, u) \/ Drops(g, h, u)
  <2>1. Held(h, u)
    BY <1>1, <1>2, <1>3, <1>4, <1>9 DEF Durable, Held
  <2>2. Edit("ABORT", u) \notin CommitEdits(t)
    BY DEF CommitEdits, Edit
  <2>3. Logged(h, u) \/ Drops(g, h, u)
    BY <1>1, <1>2, <1>9, <2>2, KeptLogged DEF Durable
  <2>. QED
    BY <2>1, <2>3 DEF Durable
<1>. QED
  BY <1>3, <1>4, <1>5, <1>6, <1>7, <1>8, <1>9 DEF Region

\* The same for an abort, of the other transactions.
LEMMA AbortRegion ==
    ASSUME NEW g, NEW C, NEW A, Region(g, C, A), NEW t \in Txns, g.pend[t] # "none",
           NEW h, h = abortTransaction(g, t)
    PROVE  /\ Region(h, C, A)
           /\ \A u \in Txns : u # t /\ Durable(g, u) => Durable(h, u) \/ Drops(g, h, u)
           /\ h.indoubt \subseteq g.indoubt
           /\ \A u \in Txns : u # t => h.pend[u] = g.pend[u]
<1>1. /\ g \in RegionType /\ g.synced <= Len(g.log) /\ g.files \subseteq g.store
      /\ g.up /\ g.built /\ Good(g) /\ Counted(g) /\ Within(g, C) /\ Asked(g, A)
  BY DEF Region, Good
<1>2. /\ h \in RegionType /\ Kept(g, h, AbortEdits(t))
      /\ h.store = g.store /\ h.pend = [g.pend EXCEPT ![t] = "none"]
      /\ h.up = g.up /\ h.built = g.built
      /\ g.pend[t] = "reinstated" => Counts(g, h, t)
      /\ g.pend[t] # "reinstated" => Same(g, h, {"indoubt", "count", "state"})
  <2>1. g \in RegionType /\ g.synced <= Len(g.log)
    BY <1>1
  <2>. QED
    BY <2>1, AbortFacts
<1>3. h.indoubt \subseteq g.indoubt /\ \A u \in g.indoubt : u \in h.indoubt \/ u = t
  BY <1>2 DEF Counts, Same
<1>4. \A u \in Txns : h.pend[u] = IF u = t THEN "none" ELSE g.pend[u]
  BY <1>1, <1>2, Types
<1>5. Good(h)
  <2>1. h.synced <= Len(h.log) /\ h.files \subseteq h.store
    BY <1>1, <1>2, KeptLength
  <2>2. \A u \in Txns : h.pend[u] # "none" => h.up /\ h.built
    BY <1>1, <1>2
  <2>3. \A u \in Txns : h.pend[u] = "reinstated" => u \in h.indoubt
    BY <1>1, <1>3, <1>4 DEF Good
  <2>. QED
    BY <1>2, <2>1, <2>2, <2>3 DEF Good
<1>6. Counted(h)
  <2>1. CASE g.pend[t] = "reinstated"
    <3>1. t \in g.indoubt
      BY <1>1, <2>1 DEF Good
    <3>. QED
      BY <1>1, <1>2, <2>1, <3>1, CountsRight
  <2>2. CASE g.pend[t] # "reinstated"
    BY <1>1, <1>2, <2>2 DEF Counted, Same, Mine
  <2>. QED
    BY <2>1, <2>2
<1>7. Within(h, C)
  <2>1. \A e \in AbortEdits(t) : e.op \in Stores => e.t \in C
    BY DEF AbortEdits, Edit, Stores
  <2>2. h.store \subseteq C
    BY <1>1, <1>2 DEF Within
  <2>. QED
    BY <1>1, <1>2, <2>1, <2>2, KeptWithin
<1>8. Asked(h, A)
  <2>1. \A e \in AbortEdits(t) : e.op = "COMMIT_REQUEST" => e.t \in A
    BY DEF AbortEdits, Edit
  <2>2. \A u \in Txns : h.pend[u] \in {"checked", "pending", "reinstated"} => u \in A
    BY <1>1, <1>4 DEF Asked
  <2>. QED
    BY <1>1, <1>2, <1>3, <2>1, <2>2, KeptAsked
<1>9. ASSUME NEW u \in Txns, u # t, Durable(g, u) PROVE Durable(h, u) \/ Drops(g, h, u)
  <2>1. Held(h, u)
    BY <1>1, <1>2, <1>3, <1>4, <1>9 DEF Durable, Held
  <2>2. Edit("ABORT", u) \notin AbortEdits(t)
    BY <1>9 DEF AbortEdits, Edit
  <2>3. Logged(h, u) \/ Drops(g, h, u)
    BY <1>1, <1>2, <1>9, <2>2, KeptLogged DEF Durable
  <2>. QED
    BY <2>1, <2>3 DEF Durable
<1>. QED
  BY <1>3, <1>4, <1>5, <1>6, <1>7, <1>8, <1>9 DEF Region

\* The first call to a region that was opened leaves it in order.
LEMMA ConstructRegion ==
    ASSUME NEW g, NEW C, NEW A, Region(g, C, A), g.up,
           NEW h, h = constructIndoubtTransactions(g)
    PROVE  /\ Region(h, C, A)
           /\ \A u \in Txns : Durable(g, u) => Durable(h, u) \/ Drops(g, h, u)
           /\ h.indoubt = g.indoubt /\ h.up /\ h.built
           /\ \A u \in Txns : g.pend[u] # "none" => h.pend[u] = g.pend[u]
<1>1. /\ g \in RegionType /\ g.synced <= Len(g.log) /\ g.files \subseteq g.store
      /\ Good(g) /\ Counted(g) /\ Within(g, C) /\ Asked(g, A)
  BY DEF Region, Good
<1>2. /\ h \in RegionType /\ h.built = TRUE /\ Kept(g, h, {})
      /\ h.pend = [t \in Txns |-> IF ~g.built /\ t \in g.indoubt THEN "reinstated"
                                  ELSE g.pend[t]]
      /\ h.state = 2 => g.state = 2 \/ g.indoubt = {}
      /\ Same(g, h, {"up", "indoubt", "count", "store"})
  BY <1>1, ConstructFacts
<1>3. h.up = g.up /\ h.indoubt = g.indoubt /\ h.count = g.count /\ h.store = g.store
  BY <1>2 DEF Same
<1>4. \A u \in Txns :
          h.pend[u] = IF ~g.built /\ u \in g.indoubt THEN "reinstated" ELSE g.pend[u]
  BY <1>2
<1>5. Good(h)
  <2>1. h.synced <= Len(h.log) /\ h.files \subseteq h.store
    BY <1>1, <1>2, <1>3, KeptLength
  <2>2. \A u \in Txns : h.pend[u] = "reinstated" => u \in h.indoubt
    BY <1>1, <1>3, <1>4 DEF Good
  <2>. QED
    BY <1>2, <1>3, <2>1, <2>2 DEF Good
<1>6. Counted(h)
  BY <1>1, <1>2, <1>3 DEF Counted, Mine
<1>7. Within(h, C)
  <2>1. h.store \subseteq C
    BY <1>1, <1>3 DEF Within
  <2>. QED
    BY <1>1, <1>2, <2>1, KeptWithin
<1>8. Asked(h, A)
  <2>1. \A u \in Txns : h.pend[u] \in {"checked", "pending", "reinstated"} => u \in A
    BY <1>1, <1>4 DEF Asked
  <2>. QED
    BY <1>1, <1>2, <1>3, <2>1, KeptAsked
<1>9. ASSUME NEW u \in Txns, Durable(g, u) PROVE Durable(h, u) \/ Drops(g, h, u)
  <2>1. Held(h, u)
    BY <1>3, <1>4, <1>9 DEF Durable, Held
  <2>2. Logged(h, u) \/ Drops(g, h, u)
    BY <1>1, <1>2, <1>3, <1>9, KeptLogged DEF Durable
  <2>. QED
    BY <2>1, <2>2 DEF Durable
<1>10. \A u \in Txns : g.pend[u] # "none" => h.pend[u] = g.pend[u]
  BY <1>1, <1>4 DEF Good
<1>. QED
  BY <1>2, <1>3, <1>5, <1>6, <1>7, <1>8, <1>9, <1>10 DEF Region

\* A set of numbers has a least element.
LEMMA Least ==
    ASSUME NEW S, S \subseteq Nat, S # {}
    PROVE  \E x \in S : \A y \in S : x <= y
<1>1. PICK x \in S : \A y \in S : ~(<<y, x>> \in OpToRel(<, Nat))
  BY NatLessThanWellFounded, WFMin, Zenon
<1>2. \A y \in S : ~(y < x)
  BY <1>1 DEF OpToRel
<1>. QED
  BY <1>2

\* A bounded set of numbers has a greatest element.
LEMMA Greatest ==
    ASSUME NEW S, S \subseteq Nat, S # {}, NEW n \in Nat, \A s \in S : s <= n
    PROVE  \E x \in S : \A y \in S : y <= x
<1> DEFINE T == {n - s : s \in S}
<1>0. \A s \in S : n - s \in Nat
  OBVIOUS
<1>1. T \subseteq Nat /\ T # {}
  BY <1>0
<1>2. PICK z \in T : \A y \in T : z <= y
  BY <1>1, Least
<1>3. PICK x \in S : z = n - x
  OBVIOUS
<1>4. ASSUME NEW y \in S PROVE y <= x
  <2>1. n - y \in T
    OBVIOUS
  <2>. QED
    BY <1>2, <1>3, <2>1
<1>. QED
  BY <1>4

\* An edit of a log is made of its fields.
LEMMA EditFacts ==
    ASSUME NEW log \in Seq([op : Ops, t : Txns]), NEW i \in 1 .. Len(log)
    PROVE  log[i] = Edit(log[i].op, log[i].t) /\ log[i].op \in Ops /\ log[i].t \in Txns
<1>1. log[i] \in [op : Ops, t : Txns]
  BY SeqFacts
<1>. QED
  BY <1>1 DEF Edit

\* A transaction with a prepare edit and no abort edit after it is in doubt
\* after the replay, or applied by it: no third case.
LEMMA Replayed ==
    ASSUME NEW log \in Seq([op : Ops, t : Txns]), NEW u \in Txns, NEW i \in 1 .. Len(log),
           log[i] = Edit("COMMIT_REQUEST", u),
           \A k \in i + 1 .. Len(log) : log[k] # Edit("ABORT", u)
    PROVE  u \in preWALRestore(log) \cup replayCommittedTransaction(log)
<1> DEFINE S == {k \in i + 1 .. Len(log) : Ends(log[k], u)}
<1>1. DOMAIN log = 1 .. Len(log) /\ Len(log) \in Nat
  OBVIOUS
<1>2. CASE S = {}
  <2>1. PendingAt(log, u, i, Len(log) + 1)
    BY <1>1, <1>2 DEF PendingAt
  <2>. QED
    BY <1>1, <2>1 DEF preWALRestore
<1>3. CASE S # {}
  <2>1. PICK j \in S : \A k \in S : j <= k
    <3>1. S \subseteq Nat
      OBVIOUS
    <3>. QED
      BY <1>3, <3>1, Least
  <2>2. j \in 1 .. Len(log) /\ i < j /\ Ends(log[j], u) /\ log[j] # Edit("ABORT", u)
    BY <1>1
  <2>3. PendingAt(log, u, i, j)
    <3>1. ASSUME NEW k \in i + 1 .. j - 1, Ends(log[k], u) PROVE FALSE
      <4>1. k \in S
        BY <1>1, <2>2, <3>1
      <4>. QED
        BY <2>1, <2>2, <4>1
    <3>. QED
      BY <2>2, <3>1 DEF PendingAt
  <2>4. log[j] = Edit("COMMIT", u) \/ log[j] = Edit("CONTROL_POINT_COMMIT", u)
    BY <2>2, EditFacts DEF Ends
  <2>. QED
    BY <1>1, <2>2, <2>3, <2>4 DEF replayCommittedTransaction
<1>. QED
  BY <1>2, <1>3

\* A log leaves finitely many transactions in doubt.
LEMMA InDoubtFinite ==
    ASSUME NEW log \in Seq([op : Ops, t : Txns])
    PROVE  IsFiniteSet(preWALRestore(log))
<1> DEFINE S == 1 .. Len(log)
           T == {log[i].t : i \in S}
           f == [i \in S |-> log[i].t]
<1>1. IsFiniteSet(S)
  BY FS_Interval
<1>2. f \in Surjection(S, T)
  BY DEF Surjection
<1>3. IsFiniteSet(T)
  BY <1>1, <1>2, FS_Surjection
<1>4. preWALRestore(log) \subseteq T
  BY DEF preWALRestore, PendingAt, Edit
<1>. QED
  BY <1>3, <1>4, FS_Subset

\* A begin or the check of commitRequest leaves the region in order, and
\* takes away no other transaction.
LEMMA PendRegion ==
    ASSUME NEW g, NEW C, NEW A, Region(g, C, A), g.up, g.built, NEW t \in Txns,
           NEW p \in {"active", "checked"}, p = "checked" => t \in A,
           NEW h, h = Marks(g, t, p)
    PROVE  /\ Region(h, C, A)
           /\ \A u \in Txns : u # t \/ p = "checked" => (Durable(g, u) => Durable(h, u))
           /\ h.log = g.log /\ h.store = g.store /\ h.indoubt = g.indoubt
           /\ \A u \in Txns : h.pend[u] = IF u = t THEN p ELSE g.pend[u]
<1>1. /\ g \in RegionType /\ Good(g) /\ Counted(g) /\ Within(g, C) /\ Asked(g, A)
  BY DEF Region, Good
<1> DEFINE q == [g.pend EXCEPT ![t] = p]
<1>2. q \in [Txns -> {"none", "active", "checked", "pending", "reinstated"}]
  BY <1>1, Types
<1>3. h = [g EXCEPT !.pend = q]
  BY <1>1 DEF RegionType, Marks
<1>4. \A u \in Txns : q[u] = IF u = t THEN p ELSE g.pend[u]
  BY <1>1, Types
<1> HIDE DEF q
<1>5. /\ h \in RegionType /\ h.pend = q
      /\ Same(g, h, {"up", "indoubt", "count", "built", "state", "log", "synced", "store",
           "files"})
  BY <1>1, <1>2, <1>3 DEF Same, RegionType
<1>6. Good(h) /\ Within(h, C)
  BY <1>1, <1>4, <1>5 DEF Good, Within, Same
<1>7. Counted(h)
  BY <1>1, <1>5 DEF Counted, Same, Mine
<1>8. Asked(h, A)
  BY <1>1, <1>4, <1>5 DEF Asked, Same
<1>9. ASSUME NEW u \in Txns, u # t \/ p = "checked", Durable(g, u) PROVE Durable(h, u)
  BY <1>4, <1>5, <1>9 DEF Durable, Held, Logged, Same
<1>. QED
  BY <1>4, <1>5, <1>6, <1>7, <1>8, <1>9 DEF Region, Same

\* The prepare record leaves the region in order, and makes a checked
\* transaction durable.
LEMMA LogRegion ==
    ASSUME NEW g, NEW C, NEW A, Region(g, C, A), NEW t \in Txns, t \in A, NEW h,
           h = PrepareRecord(g, t)
    PROVE  /\ Region(h, C, A)
           /\ \A u \in Txns : Durable(g, u) => Durable(h, u)
           /\ g.pend[t] = "checked" => Durable(h, t)
           /\ h.indoubt = g.indoubt
           /\ \A u \in Txns : u # t => h.pend[u] = g.pend[u]
<1>1. /\ g \in RegionType /\ Good(g) /\ Counted(g) /\ Within(g, C) /\ Asked(g, A)
      /\ g.synced <= Len(g.log)
  BY DEF Region, Good
<1> DEFINE a == appendNoSync(g, "COMMIT_REQUEST", t)
           s == Sync(a)
           q == [g.pend EXCEPT ![t] = IF @ = "checked" THEN "pending" ELSE @]
           e == Edit("COMMIT_REQUEST", t)
<1>2. "COMMIT_REQUEST" \in Ops /\ e \in [op : Ops, t : Txns]
  BY DEF Ops, Edit
<1>3. /\ a \in RegionType /\ a.log = Append(g.log, e)
      /\ Same(g, a, {"up", "pend", "indoubt", "count", "built", "state", "gen", "synced",
           "store", "files"})
  BY <1>1, <1>2, AppendFacts
<1>4. /\ s \in RegionType /\ s.synced = Len(a.log)
      /\ Same(a, s, {"up", "pend", "indoubt", "count", "built", "state", "gen", "log",
           "store", "files"})
  BY <1>3, SyncFacts
<1> HIDE DEF a
<1>5. /\ s \in RegionType /\ s.log = Append(g.log, e) /\ s.synced = Len(s.log)
      /\ Same(g, s, {"up", "pend", "indoubt", "count", "built", "state", "store", "files"})
  BY <1>3, <1>4 DEF Same
<1>6. q \in [Txns -> {"none", "active", "checked", "pending", "reinstated"}]
  BY <1>1, Types
<1>7. h = [s EXCEPT !.pend = q]
  <2>1. s.pend = g.pend
    BY <1>5 DEF Same
  <2>2. h = [s EXCEPT !.pend[t] = IF @ = "checked" THEN "pending" ELSE @]
    BY DEF PrepareRecord, a
  <2> HIDE DEF s
  <2>. QED
    BY <1>5, <2>1, <2>2 DEF RegionType
<1>8. \A u \in Txns : q[u] = IF u = t /\ g.pend[t] = "checked" THEN "pending" ELSE g.pend[u]
  BY <1>1, Types
<1> HIDE DEF q, s
<1>9. /\ h \in RegionType /\ h.pend = q /\ h.log = Append(g.log, e) /\ h.synced = Len(h.log)
      /\ Same(g, h, {"up", "indoubt", "count", "built", "state", "store", "files"})
  <2>1. /\ h \in RegionType /\ h.pend = q
        /\ Same(s, h, {"up", "indoubt", "count", "built", "state", "store", "files", "log",
             "synced"})
    BY <1>5, <1>6, <1>7 DEF Same, RegionType
  <2>. QED
    BY <1>5, <2>1 DEF Same
<1>10. /\ Len(h.log) = Len(g.log) + 1 /\ h.log[Len(g.log) + 1] = e
       /\ \A i \in 1 .. Len(g.log) : h.log[i] = g.log[i]
       /\ Len(g.log) \in Nat /\ g.synced \in Nat
  <2>1. g.log \in Seq([op : Ops, t : Txns]) /\ g.synced \in Nat
    BY <1>1, Types
  <2>. QED
    BY <1>2, <1>9, <2>1
<1>11. Kept(g, h, {e})
  <2>1. \A i \in Len(g.log) + 1 .. Len(h.log) : h.log[i] \in {e}
    BY <1>10
  <2>. QED
    BY <1>1, <1>9, <1>10, <2>1 DEF Kept, Same
<1>12. Good(h)
  <2>1. h.synced <= Len(h.log)
    BY <1>9, <1>10
  <2>2. h.files \subseteq h.store /\ h.indoubt = g.indoubt /\ (g.up /\ g.built =>
            h.up /\ h.built)
    BY <1>1, <1>9 DEF Good, Same
  <2>3. \A u \in Txns : h.pend[u] # "none" => h.up /\ h.built
    BY <1>1, <1>8, <1>9, <2>2 DEF Good
  <2>4. \A u \in Txns : h.pend[u] = "reinstated" => u \in h.indoubt
    <3>1. h.pend = q
      BY <1>9
    <3>2. \A u \in Txns : q[u] = "reinstated" => g.pend[u] = "reinstated"
      BY <1>8
    <3>3. \A u \in Txns : g.pend[u] = "reinstated" => u \in h.indoubt
      BY <1>1, <2>2 DEF Good
    <3>. QED
      BY <3>1, <3>2, <3>3
  <2>. QED
    BY <1>9, <2>1, <2>2, <2>3, <2>4 DEF Good
<1>13. Counted(h)
  BY <1>1, <1>9 DEF Counted, Same, Mine
<1>14. Within(h, C)
  <2>1. \A i \in 1 .. Len(h.log) : h.log[i].op \in Stores => h.log[i].t \in C
    <3> SUFFICES ASSUME NEW i \in 1 .. Len(h.log), h.log[i].op \in Stores PROVE h.log[i].t \in C
      OBVIOUS
    <3>1. i # Len(g.log) + 1
      BY <1>10 DEF Stores, Edit
    <3>. QED
      BY <1>1, <1>10, <3>1 DEF Within
  <2>. QED
    BY <1>1, <1>9, <2>1 DEF Within, Same
<1>15. Asked(h, A)
  <2>1. \A i \in 1 .. Len(h.log) : h.log[i].op = "COMMIT_REQUEST" => h.log[i].t \in A
    <3> SUFFICES ASSUME NEW i \in 1 .. Len(h.log), h.log[i].op = "COMMIT_REQUEST"
                 PROVE  h.log[i].t \in A
      OBVIOUS
    <3>1. CASE i = Len(g.log) + 1
      BY <1>10, <3>1 DEF Edit
    <3>2. CASE i # Len(g.log) + 1
      BY <1>1, <1>10, <3>2 DEF Asked
    <3>. QED
      BY <3>1, <3>2
  <2>2. \A u \in Txns : h.pend[u] \in {"checked", "pending", "reinstated"} => u \in A
    BY <1>1, <1>8, <1>9 DEF Asked
  <2>. QED
    BY <1>1, <1>9, <2>1, <2>2 DEF Asked, Same
<1>16. ASSUME NEW u \in Txns, Durable(g, u) PROVE Durable(h, u)
  <2>1. h.up => Held(h, u)
    BY <1>8, <1>9, <1>16 DEF Durable, Held, Same
  <2>2. Edit("ABORT", u) \notin {e} /\ h.log # <<>>
    BY <1>10 DEF Edit
  <2>3. Logged(h, u)
    <3>1. CASE u \in g.files
      BY <1>9, <3>1 DEF Logged, Same
    <3>2. CASE u \notin g.files
      <4>1. PICK i \in 1 .. g.synced :
              /\ g.log[i] = Edit("COMMIT_REQUEST", u)
              /\ \A k \in i + 1 .. Len(g.log) : g.log[k] # Edit("ABORT", u)
        BY <1>16, <3>2 DEF Durable, Logged
      <4>2. i \in 1 .. h.synced /\ h.log[i] = Edit("COMMIT_REQUEST", u)
        BY <1>1, <1>9, <1>10, <4>1
      <4>3. ASSUME NEW k \in i + 1 .. Len(h.log) PROVE h.log[k] # Edit("ABORT", u)
        <5>1. CASE k = Len(g.log) + 1
          BY <1>10, <5>1 DEF Edit
        <5>2. CASE k # Len(g.log) + 1
          <6>1. k \in i + 1 .. Len(g.log) /\ k \in 1 .. Len(g.log)
            BY <1>10, <4>1, <5>2
          <6>2. h.log[k] = g.log[k]
            BY <1>10, <6>1
          <6>. QED
            BY <4>1, <6>1, <6>2
        <5>. QED
          BY <5>1, <5>2
      <4>. QED
        BY <4>2, <4>3 DEF Logged
    <3>. QED
      BY <3>1, <3>2
  <2>. QED
    BY <2>1, <2>3 DEF Durable
<1>17. g.pend[t] = "checked" => Durable(h, t)
  <2>1. Logged(h, t)
    BY <1>9, <1>10 DEF Logged
  <2>. QED
    BY <1>8, <1>9, <2>1 DEF Durable, Held
<1>. QED
  BY <1>8, <1>9, <1>12, <1>13, <1>14, <1>15, <1>16, <1>17 DEF Region, Same

\* A flush leaves the region in order; it takes the prepare edits with it,
\* which is noted.
LEMMA FlushRegion ==
    ASSUME NEW g, NEW C, NEW A, Region(g, C, A), NEW h, h = flushcache(g)
    PROVE  /\ Region(h, C, A)
           /\ \A u \in Txns : Durable(g, u) => Durable(h, u) \/ Drops(g, h, u)
           /\ h.indoubt = g.indoubt /\ h.pend = g.pend
<1>1. /\ g \in RegionType /\ Good(g) /\ Counted(g) /\ Within(g, C) /\ Asked(g, A)
  BY DEF Region, Good
<1>2. /\ h \in RegionType /\ h.synced = 0 /\ h.log = <<>> /\ h.files = g.store
      /\ Same(g, h, {"up", "pend", "indoubt", "count", "built", "state", "gen", "store"})
  BY <1>1, FlushFacts
<1>3. Len(h.log) = 0
  BY <1>2
<1>4. Good(h) /\ Within(h, C) /\ Asked(h, A)
  BY <1>1, <1>2, <1>3 DEF Good, Within, Asked, Same
<1>5. Counted(h)
  BY <1>1, <1>2 DEF Counted, Same, Mine
<1>6. ASSUME NEW u \in Txns, Durable(g, u) PROVE Durable(h, u) \/ Drops(g, h, u)
  <2>1. h.up => Held(h, u)
    BY <1>2, <1>6 DEF Durable, Held, Same
  <2>2. Kept(g, h, {}) /\ g.store \subseteq h.store
    BY <1>2 DEF Kept, Same
  <2>3. Logged(h, u) \/ Drops(g, h, u)
    BY <1>1, <1>2, <1>6, <2>2, KeptLogged DEF Durable
  <2>. QED
    BY <2>1, <2>3 DEF Durable
<1>. QED
  BY <1>2, <1>4, <1>5, <1>6 DEF Region, Same

\* What a closed region is.
LEMMA ClosedFacts ==
    ASSUME NEW files, files \subseteq Txns, NEW log \in Seq([op : Ops, t : Txns]), NEW h,
           h = Closed(files, log)
    PROVE  h \in RegionType /\ Down(h, files, log)
<1>1. Len(log) \in Nat
  OBVIOUS
<1>. QED
  BY <1>1 DEF Closed, Down, RegionType

\* Nothing in doubt: nothing of any TM.
LEMMA NoneMine ==
    ASSUME NEW g, g.indoubt = {}
    PROVE  IsFiniteSet(g.indoubt) /\ \A m : Cardinality(Mine(g, m)) = 0
<1>1. \A m : Mine(g, m) = {}
  BY DEF Mine
<1>. QED
  BY <1>1, FS_EmptySet

\* A crash that keeps the synced part of the log leaves the region in order,
\* and takes no durable transaction from it.
LEMMA CrashRegion ==
    ASSUME NEW g, NEW C, NEW A, Region(g, C, A), NEW n \in g.synced .. Len(g.log), NEW h,
           h = Closed(g.files, SubSeq(g.log, 1, n))
    PROVE  /\ Region(h, C, A)
           /\ \A u \in Txns : Durable(g, u) => Durable(h, u)
           /\ h.indoubt = {}
<1>1. /\ g \in RegionType /\ Good(g) /\ Counted(g) /\ Within(g, C) /\ Asked(g, A)
      /\ g.files \subseteq g.store
  BY DEF Region, Good
<1>2. /\ g.log \in Seq([op : Ops, t : Txns]) /\ Len(g.log) \in Nat /\ g.synced \in Nat
      /\ g.files \subseteq Txns
  BY <1>1, Types
<1> DEFINE log == SubSeq(g.log, 1, n)
<1>3. /\ log \in Seq([op : Ops, t : Txns]) /\ Len(log) = n
      /\ \A i \in 1 .. n : log[i] = g.log[i] /\ i \in 1 .. Len(g.log)
  <2>1. n \in 0 .. Len(g.log)
    BY <1>2
  <2>. QED
    BY <1>2, <2>1, PrefixFacts
<1>4. h = Closed(g.files, log)
  OBVIOUS
<1> HIDE DEF log
<1>5. h \in RegionType /\ Down(h, g.files, log)
  <2>1. g.files \subseteq Txns /\ log \in Seq([op : Ops, t : Txns])
    BY <1>2, <1>3
  <2>. QED
    BY <1>4, <2>1, ClosedFacts
<1>6. Good(h) /\ Within(h, C) /\ Asked(h, A)
  <2>1. h.synced <= Len(h.log)
    BY <1>2, <1>3, <1>5 DEF Down
  <2>2. Good(h)
    BY <1>5, <2>1 DEF Down, Good
  <2>3. Within(h, C)
    BY <1>1, <1>3, <1>5 DEF Down, Within
  <2>4. Asked(h, A)
    BY <1>1, <1>3, <1>5 DEF Down, Asked
  <2>. QED
    BY <2>2, <2>3, <2>4
<1>7. Counted(h)
  BY <1>5, NoneMine DEF Down, Counted
<1>8. ASSUME NEW u \in Txns, Durable(g, u) PROVE Durable(h, u)
  <2>1. CASE u \in g.files
    BY <1>5, <2>1 DEF Down, Durable, Logged
  <2>2. CASE u \notin g.files
    <3>1. PICK i \in 1 .. g.synced :
            /\ g.log[i] = Edit("COMMIT_REQUEST", u)
            /\ \A k \in i + 1 .. Len(g.log) : g.log[k] # Edit("ABORT", u)
      BY <1>8, <2>2 DEF Durable, Logged
    <3>2. i \in 1 .. h.synced /\ h.log[i] = Edit("COMMIT_REQUEST", u)
      BY <1>2, <1>3, <1>5, <3>1 DEF Down
    <3>3. \A k \in i + 1 .. Len(h.log) : h.log[k] # Edit("ABORT", u)
      BY <1>2, <1>3, <1>5, <3>1 DEF Down
    <3>. QED
      BY <1>5, <3>2, <3>3 DEF Down, Durable, Logged
  <2>. QED
    BY <2>1, <2>2
<1>. QED
  BY <1>5, <1>6, <1>7, <1>8 DEF Down, Region

\* The region when the replay has come to an end with st in the store.
Opened(g, st) ==
    [g EXCEPT
        !.up = TRUE,
        !.store = st,
        !.indoubt = preWALRestore(g.log),
        !.count = [m \in TMs |-> Cardinality({t \in preWALRestore(g.log) : TmOf[t] = m})]]

\* When the region is opened it is in order, and a durable transaction is in
\* the table or in doubt; HBase may restore the edits of x too.
LEMMA OpenRegion ==
    ASSUME NEW g, NEW C, NEW A, Region(g, C, A), ~g.up, NEW x \in SUBSET Txns, x \subseteq C,
           NEW st, st = g.store \cup replayCommittedTransaction(g.log) \cup x,
           NEW h, h = Opened(g, st)
    PROVE  /\ Region(h, C, A)
           /\ \A u \in Txns : Durable(g, u) => Durable(h, u)
           /\ h.indoubt = preWALRestore(g.log) /\ h.log = g.log
           /\ h.pend = g.pend
<1>1. /\ g \in RegionType /\ Good(g) /\ Counted(g) /\ Within(g, C) /\ Asked(g, A)
      /\ g.synced <= Len(g.log) /\ g.files \subseteq g.store
  BY DEF Region, Good
<1>2. /\ g.log \in Seq([op : Ops, t : Txns]) /\ Len(g.log) \in Nat /\ g.synced \in Nat
      /\ g.store \subseteq Txns /\ DOMAIN g.log = 1 .. Len(g.log)
  BY <1>1, Types
<1> DEFINE d == preWALRestore(g.log)
           s == g.store \cup replayCommittedTransaction(g.log) \cup x
           c == [m \in TMs |-> Cardinality({t \in d : TmOf[t] = m})]
<1>3. d \subseteq A /\ d \subseteq Txns
  BY <1>1, <1>2 DEF preWALRestore, PendingAt, Asked, Edit
<1>4. s \subseteq C /\ s \subseteq Txns
  BY <1>1, <1>2 DEF replayCommittedTransaction, Within, Edit, Stores
<1>5. IsFiniteSet(d)
  BY <1>2, InDoubtFinite
<1>6. c \in [TMs -> Nat]
  <2>1. \A m : {t \in d : TmOf[t] = m} \subseteq d
    OBVIOUS
  <2> HIDE DEF d
  <2>. QED
    BY <1>5, <2>1, FS_Subset, FS_CardinalityType
<1>7. \A u \in Txns : Logged(g, u) => u \in s \cup d
  <2> SUFFICES ASSUME NEW u \in Txns, Logged(g, u), u \notin g.files PROVE u \in s \cup d
    BY <1>1
  <2>1. PICK i \in 1 .. g.synced :
          /\ g.log[i] = Edit("COMMIT_REQUEST", u)
          /\ \A k \in i + 1 .. Len(g.log) : g.log[k] # Edit("ABORT", u)
    BY DEF Logged
  <2>2. i \in 1 .. Len(g.log)
    BY <1>1, <1>2
  <2>. QED
    BY <1>2, <2>1, <2>2, Replayed
<1>8. h = [g EXCEPT !.up = TRUE, !.store = s, !.indoubt = d, !.count = c]
  BY <1>1 DEF RegionType, Opened
<1>9. \A m \in TMs : c[m] = Cardinality({t \in d : TmOf[t] = m})
  OBVIOUS
<1> HIDE DEF d, s, c
<1>10. /\ h \in RegionType /\ h.up /\ h.store = s /\ h.indoubt = d /\ h.count = c
       /\ Same(g, h, {"pend", "built", "state", "log", "synced", "files"})
  BY <1>1, <1>3, <1>4, <1>6, <1>8 DEF Same, RegionType
<1>11. \A u \in Txns : h.pend[u] = "none"
  BY <1>1, <1>10 DEF Good, Same
<1>12. h.synced <= Len(h.log) /\ h.files \subseteq h.store
  BY <1>1, <1>10 DEF Same, s
<1>13. Good(h)
  BY <1>10, <1>11, <1>12 DEF Good
<1>14. Counted(h)
  <2>1. h.state = 0
    BY <1>1, <1>10 DEF Counted, Same
  <2>. QED
    <3>1. \A m \in TMs : Mine(h, m) = {t \in d : TmOf[t] = m}
      BY <1>10 DEF Mine
    <3>2. \A m \in TMs : h.count[m] = Cardinality(Mine(h, m))
      BY <1>9, <1>10, <3>1
    <3>. QED
      BY <1>5, <1>10, <2>1, <3>2 DEF Counted
<1>15. Within(h, C) /\ Asked(h, A)
  <2>1. h.log = g.log
    BY <1>10 DEF Same
  <2>2. Within(h, C)
    BY <1>1, <1>4, <1>10, <2>1 DEF Within
  <2>3. Asked(h, A)
    BY <1>1, <1>3, <1>10, <1>11, <2>1 DEF Asked
  <2>. QED
    BY <2>2, <2>3
<1>16. ASSUME NEW u \in Txns, Durable(g, u) PROVE Durable(h, u)
  <2>1. Held(h, u)
    BY <1>7, <1>10, <1>16 DEF Durable, Held
  <2>2. h.files = g.files /\ h.log = g.log /\ h.synced = g.synced
    BY <1>10 DEF Same
  <2>3. Logged(g, u)
    BY <1>16 DEF Durable
  <2>4. Logged(h, u)
    <3>1. CASE u \in g.files
      BY <2>2, <3>1 DEF Logged
    <3>2. CASE u \notin g.files
      <4>1. PICK i \in 1 .. g.synced :
              /\ g.log[i] = Edit("COMMIT_REQUEST", u)
              /\ \A k \in i + 1 .. Len(g.log) : g.log[k] # Edit("ABORT", u)
        BY <2>3, <3>2 DEF Logged
      <4>2. /\ i \in 1 .. h.synced /\ h.log[i] = Edit("COMMIT_REQUEST", u)
            /\ \A k \in i + 1 .. Len(h.log) : h.log[k] # Edit("ABORT", u)
        BY <2>2, <4>1
      <4>. QED
        BY <4>2 DEF Logged
    <3>. QED
      BY <3>1, <3>2
  <2>. QED
    BY <2>1, <2>4 DEF Durable
<1>. QED
  BY <1>10, <1>13, <1>14, <1>15, <1>16 DEF Region, Same, d

\* Region is monotone in the committed and the begun transactions.
LEMMA RegionGrows ==
    ASSUME NEW g, NEW C, NEW A, NEW D, NEW B, Region(g, C, A), C \subseteq D, A \subseteq B
    PROVE  Region(g, D, B)
  BY DEF Region, Within, Asked

\* The effect of a step that replaces one region.
LEMMA PutEffect ==
    ASSUME TypeOK, RegionsInv, AnnouncedInv, NEW r \in Regions, NEW h, NEW X, NEW Y,
           Puts(r, h), dropped \subseteq dropped', Region(h, Allowed(r, restored'), Begun),
           restored \subseteq restored',
           \A u \in Txns : <<r, u>> \notin X /\ Durable(reg[r], u) =>
               Durable(h, u) \/ <<u, r>> \in dropped',
           \A u \in h.indoubt : <<TmOf[u], r>> \in znode',
           \A s \in Regions, u \in Txns : s # r /\ <<TmOf[u], s>> \in znode => <<TmOf[u],
               s>> \in znode',
           \A u \in Txns : <<r, u>> \notin Y /\ reg[r].pend[u] = "checked" =>
               h.pend[u] = "checked"
    PROVE  Effect(X, Y)
<1>1. reg'[r] = h /\ \A s \in Regions : s # r => reg'[s] = reg[s]
  BY DEF Puts, TypeOK
<1>2. Sound
  <2>1. h \in RegionType
    BY DEF Region, Good
  <2>2. reg' \in [Regions -> RegionType]
    BY <2>1 DEF Puts, TypeOK
  <2>3. ASSUME NEW s \in Regions, s # r PROVE Region(reg'[s], Allowed(s, restored'), Begun)
    <3>1. Region(reg[s], Allowed(s, restored), Begun) /\ Begun \subseteq Begun
      BY DEF RegionsInv
    <3>2. Allowed(s, restored) \subseteq Allowed(s, restored')
      BY DEF Allowed
    <3>. QED
      BY <1>1, <2>3, <3>1, <3>2, RegionGrows
  <2>. QED
    BY <1>1, <2>2, <2>3 DEF Sound
<1>3. Keeps(X)
  BY <1>1 DEF Keeps
<1>4. Posts
  <2> SUFFICES ASSUME NEW s \in Regions, NEW u \in reg'[s].indoubt PROVE <<TmOf[u],
      s>> \in znode'
    BY DEF Posts
  <2>1. CASE s = r
    BY <1>1, <2>1
  <2>2. CASE s # r
    <3>1. u \in reg[s].indoubt /\ reg[s] \in RegionType
      BY <1>1, <2>2 DEF TypeOK
    <3>2. u \in Txns /\ <<TmOf[u], s>> \in znode
      BY <3>1, Types DEF AnnouncedInv
    <3>. QED
      BY <2>2, <3>2
  <2>. QED
    BY <2>1, <2>2
<1>5. Frame(Y)
  BY <1>1 DEF Frame
<1>. QED
  BY <1>2, <1>3, <1>4, <1>5 DEF Effect

\* The effect of SetRegion.
LEMMA SetEffect ==
    ASSUME TypeOK, RegionsInv, AnnouncedInv, NEW r \in Regions, NEW h, NEW X, NEW Y,
           SetRegion(r, h), Region(h, Allowed(r, restored'), Begun),
           restored \subseteq restored',
           \A u \in Txns : <<r, u>> \notin X /\ Durable(reg[r], u) =>
               Durable(h, u) \/ Drops(reg[r], h, u),
           \A u \in h.indoubt : <<TmOf[u], r>> \in znode',
           \A s \in Regions, u \in Txns : s # r /\ <<TmOf[u], s>> \in znode => <<TmOf[u],
               s>> \in znode',
           \A u \in Txns : <<r, u>> \notin Y /\ reg[r].pend[u] = "checked" =>
               h.pend[u] = "checked"
    PROVE  Effect(X, Y)
<1>1. /\ Puts(r, h) /\ dropped \subseteq dropped'
      /\ \A u \in Txns : Drops(reg[r], h, u) => <<u, r>> \in dropped'
  BY DEF SetRegion, Drops, Puts
<1>2. \A u \in Txns : <<r, u>> \notin X /\ Durable(reg[r], u) =>
         Durable(h, u) \/ <<u, r>> \in dropped'
  BY <1>1
<1>. QED
  BY <1>1, <1>2, PutEffect

\* The effect of a step that leaves the regions alone.
LEMMA NoEffect ==
    ASSUME TypeOK, RegionsInv, AnnouncedInv, UNCHANGED <<reg, dropped, restored>>,
           znode \subseteq znode'
    PROVE  Effect({}, {})
<1>1. Sound
  BY DEF Sound, RegionsInv, TypeOK
<1>2. Keeps({}) /\ Frame({})
  BY DEF Keeps, Frame
<1>3. Posts
  BY DEF Posts, AnnouncedInv
<1>. QED
  BY <1>1, <1>2, <1>3 DEF Effect

\* The effect of a request of phase two: a commit takes nothing away, an
\* abort only the transaction; the zNode goes only with the last transaction
\* in doubt of its TM.
LEMMA ExecuteEffect ==
    ASSUME TypeOK, RegionsInv, AnnouncedInv, NEW r \in Regions, NEW t \in Txns, NEW op,
           op = "commit" => t \in Committed, Execute(r, op, t), restored' = restored
    PROVE  Effect(IF op = "commit" THEN {} ELSE {<<r, t>>}, {<<r, t>>})
<1> DEFINE g == reg[r]
           h == IF op = "commit" THEN commit(g, t) ELSE abortTransaction(g, t)
           X == IF op = "commit" THEN {} ELSE {<<r, t>>}
<1>1. CASE ~Known(r, op, t)
  <2>1. Effect({}, {})
    BY <1>1, NoEffect DEF Execute
  <2>. QED
    BY <2>1 DEF Effect, Keeps, Frame
<1>2. CASE Known(r, op, t)
  <2>1. SetRegion(r, h) /\ znode' = deleteRecoveryzNode(r, g, h, t)
    BY <1>2 DEF Execute
  <2>0. op = "commit" => t \in Allowed(r, restored)
    BY DEF Allowed
  <2>2. g.pend[t] # "none" /\ Region(g, Allowed(r, restored), Begun) /\ g \in RegionType
    <3>1. g.pend[t] # "none"
      BY <1>2 DEF Known
    <3>. QED
      BY <3>1 DEF RegionsInv, TypeOK
  <2>3. /\ Region(h, Allowed(r, restored), Begun) /\ h.indoubt \subseteq g.indoubt
        /\ \A u \in Txns : u # t => h.pend[u] = g.pend[u]
        /\ \A u \in Txns : <<r, u>> \notin X /\ Durable(g, u) => Durable(h, u) \/ Drops(g, h, u)
    <3> HIDE DEF g
    <3>1. CASE op = "commit"
      <4>1. h = commit(g, t)
        BY <3>1
      <4> HIDE DEF h
      <4>. QED
        BY <2>0, <2>2, <3>1, <4>1, CommitRegion
    <3>2. CASE op # "commit"
      <4>1. h = abortTransaction(g, t) /\ X = {<<r, t>>}
        BY <3>2
      <4> HIDE DEF h, X
      <4>. QED
        BY <2>2, <3>2, <4>1, AbortRegion
    <3>. QED
      BY <3>1, <3>2
  <2> HIDE DEF h, X
  <2>4. \A u \in h.indoubt : <<TmOf[u], r>> \in znode'
    <3> SUFFICES ASSUME NEW u \in h.indoubt PROVE <<TmOf[u], r>> \in znode'
      OBVIOUS
    <3>1. <<TmOf[u], r>> \in znode /\ u \in Txns /\ TmOf[u] \in TMs /\ TmOf[t] \in TMs
      BY <2>2, <2>3, Types, ConstantAssumption DEF AnnouncedInv
    <3>2. h.count[TmOf[t]] = 0 => TmOf[u] # TmOf[t]
      <4> SUFFICES ASSUME h.count[TmOf[t]] = 0, TmOf[u] = TmOf[t] PROVE FALSE
        OBVIOUS
      <4>1. Counted(h)
        BY <2>3 DEF Region
      <4>2. Mine(h, TmOf[t]) \subseteq h.indoubt /\ u \in Mine(h, TmOf[t])
        BY DEF Mine
      <4>3. IsFiniteSet(Mine(h, TmOf[t])) /\ Cardinality(Mine(h, TmOf[t])) = 0
        BY <3>1, <4>1, <4>2, FS_Subset DEF Counted
      <4>. QED
        BY <4>2, <4>3, FS_EmptySet
    <3>. QED
      BY <2>1, <3>1, <3>2 DEF deleteRecoveryzNode
  <2>5. \A s \in Regions, u \in Txns : s # r /\ <<TmOf[u], s>> \in znode => <<TmOf[u],
            s>> \in znode'
    BY <2>1 DEF deleteRecoveryzNode
  <2>6. \A u \in Txns : <<r, u>> \notin {<<r, t>>} /\ g.pend[u] = "checked" =>
            h.pend[u] = "checked"
    BY <2>3
  <2>7. Effect(X, {<<r, t>>})
    BY <2>1, <2>3, <2>4, <2>5, <2>6, SetEffect
  <2>. QED
    BY <2>7 DEF X
<1>. QED
  BY <1>1, <1>2

\* The effect of beginTransaction.
LEMMA BeginEffect ==
    ASSUME TypeOK, RegionsInv, AnnouncedInv, NEW r \in Regions, NEW t \in Txns,
           beginTransaction(r, t)
    PROVE  Effect({<<r, t>>}, {<<r, t>>})
<1>0. PICK p \in {"active", "checked"} : p = "active"
  OBVIOUS
<1> DEFINE g == reg[r]
           c == constructIndoubtTransactions(g)
           h == Marks(c, t, p)
<1>1. SetRegion(r, h) /\ g.up /\ znode' = znode /\ restored' = restored
  BY <1>0 DEF beginTransaction, Marks
<1>2. Region(g, Allowed(r, restored), Begun)
  BY DEF RegionsInv
<1>3. /\ Region(c, Allowed(r, restored), Begun)
      /\ \A u \in Txns : Durable(g, u) => Durable(c, u) \/ Drops(g, c, u)
      /\ c.indoubt = g.indoubt /\ c.up /\ c.built
      /\ \A u \in Txns : g.pend[u] # "none" => c.pend[u] = g.pend[u]
  BY <1>1, <1>2, ConstructRegion
<1> HIDE DEF c, g
<1>4. /\ Region(h, Allowed(r, restored), Begun)
      /\ \A u \in Txns : u # t \/ p = "checked" => (Durable(c, u) => Durable(h, u))
      /\ h.log = c.log /\ h.store = c.store /\ h.indoubt = c.indoubt
      /\ \A u \in Txns : h.pend[u] = IF u = t THEN p ELSE c.pend[u]
  <2>1. p \in {"active", "checked"} /\ (p = "checked" => t \in Begun)
    BY <1>0
  <2>2. Region(c, Allowed(r, restored), Begun) /\ c.up /\ c.built
    BY <1>3
  <2>. QED
    BY <2>1, <2>2, PendRegion
<1> HIDE DEF h
<1>5. \A u \in Txns : <<r, u>> \notin {<<r, t>>} /\ Durable(g, u) => Durable(h,
          u) \/ Drops(g, h, u)
  BY <1>3, <1>4 DEF Drops
<1>6. \A u \in h.indoubt : <<TmOf[u], r>> \in znode'
  BY <1>1, <1>3, <1>4 DEF AnnouncedInv, g
<1>7. \A u \in Txns : <<r, u>> \notin {<<r, t>>} /\ g.pend[u] = "checked" =>
          h.pend[u] = "checked"
  BY <1>3, <1>4
<1>. QED
  BY <1>1, <1>4, <1>5, <1>6, <1>7, SetEffect DEF g

\* The effect of commitRequest up to the release of the lock.
LEMMA RequestEffect ==
    ASSUME TypeOK, RegionsInv, AnnouncedInv, NEW r \in Regions, NEW t \in Txns,
           commitRequest(r, t)
    PROVE  Effect({}, {})
<1> DEFINE g == reg[r]
           h == Marks(g, t, "checked")
<1>1. /\ Puts(r, h) /\ g.up /\ znode' = znode /\ dropped' = dropped /\ restored' = restored
      /\ g.pend[t] = "active" /\ t \in Begun
  BY DEF commitRequest, Begun, Puts, Marks
<1>2. Region(g, Allowed(r, restored), Begun) /\ g.built
  BY <1>1 DEF RegionsInv, Region, Good
<1> HIDE DEF g
<1>3. /\ Region(h, Allowed(r, restored), Begun)
      /\ \A u \in Txns : u # t \/ "checked" = "checked" => (Durable(g, u) => Durable(h, u))
      /\ h.log = g.log /\ h.store = g.store /\ h.indoubt = g.indoubt
      /\ \A u \in Txns : h.pend[u] = IF u = t THEN "checked" ELSE g.pend[u]
  BY <1>1, <1>2, PendRegion
<1> HIDE DEF h
<1>4. \A u \in Txns : <<r, u>> \notin {} /\ Durable(g, u) => Durable(h, u) \/ <<u,
          r>> \in dropped'
  BY <1>3
<1>5. \A u \in h.indoubt : <<TmOf[u], r>> \in znode'
  BY <1>1, <1>3 DEF AnnouncedInv, g
<1>6. \A u \in Txns : <<r, u>> \notin {} /\ g.pend[u] = "checked" => h.pend[u] = "checked"
  BY <1>3
<1>7. /\ dropped \subseteq dropped'
      /\ \A s \in Regions, u \in Txns : s # r /\ <<TmOf[u], s>> \in znode =>
            <<TmOf[u], s>> \in znode'
  BY <1>1
<1>. QED
  BY <1>1, <1>3, <1>4, <1>5, <1>6, <1>7, PutEffect DEF g

\* The effect of the rest of commitRequest: the voter is durable.
LEMMA LogEffect ==
    ASSUME TypeOK, RegionsInv, AnnouncedInv, LoggingInv, NEW r \in Regions, NEW t \in Txns,
           LogCommitRequest(r, t)
    PROVE  /\ Effect({}, {<<r, t>>})
           /\ reg[r].pend[t] = "checked" => Durable(reg'[r], t)
<1> DEFINE g == reg[r]
           h == PrepareRecord(g, t)
<1>1. Puts(r, h) /\ znode' = znode /\ dropped' = dropped /\ restored' = restored
  BY DEF LogCommitRequest, Puts
<1>0. <<r, t>> \in logging
  BY DEF LogCommitRequest
<1>2. Region(g, Allowed(r, restored), Begun) /\ t \in Begun
  BY <1>0 DEF RegionsInv, LoggingInv, Begun
<1> HIDE DEF g
<1>3. /\ Region(h, Allowed(r, restored), Begun)
      /\ \A u \in Txns : Durable(g, u) => Durable(h, u)
      /\ g.pend[t] = "checked" => Durable(h, t)
      /\ h.indoubt = g.indoubt
      /\ \A u \in Txns : u # t => h.pend[u] = g.pend[u]
  BY <1>2, LogRegion
<1> HIDE DEF h
<1>4. \A u \in Txns : <<r, u>> \notin {} /\ Durable(g, u) => Durable(h, u) \/ <<u,
          r>> \in dropped'
  BY <1>3
<1>5. \A u \in h.indoubt : <<TmOf[u], r>> \in znode'
  BY <1>1, <1>3 DEF AnnouncedInv, g
<1>6. \A u \in Txns : <<r, u>> \notin {<<r, t>>} /\ g.pend[u] = "checked" =>
          h.pend[u] = "checked"
  BY <1>3
<1>7. Effect({}, {<<r, t>>})
  <2>1. /\ dropped \subseteq dropped'
        /\ \A s \in Regions, u \in Txns : s # r /\ <<TmOf[u], s>> \in znode =>
              <<TmOf[u], s>> \in znode'
    BY <1>1
  <2>. QED
    BY <1>1, <1>3, <1>4, <1>5, <1>6, <2>1, PutEffect DEF g
<1>8. reg'[r] = h
  BY <1>1 DEF Puts, TypeOK
<1>. QED
  BY <1>3, <1>7, <1>8 DEF g

\* The effect of a flush.
LEMMA FlushEffect ==
    ASSUME TypeOK, RegionsInv, AnnouncedInv, NEW r \in Regions, Flush(r)
    PROVE  Effect({}, {})
<1> DEFINE g == reg[r]
           h == flushcache(g)
<1>1. /\ SetRegion(r, h) /\ znode' = znode /\ restored' = restored
      /\ Region(g, Allowed(r, restored), Begun)
  BY DEF Flush, RegionsInv
<1> HIDE DEF g
<1>2. /\ Region(h, Allowed(r, restored), Begun)
      /\ \A u \in Txns : Durable(g, u) => Durable(h, u) \/ Drops(g, h, u)
      /\ h.indoubt = g.indoubt /\ h.pend = g.pend
  BY <1>1, FlushRegion
<1> HIDE DEF h
<1>3. \A u \in h.indoubt : <<TmOf[u], r>> \in znode'
  BY <1>1, <1>2 DEF AnnouncedInv, g
<1>. QED
  BY <1>1, <1>2, <1>3, SetEffect DEF g

\* The effect of a crash of the server.
LEMMA CrashEffect ==
    ASSUME TypeOK, RegionsInv, AnnouncedInv, NEW r \in Regions, Crash(r)
    PROVE  Effect({}, {r} \X Txns)
<1> DEFINE g == reg[r]
<1>1. PICK n \in g.synced .. Len(g.log) :
         reg' = [reg EXCEPT ![r] = Closed(g.files, SubSeq(g.log, 1, n))]
  BY DEF Crash
<1> DEFINE h == Closed(g.files, SubSeq(g.log, 1, n))
<1>2. /\ Puts(r, h) /\ znode' = znode /\ dropped' = dropped /\ restored' = restored
      /\ Region(g, Allowed(r, restored), Begun)
  BY <1>1 DEF Crash, RegionsInv, Puts
<1> HIDE DEF g
<1>3. /\ Region(h, Allowed(r, restored), Begun)
      /\ \A u \in Txns : Durable(g, u) => Durable(h, u)
      /\ h.indoubt = {}
  BY <1>2, CrashRegion
<1> HIDE DEF h
<1>4. \A u \in Txns : <<r, u>> \notin {} /\ Durable(g, u) => Durable(h, u) \/ <<u,
          r>> \in dropped'
  BY <1>3
<1>5. \A u \in Txns : <<r, u>> \notin {r} \X Txns /\ g.pend[u] = "checked" =>
          h.pend[u] = "checked"
  OBVIOUS
<1>. QED
  BY <1>2, <1>3, <1>4, <1>5, PutEffect DEF g

\* The effect of opening the region again.
LEMMA OpenEffect ==
    ASSUME TypeOK, RegionsInv, AnnouncedInv, NEW r \in Regions, postOpen(r)
    PROVE  Effect({}, {})
<1> DEFINE g == reg[r]
           d == preWALRestore(g.log)
           replayed == g.store \cup replayCommittedTransaction(g.log)
           extra == RestoredEdits(g.log) \ replayed
<1>1. PICK toss \in BOOLEAN, restores \in BOOLEAN :
         LET o == Opened(g, IF restores THEN replayed \cup extra ELSE replayed)
         IN /\ SetRegion(r, IF toss THEN flushcache(o) ELSE o)
            /\ znode' = znode \cup {<<TmOf[t], r>> : t \in d}
            /\ restored' = IF restores THEN restored \cup {<<t, r>> : t \in extra}
                                       ELSE restored
  BY DEF postOpen, Opened
<1>2. ~g.up /\ Region(g, Allowed(r, restored), Begun) /\ g \in RegionType
  BY DEF postOpen, RegionsInv, TypeOK
<1> DEFINE x == IF restores THEN extra ELSE {}
           o == Opened(g, replayed \cup x)
<1>7. x \subseteq Txns
  BY <1>2, Types DEF RestoredEdits
<1>8. /\ SetRegion(r, IF toss THEN flushcache(o) ELSE o)
      /\ znode' = znode \cup {<<TmOf[t], r>> : t \in d}
      /\ restored' = restored \cup {<<t, r>> : t \in x}
  <2>1. CASE restores
    BY <1>1, <2>1
  <2>2. CASE ~restores
    <3>1. x = {} /\ replayed \cup x = replayed
      BY <2>2
    <3>. QED
      BY <1>1, <2>2, <3>1
  <2>. QED
    BY <2>1, <2>2
<1> HIDE DEF x
<1>9. /\ restored \subseteq restored' /\ x \subseteq Allowed(r, restored')
      /\ Allowed(r, restored) \subseteq Allowed(r, restored')
  BY <1>7, <1>8 DEF Allowed
<1>10. Region(g, Allowed(r, restored'), Begun)
  <2>1. Begun \subseteq Begun
    OBVIOUS
  <2>. QED
    BY <1>2, <1>9, <2>1, RegionGrows
<1> HIDE DEF g
<1>3. /\ Region(o, Allowed(r, restored'), Begun)
      /\ \A u \in Txns : Durable(g, u) => Durable(o, u)
      /\ o.indoubt = d /\ o.log = g.log /\ o.pend = g.pend
  <2> DEFINE st == replayed \cup x
  <2>1. o = Opened(g, st) /\ st = g.store \cup replayCommittedTransaction(g.log) \cup x
    OBVIOUS
  <2>3. x \in SUBSET Txns
    BY <1>7
  <2> HIDE DEF o, st
  <2>2. ASSUME NEW C, NEW A, Region(g, C, A), x \subseteq C
        PROVE  /\ Region(o, C, A)
               /\ \A u \in Txns : Durable(g, u) => Durable(o, u)
               /\ o.indoubt = preWALRestore(g.log) /\ o.log = g.log /\ o.pend = g.pend
    BY <1>2, <2>1, <2>2, <2>3, OpenRegion
  <2>. QED
    BY <1>9, <1>10, <2>2
<1> HIDE DEF o, d
<1>4. \A s \in Regions, u \in Txns : s # r /\ <<TmOf[u], s>> \in znode => <<TmOf[u],
          s>> \in znode'
  BY <1>8
<1>5. CASE toss
  <2> DEFINE h == flushcache(o)
  <2>1. /\ Region(h, Allowed(r, restored'), Begun)
        /\ \A u \in Txns : Durable(o, u) => Durable(h, u) \/ Drops(o, h, u)
        /\ h.indoubt = o.indoubt /\ h.pend = o.pend
    BY <1>3, FlushRegion
  <2>2. SetRegion(r, h)
    BY <1>8, <1>5
  <2> HIDE DEF h
  <2>3. \A u \in Txns : <<r, u>> \notin {} /\ Durable(g, u) => Durable(h, u) \/ Drops(g, h, u)
    BY <1>3, <2>1 DEF Drops
  <2>4. \A u \in h.indoubt : <<TmOf[u], r>> \in znode'
    BY <1>8, <1>3, <2>1
  <2>5. \A u \in Txns : <<r, u>> \notin {} /\ g.pend[u] = "checked" => h.pend[u] = "checked"
    BY <1>3, <2>1
  <2>. QED
    BY <1>4, <1>9, <2>1, <2>2, <2>3, <2>4, <2>5, SetEffect DEF g
<1>6. CASE ~toss
  <2>1. SetRegion(r, o)
    BY <1>8, <1>6
  <2>2. \A u \in Txns : <<r, u>> \notin {} /\ Durable(g, u) => Durable(o, u) \/ Drops(g, o, u)
    BY <1>3
  <2>3. \A u \in o.indoubt : <<TmOf[u], r>> \in znode'
    BY <1>8, <1>3
  <2>4. \A u \in Txns : <<r, u>> \notin {} /\ g.pend[u] = "checked" => o.pend[u] = "checked"
    BY <1>3
  <2>. QED
    BY <1>3, <1>4, <1>9, <2>1, <2>2, <2>3, <2>4, SetEffect DEF g
<1>. QED
  BY <1>5, <1>6

\* The effect of recoveryRequest: the zNode goes only when nothing is in
\* doubt.
LEMMA RecoveryEffect ==
    ASSUME TypeOK, RegionsInv, AnnouncedInv, NEW m \in TMs, NEW r \in Regions,
           recoveryRequest(m, r)
    PROVE  Effect({}, {})
<1> DEFINE g == reg[r]
           c == constructIndoubtTransactions(g)
<1>1. CASE ~g.up
  BY <1>1, NoEffect DEF recoveryRequest
<1>2. CASE g.up
  <2>1. /\ SetRegion(r, c) /\ restored' = restored
        /\ znode' = IF c.state = 2 THEN znode \ {<<m, r>>} ELSE znode
    BY <1>2 DEF recoveryRequest
  <2>2. Region(g, Allowed(r, restored), Begun)
    BY DEF RegionsInv
  <2> HIDE DEF g
  <2>3. /\ Region(c, Allowed(r, restored), Begun)
        /\ \A u \in Txns : Durable(g, u) => Durable(c, u) \/ Drops(g, c, u)
        /\ c.indoubt = g.indoubt /\ c.up /\ c.built
        /\ \A u \in Txns : g.pend[u] # "none" => c.pend[u] = g.pend[u]
    <3>1. g.up
      BY <1>2
    <3>. QED
      BY <2>2, <3>1, ConstructRegion
  <2> HIDE DEF c
  <2>4. \A u \in c.indoubt : <<TmOf[u], r>> \in znode'
    <3>1. c.state = 2 => c.indoubt = {}
      BY <2>3 DEF Region, Counted
    <3>. QED
      BY <2>1, <2>3, <3>1 DEF AnnouncedInv, g
  <2>5. \A s \in Regions, u \in Txns : s # r /\ <<TmOf[u], s>> \in znode => <<TmOf[u],
            s>> \in znode'
    BY <2>1
  <2>6. \A u \in Txns : <<r, u>> \notin {} /\ Durable(g, u) => Durable(c, u) \/ Drops(g, c, u)
    BY <2>3
  <2>7. \A u \in Txns : <<r, u>> \notin {} /\ g.pend[u] = "checked" => c.pend[u] = "checked"
    BY <2>3
  <2>. QED
    BY <2>1, <2>3, <2>4, <2>5, <2>6, <2>7, SetEffect DEF g
<1>. QED
  BY <1>1, <1>2

\* The effect of a request of the threads of phase two.
LEMMA DeliverEffect ==
    ASSUME TypeOK, RegionsInv, AnnouncedInv, NEW r \in Regions, NEW t \in Txns, Deliver(t, r)
    PROVE  Effect(IF decision[t] = "commit" THEN {} ELSE {<<r, t>>}, {<<r, t>>})
<1>1. CASE reg[r].up
  <2>1. Execute(r, decision[t], t) /\ restored' = restored
    BY <1>1 DEF Deliver
  <2>2. decision[t] = "commit" => t \in Committed
    BY DEF Committed
  <2>. QED
    BY <2>1, <2>2, ExecuteEffect
<1>2. CASE ~reg[r].up
  <2>1. Effect({}, {})
    BY <1>2, NoEffect DEF Deliver
  <2>. QED
    BY <2>1 DEF Effect, Keeps, Frame
<1>. QED
  BY <1>1, <1>2

\* The effect of a request of the recovery thread.
LEMMA ResolveEffect ==
    ASSUME TypeOK, RegionsInv, AnnouncedInv, RecoveryInv, NEW q \in resolve, DeliverResolve(q)
    PROVE  Effect(IF q.op = "commit" THEN {} ELSE {<<q.r, q.t>>}, {<<q.r, q.t>>})
<1>0. q.r \in Regions /\ q.t \in Txns
  BY DEF TypeOK
<1>1. CASE reg[q.r].up
  <2>1. Execute(q.r, q.op, q.t) /\ restored' = restored
    BY <1>1 DEF DeliverResolve
  <2>2. q.op = "commit" => q.t \in Committed
    BY <1>0 DEF Committed, RecoveryInv
  <2>. QED
    BY <1>0, <2>1, <2>2, ExecuteEffect
<1>2. CASE ~reg[q.r].up
  <2>1. Effect({}, {})
    BY <1>2, NoEffect DEF DeliverResolve
  <2>. QED
    BY <2>1 DEF Effect, Keeps, Frame
<1>. QED
  BY <1>1, <1>2

\* Every step moves the state of the TM forward.
LEMMA ClientEvolves ==
    ASSUME TypeOK, [Next]_vars
    PROVE  Evolves
<1>1. ASSUME UNCHANGED <<phase, decision, cause>> PROVE Evolves
  BY <1>1 DEF Evolves
<1>2. ASSUME NEW t \in Txns, prepareCommit(t) PROVE Evolves
  BY <1>2 DEF Evolves, prepareCommit, TypeOK
<1>3. ASSUME NEW t \in Txns, doCommit(t) PROVE Evolves
  BY <1>3 DEF Evolves, doCommit, PhaseTwo, TypeOK
<1>4. ASSUME NEW t \in Txns, abortOfTM(t) PROVE Evolves
  BY <1>4 DEF Evolves, abortOfTM, PhaseTwo, TypeOK
<1>5. ASSUME NEW t \in Txns, Forget(t) PROVE Evolves
  BY <1>5 DEF Evolves, Forget, TypeOK
<1>6. ASSUME NEW t \in Txns, completeRequest(t) PROVE Evolves
  BY <1>6 DEF Evolves, completeRequest, TypeOK
<1>7. ASSUME NEW t \in Txns, ForgottenFault(t) PROVE Evolves
  BY <1>7 DEF Evolves, ForgottenFault, PhaseTwo, TypeOK
<1>8. ASSUME NEW m \in TMs, addControlPoint(m) PROVE Evolves
  BY <1>8 DEF Evolves, addControlPoint, TypeOK
<1>9. ASSUME NEW m \in TMs, TmCrash(m) PROVE Evolves
  BY <1>9 DEF Evolves, TmCrash, TypeOK
<1>10. ASSUME NEW m \in TMs, NEW t \in Txns, Resolve(m, t) PROVE Evolves
  BY <1>10 DEF Evolves, Resolve, TypeOK
<1>11. ASSUME NEW r \in Regions, NEW t \in Txns,
              beginTransaction(r, t) \/ commitRequest(r, t) \/ LogCommitRequest(r, t)
                 \/ choreThreadDetectStaleTransactionBranch(r, t)
       PROVE  Evolves
  BY <1>1, <1>11 DEF beginTransaction, commitRequest, LogCommitRequest,
     choreThreadDetectStaleTransactionBranch
<1>12. ASSUME NEW r \in Regions, Flush(r) \/ Crash(r) \/ postOpen(r) PROVE Evolves
  BY <1>1, <1>12 DEF Flush, Crash, postOpen
<1>13. ASSUME NEW t \in Txns, NEW r \in Regions, Deliver(t, r) PROVE Evolves
  BY <1>1, <1>13 DEF Deliver
<1>14. ASSUME NEW m \in TMs, checkForRecovery(m) PROVE Evolves
  BY <1>1, <1>14 DEF checkForRecovery
<1>15. ASSUME NEW m \in TMs, NEW r \in Regions, recoveryRequest(m, r) PROVE Evolves
  BY <1>1, <1>15 DEF recoveryRequest
<1>16. ASSUME NEW q \in resolve, DeliverResolve(q) PROVE Evolves
  BY <1>1, <1>16 DEF DeliverResolve
<1>17. ASSUME UNCHANGED vars PROVE Evolves
  BY <1>1, <1>17 DEF vars
<1>. QED
  BY <1>2, <1>3, <1>4, <1>5, <1>6, <1>7, <1>8, <1>9, <1>10, <1>11, <1>12, <1>13, <1>14,
     <1>15, <1>16, <1>17 DEF Next, RegionStep, ClientStep, RecoveryStep

\* Every step keeps ClientInv.
LEMMA ClientPreserved ==
    ASSUME TypeOK, ClientInv, [Next]_vars
    PROVE  ClientInv'
<1>1. ASSUME UNCHANGED <<phase, decision, voted, todo>> PROVE ClientInv'
  BY <1>1 DEF ClientInv
<1>2. ASSUME NEW t \in Txns, prepareCommit(t) PROVE ClientInv'
  BY <1>2 DEF ClientInv, prepareCommit, TypeOK
<1>3. ASSUME NEW t \in Txns, doCommit(t) PROVE ClientInv'
  BY <1>3 DEF ClientInv, doCommit, PhaseTwo, TypeOK
<1>4. ASSUME NEW t \in Txns, abortOfTM(t) PROVE ClientInv'
  BY <1>4 DEF ClientInv, abortOfTM, PhaseTwo, TypeOK
<1>5. ASSUME NEW t \in Txns, Forget(t) PROVE ClientInv'
  BY <1>5 DEF ClientInv, Forget, TypeOK
<1>6. ASSUME NEW t \in Txns, completeRequest(t) PROVE ClientInv'
  BY <1>6 DEF ClientInv, completeRequest, TypeOK
<1>7. ASSUME NEW t \in Txns, ForgottenFault(t) PROVE ClientInv'
  <2>1. CASE decision[t] = "commit"
    <3>1. /\ phase' = [phase EXCEPT ![t] = "sent"] /\ todo' = [todo EXCEPT ![t] = joined[t]]
          /\ voted' = [voted EXCEPT ![t] = {}] /\ decision' = decision
      BY <1>7, <2>1 DEF ForgottenFault, PhaseTwo
    <3>. QED
      BY <3>1 DEF ClientInv, TypeOK
  <2>2. CASE decision[t] # "commit"
    <3>1. /\ phase[t] = "sent" /\ phase' = [phase EXCEPT ![t] = "forgotten"]
          /\ UNCHANGED <<todo, voted, decision>>
      BY <1>7, <2>2 DEF ForgottenFault
    <3>. QED
      BY <3>1 DEF ClientInv, TypeOK
  <2>. QED
    BY <2>1, <2>2
<1>8. ASSUME NEW m \in TMs, TmCrash(m) PROVE ClientInv'
  BY <1>8 DEF ClientInv, TmCrash, TypeOK
<1>9. ASSUME NEW r \in Regions, NEW t \in Txns, LogCommitRequest(r, t) PROVE ClientInv'
  BY <1>9 DEF ClientInv, LogCommitRequest, TypeOK
<1>10. ASSUME NEW t \in Txns, NEW r \in Regions, Deliver(t, r) PROVE ClientInv'
  BY <1>10 DEF ClientInv, Deliver, TypeOK
<1>11. ASSUME NEW r \in Regions, NEW t \in Txns,
              beginTransaction(r, t) \/ commitRequest(r, t)
                 \/ choreThreadDetectStaleTransactionBranch(r, t)
       PROVE  ClientInv'
  BY <1>1, <1>11 DEF beginTransaction, commitRequest, choreThreadDetectStaleTransactionBranch
<1>12. ASSUME NEW r \in Regions, Flush(r) \/ Crash(r) \/ postOpen(r) PROVE ClientInv'
  BY <1>1, <1>12 DEF Flush, Crash, postOpen
<1>13. ASSUME NEW m \in TMs, addControlPoint(m) \/ checkForRecovery(m) PROVE ClientInv'
  BY <1>1, <1>13 DEF addControlPoint, checkForRecovery
<1>14. ASSUME NEW m \in TMs, NEW r \in Regions, recoveryRequest(m, r) PROVE ClientInv'
  BY <1>1, <1>14 DEF recoveryRequest
<1>15. ASSUME NEW m \in TMs, NEW t \in Txns, Resolve(m, t) PROVE ClientInv'
  BY <1>1, <1>15 DEF Resolve
<1>16. ASSUME NEW q \in resolve, DeliverResolve(q) PROVE ClientInv'
  BY <1>1, <1>16 DEF DeliverResolve
<1>17. ASSUME UNCHANGED vars PROVE ClientInv'
  BY <1>1, <1>17 DEF vars
<1>. QED
  BY <1>2, <1>3, <1>4, <1>5, <1>6, <1>7, <1>8, <1>9, <1>10, <1>11, <1>12, <1>13, <1>14,
     <1>15, <1>16, <1>17 DEF Next, RegionStep, ClientStep, RecoveryStep

\* A row with one record more.
LEMMA RowFacts ==
    ASSUME NEW S, NEW s \in Seq(S), NEW e \in S
    PROVE  /\ Append(s, e) \in Seq(S) /\ Len(Append(s, e)) = Len(s) + 1 /\ Len(s) \in Nat
           /\ Append(s, e)[Len(s) + 1] = e
           /\ \A i \in 1 .. Len(s) : Append(s, e)[i] = s[i]
  OBVIOUS

\* A record that fits the decision keeps TlogInv.
LEMMA RecordKept ==
    ASSUME TypeOK, TlogInv, NEW t \in Txns, NEW e, Records(t, e)
    PROVE  TlogInv'
<1>0. /\ e \in RecordType /\ e.state \in {"COMMITTED", "ABORTED", "FORGOTTEN"}
      /\ tlog' = [tlog EXCEPT ![t] = Append(@, e)] /\ cause' = cause
      /\ \A u \in Txns : u # t => decision'[u] = decision[u]
      /\ \/ decision'[t] = decision[t]
         \/ decision[t] = "none" /\ (decision'[t] = "commit" => e.state = "COMMITTED")
      /\ e.state = "COMMITTED" => decision'[t] = "commit"
      /\ e.state = "ABORTED" => decision'[t] = "abort"
  BY DEF Records, RecordType
<1>1. /\ tlog[t] \in Seq(RecordType)
      /\ tlog'[t] = Append(tlog[t], e) /\ \A u \in Txns : u # t => tlog'[u] = tlog[u]
  BY <1>0 DEF TypeOK, RecordType
<1>2. /\ Len(tlog'[t]) = Len(tlog[t]) + 1 /\ Len(tlog[t]) \in Nat
      /\ tlog'[t][Len(tlog[t]) + 1] = e
      /\ \A i \in 1 .. Len(tlog[t]) : tlog'[t][i] = tlog[t][i]
  BY <1>0, <1>1, RowFacts
<1>3. ASSUME NEW i \in 1 .. Len(tlog'[t])
      PROVE  /\ tlog'[t][i].state = "COMMITTED" => decision'[t] = "commit"
             /\ tlog'[t][i].state = "ABORTED" => decision'[t] = "abort"
  <2>1. CASE i = Len(tlog[t]) + 1
    BY <1>0, <1>2, <2>1
  <2>2. CASE i # Len(tlog[t]) + 1
    <3>1. i \in 1 .. Len(tlog[t]) /\ tlog'[t][i] = tlog[t][i]
      BY <1>2, <2>2
    <3>2. /\ tlog[t][i].state = "COMMITTED" => decision[t] = "commit"
          /\ tlog[t][i].state = "ABORTED" => decision[t] = "abort"
      BY <3>1 DEF TlogInv
    <3>. QED
      BY <1>0, <3>1, <3>2
  <2>. QED
    BY <2>1, <2>2
<1>4. ASSUME decision'[t] = "commit", cause'[t] = {}
      PROVE  \E i \in 1 .. Len(tlog'[t]) : tlog'[t][i].state = "COMMITTED"
  <2>1. CASE e.state = "COMMITTED"
    <3>1. Len(tlog[t]) + 1 \in 1 .. Len(tlog'[t])
      BY <1>2
    <3>. QED
      BY <1>2, <2>1, <3>1
  <2>2. CASE e.state # "COMMITTED"
    <3>1. decision[t] = "commit" /\ cause[t] = {}
      BY <1>0, <1>4, <2>2
    <3>2. PICK i \in 1 .. Len(tlog[t]) : tlog[t][i].state = "COMMITTED"
      BY <3>1 DEF TlogInv
    <3>3. i \in 1 .. Len(tlog'[t]) /\ tlog'[t][i].state = "COMMITTED"
      BY <1>2, <3>2
    <3>. QED
      BY <3>3
  <2>. QED
    BY <2>1, <2>2
<1>5. ASSUME NEW u \in Txns, u # t
      PROVE  /\ \A i \in 1 .. Len(tlog'[u]) :
                   /\ tlog'[u][i].state = "COMMITTED" => decision'[u] = "commit"
                   /\ tlog'[u][i].state = "ABORTED" => decision'[u] = "abort"
             /\ decision'[u] = "commit" /\ cause'[u] = {} =>
                   \E i \in 1 .. Len(tlog'[u]) : tlog'[u][i].state = "COMMITTED"
  BY <1>0, <1>1, <1>5 DEF TlogInv
<1>. QED
  BY <1>3, <1>4, <1>5 DEF TlogInv

\* addControlPoint repeats COMMITTED for committed transactions only, and
\* notes the rows that it deletes.
LEMMA ControlPointKept ==
    ASSUME TypeOK, TlogInv, NEW m \in TMs, addControlPoint(m)
    PROVE  TlogInv'
<1> DEFINE n == ctrlPt[m] + 1
           written == [t \in Txns |->
               IF TmOf[t] = m /\ InMap(t) /\ decision[t] = "commit"
               THEN Append(tlog[t], [state |-> "COMMITTED", cp |-> ctrlPt[m]])
               ELSE tlog[t]]
           old == {t \in Txns : /\ TmOf[t] = m
                                /\ n > Keep /\ n % Keep = 0
                                /\ Aged(written[t], n - Keep)}
           e == [state |-> "COMMITTED", cp |-> ctrlPt[m]]
<1>1. /\ tlog' = [t \in Txns |-> IF t \in old THEN <<>> ELSE written[t]]
      /\ cause' = [t \in Txns |-> IF t \in old THEN cause[t] \cup {"aged"} ELSE cause[t]]
      /\ decision' = decision
  BY DEF addControlPoint
<1>2. ASSUME NEW t \in Txns
      PROVE  \/ written[t] = tlog[t]
             \/ decision[t] = "commit" /\ written[t] = Append(tlog[t], e)
  <2>1. CASE TmOf[t] = m /\ InMap(t) /\ decision[t] = "commit"
    BY <2>1, Zenon
  <2>2. CASE ~(TmOf[t] = m /\ InMap(t) /\ decision[t] = "commit")
    BY <2>2, Zenon
  <2>. QED
    BY <2>1, <2>2
<1>3. e \in RecordType /\ e.state = "COMMITTED"
  BY DEF TypeOK, RecordType
<1> HIDE DEF written, old, e
<1>4. ASSUME NEW t \in Txns
      PROVE  /\ \A i \in 1 .. Len(tlog'[t]) :
                   /\ tlog'[t][i].state = "COMMITTED" => decision'[t] = "commit"
                   /\ tlog'[t][i].state = "ABORTED" => decision'[t] = "abort"
             /\ decision'[t] = "commit" /\ cause'[t] = {} =>
                   \E i \in 1 .. Len(tlog'[t]) : tlog'[t][i].state = "COMMITTED"
  <2>1. CASE t \in old
    <3>1. tlog'[t] = <<>> /\ cause'[t] # {}
      BY <1>1, <2>1
    <3>2. 1 .. Len(tlog'[t]) = {}
      BY <3>1
    <3>. QED
      BY <3>1, <3>2
  <2>2. CASE t \notin old /\ written[t] = tlog[t]
    <3>1. tlog'[t] = tlog[t] /\ cause'[t] = cause[t] /\ decision'[t] = decision[t]
      BY <1>1, <2>2
    <3>. QED
      BY <3>1 DEF TlogInv
  <2>3. CASE t \notin old /\ decision[t] = "commit" /\ written[t] = Append(tlog[t], e)
    <3>1. tlog[t] \in Seq(RecordType)
      BY DEF TypeOK, RecordType
    <3>2. tlog'[t] = Append(tlog[t], e) /\ decision'[t] = "commit"
      BY <1>1, <2>3
    <3>3. /\ Len(tlog'[t]) = Len(tlog[t]) + 1 /\ Len(tlog[t]) \in Nat
          /\ tlog'[t][Len(tlog[t]) + 1] = e
          /\ \A i \in 1 .. Len(tlog[t]) : tlog'[t][i] = tlog[t][i]
      BY <1>3, <3>1, <3>2, RowFacts
    <3>4. ASSUME NEW i \in 1 .. Len(tlog'[t]) PROVE tlog'[t][i].state # "ABORTED"
      <4>1. CASE i = Len(tlog[t]) + 1
        BY <1>3, <3>3, <4>1
      <4>2. CASE i # Len(tlog[t]) + 1
        <5>1. i \in 1 .. Len(tlog[t]) /\ tlog'[t][i] = tlog[t][i]
          BY <3>3, <4>2
        <5>. QED
          BY <2>3, <5>1 DEF TlogInv
      <4>. QED
        BY <4>1, <4>2
    <3>5. Len(tlog[t]) + 1 \in 1 .. Len(tlog'[t])
      BY <3>3
    <3>. QED
      BY <1>3, <3>2, <3>3, <3>4, <3>5
  <2>. QED
    BY <1>2, <2>1, <2>2, <2>3
<1>. QED
  BY <1>4 DEF TlogInv

\* Every step keeps TlogInv.
LEMMA TlogPreserved ==
    ASSUME TypeOK, ClientInv, TlogInv, [Next]_vars
    PROVE  TlogInv'
<1>1. ASSUME UNCHANGED <<tlog, decision>>, Evolves PROVE TlogInv'
  BY <1>1 DEF TlogInv, Evolves
<1>2. Evolves
  BY ClientEvolves
<1>3. ASSUME NEW t \in Txns, doCommit(t) PROVE TlogInv'
  <2> DEFINE e == [state |-> "COMMITTED", cp |-> ctrlPt[TmOf[t]]]
  <2>1. e \in RecordType /\ e.state = "COMMITTED"
    BY ConstantAssumption DEF TypeOK, RecordType
  <2>2. /\ tlog' = [tlog EXCEPT ![t] = Append(@, e)] /\ cause' = cause
        /\ decision[t] = "none" /\ decision'[t] = "commit"
        /\ \A u \in Txns : u # t => decision'[u] = decision[u]
    BY <1>3 DEF doCommit, PhaseTwo, putSingleRecord, ClientInv, TypeOK
  <2> HIDE DEF e
  <2>3. Records(t, e)
    BY <2>1, <2>2 DEF Records
  <2>. QED
    BY <2>3, RecordKept
<1>4. ASSUME NEW t \in Txns, abortOfTM(t) PROVE TlogInv'
  <2> DEFINE e == [state |-> "ABORTED", cp |-> ctrlPt[TmOf[t]]]
  <2>1. e \in RecordType /\ e.state = "ABORTED"
    BY ConstantAssumption DEF TypeOK, RecordType
  <2>2. /\ tlog' = [tlog EXCEPT ![t] = Append(@, e)] /\ cause' = cause
        /\ decision[t] = "none" /\ decision'[t] = "abort"
        /\ \A u \in Txns : u # t => decision'[u] = decision[u]
    BY <1>4 DEF abortOfTM, PhaseTwo, putSingleRecord, ClientInv, TypeOK
  <2> HIDE DEF e
  <2>3. Records(t, e)
    BY <2>1, <2>2 DEF Records
  <2>. QED
    BY <2>3, RecordKept
<1>5. ASSUME NEW t \in Txns, Forget(t) PROVE TlogInv'
  <2> DEFINE e == [state |-> "FORGOTTEN", cp |-> ctrlPt[TmOf[t]]]
  <2>1. e \in RecordType /\ e.state = "FORGOTTEN"
    BY ConstantAssumption DEF TypeOK, RecordType
  <2>2. /\ tlog' = [tlog EXCEPT ![t] = Append(@, e)] /\ cause' = cause
        /\ decision' = decision
    BY <1>5 DEF Forget, putSingleRecord
  <2> HIDE DEF e
  <2>3. Records(t, e)
    BY <2>1, <2>2 DEF Records
  <2>. QED
    BY <2>3, RecordKept
<1>6. ASSUME NEW t \in Txns, ForgottenFault(t) PROVE TlogInv'
  <2>1. CASE decision[t] = "commit"
    <3> DEFINE e == [state |-> "COMMITTED", cp |-> ctrlPt[TmOf[t]]]
    <3>1. e \in RecordType /\ e.state = "COMMITTED"
      BY ConstantAssumption DEF TypeOK, RecordType
    <3>2. /\ tlog' = [tlog EXCEPT ![t] = Append(@, e)] /\ cause' = cause
          /\ decision' = decision
      BY <2>1, <1>6 DEF ForgottenFault, PhaseTwo, putSingleRecord
    <3> HIDE DEF e
    <3>3. Records(t, e)
      BY <2>1, <3>1, <3>2 DEF Records
    <3>. QED
      BY <3>3, RecordKept
  <2>2. CASE decision[t] # "commit"
    BY <1>1, <1>2, <1>6, <2>2 DEF ForgottenFault
  <2>. QED
    BY <2>1, <2>2
<1>7. ASSUME NEW m \in TMs, addControlPoint(m) PROVE TlogInv'
  BY <1>7, ControlPointKept
<1>8. ASSUME NEW t \in Txns, prepareCommit(t) \/ completeRequest(t) PROVE TlogInv'
  BY <1>1, <1>2, <1>8 DEF prepareCommit, completeRequest
<1>9. ASSUME NEW r \in Regions, NEW t \in Txns,
             beginTransaction(r, t) \/ commitRequest(r, t) \/ LogCommitRequest(r, t)
                \/ choreThreadDetectStaleTransactionBranch(r, t) \/ Deliver(t, r)
      PROVE  TlogInv'
  BY <1>1, <1>2, <1>9 DEF beginTransaction, commitRequest, LogCommitRequest, Deliver,
     choreThreadDetectStaleTransactionBranch
<1>10. ASSUME NEW r \in Regions, Flush(r) \/ Crash(r) \/ postOpen(r) PROVE TlogInv'
  BY <1>1, <1>2, <1>10 DEF Flush, Crash, postOpen
<1>11. ASSUME NEW m \in TMs, checkForRecovery(m) \/ TmCrash(m) PROVE TlogInv'
  BY <1>1, <1>2, <1>11 DEF checkForRecovery, TmCrash
<1>12. ASSUME NEW m \in TMs, NEW r \in Regions, recoveryRequest(m, r) PROVE TlogInv'
  BY <1>1, <1>2, <1>12 DEF recoveryRequest
<1>13. ASSUME NEW m \in TMs, NEW t \in Txns, Resolve(m, t) PROVE TlogInv'
  BY <1>1, <1>2, <1>13 DEF Resolve
<1>14. ASSUME NEW q \in resolve, DeliverResolve(q) PROVE TlogInv'
  BY <1>1, <1>2, <1>14 DEF DeliverResolve
<1>15. ASSUME UNCHANGED vars PROVE TlogInv'
  BY <1>1, <1>2, <1>15 DEF vars
<1>. QED
  BY <1>3, <1>4, <1>5, <1>6, <1>7, <1>8, <1>9, <1>10, <1>11, <1>12, <1>13, <1>14, <1>15
  DEF Next, RegionStep, ClientStep, RecoveryStep

\* What getTransactionState reads: COMMITTED only of a committed
\* transaction, and of one whose record did not go with age always.
LEMMA OutcomeRead ==
    ASSUME TypeOK, TlogInv, NEW t \in Txns
    PROVE  /\ getTransactionState(t) = "COMMITTED" => decision[t] = "commit"
           /\ decision[t] = "commit" /\ cause[t] = {} => getTransactionState(t) = "COMMITTED"
<1> DEFINE rows == {i \in DOMAIN tlog[t] : tlog[t][i].state # "FORGOTTEN"}
           n == CHOOSE i \in rows : \A j \in rows : j <= i
<1>1. /\ Len(tlog[t]) \in Nat /\ DOMAIN tlog[t] = 1 .. Len(tlog[t])
      /\ \A i \in 1 .. Len(tlog[t]) : tlog[t][i] \in RecordType
  <2>1. tlog[t] \in Seq(RecordType)
    BY DEF TypeOK, RecordType
  <2>. QED
    BY <2>1, SeqFacts
<1>2. CASE rows = {}
  <2>1. getTransactionState(t) = "NOTX"
    BY <1>2 DEF getTransactionState
  <2>2. \A i \in 1 .. Len(tlog[t]) : tlog[t][i].state # "COMMITTED"
    BY <1>1, <1>2
  <2>. QED
    BY <2>1, <2>2 DEF TlogInv
<1>3. CASE rows # {}
  <2>1. getTransactionState(t) = tlog[t][n].state
    BY <1>3 DEF getTransactionState
  <2>2. \E i \in rows : \A j \in rows : j <= i
    <3>1. rows \subseteq Nat /\ \A i \in rows : i <= Len(tlog[t])
      BY <1>1
    <3> HIDE DEF rows
    <3>. QED
      BY <1>1, <1>3, <3>1, Greatest
  <2>3. n \in rows
    <3> HIDE DEF rows
    <3>. QED
      BY <2>2
  <2> HIDE DEF n
  <2>4. n \in 1 .. Len(tlog[t]) /\ tlog[t][n].state \in {"COMMITTED", "ABORTED"}
    BY <1>1, <2>3 DEF RecordType
  <2>. QED
    BY <2>1, <2>4 DEF TlogInv
<1>. QED
  BY <1>2, <1>3

\* A region reports only transactions whose commit was asked for.
LEMMA ReportedBegun ==
    ASSUME NEW g, NEW C, NEW A, NEW m, Region(g, C, A)
    PROVE  Reported(g, m) \subseteq A
  BY DEF Reported, Region, Asked, CommitPending

\* Every step keeps RecoveryInv.
LEMMA RecoveryPreserved ==
    ASSUME TypeOK, RegionsInv, ClientInv, TlogInv, RecoveryInv, [Next]_vars
    PROVE  RecoveryInv'
<1>0. Evolves
  BY ClientEvolves
<1>1. ASSUME \A m \in TMs, t \in Txns : rec'[m].found[t] # {} => rec[m].found[t] # {},
             resolve' \subseteq resolve
      PROVE  RecoveryInv'
  <2>1. \A m \in TMs, t \in Txns : rec'[m].found[t] # {} => phase'[t] # "active"
    BY <1>0, <1>1 DEF RecoveryInv, Evolves
  <2>2. ASSUME NEW q \in resolve'
        PROVE  /\ q.op = "commit" => decision'[q.t] = "commit"
               /\ q.op = "abort" /\ cause'[q.t] = {} =>
                     phase'[q.t] \notin {"active", "preparing"} /\ decision'[q.t] # "commit"
    <3>1. q \in resolve /\ q.t \in Txns
      BY <1>1 DEF TypeOK
    <3>. QED
      BY <1>0, <3>1 DEF RecoveryInv, Evolves, ClientInv
  <2>. QED
    BY <2>1, <2>2 DEF RecoveryInv
<1>2. ASSUME UNCHANGED <<rec, resolve>> PROVE RecoveryInv'
  BY <1>1, <1>2
<1>3. ASSUME NEW m \in TMs, TmCrash(m) PROVE RecoveryInv'
  <2>1. rec' = [rec EXCEPT ![m] = Idle] /\ resolve' \subseteq resolve
    BY <1>3 DEF TmCrash
  <2>2. \A t \in Txns : Idle.found[t] = {}
    BY DEF Idle, Pass
  <2>3. \A k \in TMs, t \in Txns : rec'[k].found[t] # {} => rec[k].found[t] # {}
    BY <2>1, <2>2 DEF TypeOK
  <2>. QED
    BY <1>1, <2>1, <2>3
<1>4. ASSUME NEW m \in TMs, checkForRecovery(m) PROVE RecoveryInv'
  <2>1. PICK rs : rec' = [rec EXCEPT ![m].regions = rs]
    BY <1>4 DEF checkForRecovery
  <2>2. \A k \in TMs : rec'[k].found = rec[k].found
    BY <2>1 DEF TypeOK
  <2>3. resolve' = resolve
    BY <1>4 DEF checkForRecovery
  <2>. QED
    BY <1>1, <2>2, <2>3
<1>5. ASSUME NEW m \in TMs, NEW r \in Regions, recoveryRequest(m, r) PROVE RecoveryInv'
  <2> DEFINE g == constructIndoubtTransactions(reg[r])
             ts == IF reg[r].up THEN Reported(g, m) ELSE {}
  <2>1. /\ rec' = [rec EXCEPT ![m] = Pass(@.regions \ {r},
                [t \in Txns |-> @.found[t] \cup IF t \in ts THEN {r} ELSE {}])]
        /\ UNCHANGED <<resolve, phase, decision, cause>>
    BY <1>5 DEF recoveryRequest
  <2>2. ts \subseteq Begun
    <3>1. CASE reg[r].up
      <4>1. Region(reg[r], Allowed(r, restored), Begun)
        BY DEF RegionsInv
      <4>2. Region(g, Allowed(r, restored), Begun)
        BY <3>1, <4>1, ConstructRegion
      <4> HIDE DEF g
      <4>3. Reported(g, m) \subseteq Begun
        BY <4>2, ReportedBegun
      <4>. QED
        BY <3>1, <4>3
    <3>2. CASE ~reg[r].up
      BY <3>2
    <3>. QED
      BY <3>1, <3>2
  <2> HIDE DEF ts
  <2>3. ASSUME NEW t \in Txns, NEW k \in TMs, rec'[k].found[t] # {} PROVE phase[t] # "active"
    <3>1. CASE k = m
      <4>1. rec'[k].found[t] = rec[m].found[t] \cup IF t \in ts THEN {r} ELSE {}
        BY <2>1, <3>1 DEF Pass, TypeOK
      <4>. QED
        BY <2>2, <2>3, <4>1 DEF RecoveryInv, Begun
    <3>2. CASE k # m
      BY <2>1, <2>3, <3>2 DEF RecoveryInv, TypeOK
    <3>. QED
      BY <3>1, <3>2
  <2>. QED
    BY <2>1, <2>3 DEF RecoveryInv
<1>6. ASSUME NEW m \in TMs, NEW t \in Txns, Resolve(m, t) PROVE RecoveryInv'
  <2>1. PICK fault \in BOOLEAN :
         LET state == IF fault THEN "NOTX" ELSE getTransactionState(t)
             rs == IF state = "NOTX" THEN rec[m].found[t] ELSE joined[t]
             op == IF state = "COMMITTED" THEN "commit" ELSE "abort"
         IN /\ resolve' = resolve \cup {[op |-> op, t |-> t, r |-> r] : r \in rs}
            /\ cause' = [cause EXCEPT ![t] = @
                  \cup (IF fault THEN {"misread"} ELSE {})
                  \cup (IF phase[t] = "preparing" THEN {"early"} ELSE {})]
    BY <1>6 DEF Resolve
  <2>2. /\ rec' = [rec EXCEPT ![m] = Pass({}, [@.found EXCEPT ![t] = {}])]
        /\ rec[m].found[t] # {} /\ UNCHANGED <<phase, decision>>
    BY <1>6 DEF Resolve
  <2>3. \A k \in TMs, u \in Txns : rec'[k].found[u] # {} => phase'[u] # "active"
    <3>1. \A k \in TMs, u \in Txns : rec'[k].found[u] # {} => rec[k].found[u] # {}
      BY <2>2 DEF Pass, TypeOK
    <3>. QED
      BY <2>2, <3>1 DEF RecoveryInv
  <2>4. /\ cause'[t] = {} => cause[t] = {} /\ ~fault /\ phase[t] # "preparing"
        /\ \A u \in Txns : cause'[u] = {} => cause[u] = {}
    BY <2>1 DEF TypeOK
  <2> DEFINE state == IF fault THEN "NOTX" ELSE getTransactionState(t)
             op == IF state = "COMMITTED" THEN "commit" ELSE "abort"
             rs == IF state = "NOTX" THEN rec[m].found[t] ELSE joined[t]
  <2>5. resolve' = resolve \cup {[op |-> op, t |-> t, r |-> r] : r \in rs}
    BY <2>1, Zenon
  <2>6. \A q \in resolve' : q \in resolve \/ (q.op = op /\ q.t = t)
    <3> HIDE DEF op, rs
    <3>. QED
      BY <2>5
  <2>7. op = "commit" => decision[t] = "commit"
    BY OutcomeRead
  <2>8. op = "abort" /\ cause'[t] = {} => phase[t] \notin {"active",
            "preparing"} /\ decision[t] # "commit"
    BY <2>2, <2>4, OutcomeRead DEF RecoveryInv
  <2> HIDE DEF op
  <2>9. ASSUME NEW q \in resolve'
        PROVE  /\ q.op = "commit" => decision'[q.t] = "commit"
               /\ q.op = "abort" /\ cause'[q.t] = {} =>
                     phase'[q.t] \notin {"active", "preparing"} /\ decision'[q.t] # "commit"
    <3>1. CASE q \in resolve
      <4>1. q.t \in Txns
        BY <3>1 DEF TypeOK
      <4>. QED
        BY <2>2, <2>4, <3>1, <4>1 DEF RecoveryInv
    <3>2. CASE q.op = op /\ q.t = t
      BY <2>2, <2>7, <2>8, <3>2
    <3>. QED
      BY <2>6, <3>1, <3>2
  <2>. QED
    BY <2>3, <2>9 DEF RecoveryInv
<1>7. ASSUME NEW q \in resolve, DeliverResolve(q) PROVE RecoveryInv'
  BY <1>1, <1>7 DEF DeliverResolve
<1>8. ASSUME NEW r \in Regions, NEW t \in Txns,
             beginTransaction(r, t) \/ commitRequest(r, t) \/ LogCommitRequest(r, t)
                \/ choreThreadDetectStaleTransactionBranch(r, t) \/ Deliver(t, r)
      PROVE  RecoveryInv'
  BY <1>2, <1>8 DEF beginTransaction, commitRequest, LogCommitRequest, Deliver,
     choreThreadDetectStaleTransactionBranch
<1>9. ASSUME NEW r \in Regions, Flush(r) \/ Crash(r) \/ postOpen(r) PROVE RecoveryInv'
  BY <1>2, <1>9 DEF Flush, Crash, postOpen
<1>10. ASSUME NEW t \in Txns,
              prepareCommit(t) \/ doCommit(t) \/ abortOfTM(t) \/ Forget(t) \/ completeRequest(t)
                 \/ ForgottenFault(t)
       PROVE  RecoveryInv'
  BY <1>2, <1>10 DEF prepareCommit, doCommit, abortOfTM, Forget, completeRequest, ForgottenFault
<1>11. ASSUME NEW m \in TMs, addControlPoint(m) PROVE RecoveryInv'
  BY <1>2, <1>11 DEF addControlPoint
<1>12. ASSUME UNCHANGED vars PROVE RecoveryInv'
  BY <1>2, <1>12 DEF vars
<1>. QED
  BY <1>3, <1>4, <1>5, <1>6, <1>7, <1>8, <1>9, <1>10, <1>11, <1>12
  DEF Next, RegionStep, ClientStep, RecoveryStep

\* LoggingInv from what a step leaves alone.
LEMMA LoggingKept ==
    ASSUME TypeOK, LoggingInv, Evolves, NEW Y, Frame(Y), logging' \subseteq logging,
           \A s \in Regions, u \in Txns :
               <<s, u>> \in Y => <<s,
                   u>> \notin logging' \/ phase'[u] # "preparing" \/ cause'[u] # {}
    PROVE  LoggingInv'
<1> SUFFICES ASSUME NEW s \in Regions, NEW u \in Txns, <<s, u>> \in logging'
             PROVE  /\ phase'[u] # "active"
                    /\ phase'[u] = "preparing" /\ cause'[u] = {} => reg'[s].pend[u] = "checked"
  BY DEF LoggingInv
<1>1. <<s, u>> \in logging /\ phase[u] # "active" /\ phase'[u] # "active"
  BY DEF LoggingInv, Evolves
<1>2. ASSUME phase'[u] = "preparing", cause'[u] = {} PROVE reg'[s].pend[u] = "checked"
  <2>1. phase[u] = "preparing" /\ cause[u] = {}
    BY <1>1, <1>2 DEF Evolves
  <2>2. reg[s].pend[u] = "checked" /\ <<s, u>> \notin Y
    BY <1>1, <1>2, <2>1 DEF LoggingInv
  <2>. QED
    BY <2>2 DEF Frame
<1>. QED
  BY <1>1, <1>2

\* Every step keeps LoggingInv.
LEMMA LoggingPreserved ==
    ASSUME TypeOK, RegionsInv, AnnouncedInv, ClientInv, RecoveryInv, LoggingInv, [Next]_vars
    PROVE  LoggingInv'
<1>0. Evolves
  BY ClientEvolves
<1>1. ASSUME Effect({}, {}), logging' = logging PROVE LoggingInv'
  <2>1. Frame({})
    BY <1>1 DEF Effect
  <2>. QED
    BY <1>0, <1>1, <2>1, LoggingKept
<1>2. ASSUME NEW r \in Regions, NEW t \in Txns, beginTransaction(r, t) PROVE LoggingInv'
  <2>1. Frame({<<r, t>>})
    BY <1>2, BeginEffect DEF Effect
  <2>2. logging' = logging /\ phase[t] = "active"
    BY <1>2 DEF beginTransaction
  <2>3. <<r, t>> \notin logging'
    BY <2>2 DEF LoggingInv
  <2>. QED
    BY <1>0, <2>1, <2>2, <2>3, LoggingKept
<1>3. ASSUME NEW r \in Regions, NEW t \in Txns, commitRequest(r, t) PROVE LoggingInv'
  <2>1. Frame({})
    BY <1>3, RequestEffect DEF Effect
  <2>2. logging' = logging \cup {<<r, t>>} /\ phase[t] = "preparing" /\ UNCHANGED <<phase,
            cause>>
    BY <1>3 DEF commitRequest
  <2>3. reg'[r].pend[t] = "checked"
    <3>1. reg[r].pend \in [Txns -> {"none", "active", "checked", "pending", "reinstated"}]
      BY Types DEF TypeOK
    <3>2. reg' = [reg EXCEPT ![r].pend[t] = "checked"]
      BY <1>3 DEF commitRequest
    <3>. QED
      BY <3>1, <3>2 DEF TypeOK, RegionType
  <2> SUFFICES ASSUME NEW s \in Regions, NEW u \in Txns, <<s, u>> \in logging'
               PROVE  /\ phase'[u] # "active"
                      /\ phase'[u] = "preparing" /\ cause'[u] = {} =>
                           reg'[s].pend[u] = "checked"
    BY DEF LoggingInv
  <2>4. CASE s = r /\ u = t
    BY <2>2, <2>3, <2>4
  <2>5. CASE <<s, u>> \in logging
    BY <2>1, <2>2, <2>5 DEF LoggingInv, Frame
  <2>. QED
    BY <2>2, <2>4, <2>5
<1>4. ASSUME NEW r \in Regions, NEW t \in Txns, LogCommitRequest(r, t) PROVE LoggingInv'
  <2>1. Frame({<<r, t>>})
    BY <1>4, LogEffect DEF Effect
  <2>2. logging' = logging \ {<<r, t>>}
    BY <1>4 DEF LogCommitRequest
  <2>. QED
    BY <1>0, <2>1, <2>2, LoggingKept
<1>5. ASSUME NEW r \in Regions, Crash(r) PROVE LoggingInv'
  <2>1. Frame({r} \X Txns)
    BY <1>5, CrashEffect DEF Effect
  <2>2. logging' = {l \in logging : l[1] # r}
    BY <1>5 DEF Crash
  <2>3. \A s \in Regions, u \in Txns : <<s, u>> \in {r} \X Txns => <<s, u>> \notin logging'
    BY <2>2
  <2>4. logging' \subseteq logging
    BY <2>2
  <2>. QED
    BY <1>0, <2>1, <2>3, <2>4, LoggingKept
<1>6. ASSUME NEW t \in Txns, NEW r \in Regions, Deliver(t, r) PROVE LoggingInv'
  <2>1. Frame({<<r, t>>})
    BY <1>6, DeliverEffect DEF Effect
  <2>2. logging' = logging /\ r \in todo[t] /\ phase' = phase
    BY <1>6 DEF Deliver
  <2>3. phase'[t] # "preparing"
    BY <2>2 DEF ClientInv
  <2>. QED
    BY <1>0, <2>1, <2>2, <2>3, LoggingKept
<1>7. ASSUME NEW q \in resolve, DeliverResolve(q) PROVE LoggingInv'
  <2>1. Frame({<<q.r, q.t>>})
    BY <1>7, ResolveEffect DEF Effect
  <2>2. logging' = logging /\ UNCHANGED <<phase,
            cause>> /\ q.t \in Txns /\ q.op \in {"commit", "abort"}
    BY <1>7 DEF DeliverResolve, TypeOK
  <2>3. phase'[q.t] # "preparing" \/ cause'[q.t] # {}
    BY <2>2 DEF RecoveryInv, ClientInv
  <2>. QED
    BY <1>0, <2>1, <2>2, <2>3, LoggingKept
<1>8. ASSUME NEW r \in Regions, Flush(r) PROVE LoggingInv'
  <2>1. logging' = logging
    BY <1>8 DEF Flush
  <2>. QED
    BY <1>1, <1>8, <2>1, FlushEffect
<1>9. ASSUME NEW r \in Regions, postOpen(r) PROVE LoggingInv'
  <2>1. logging' = logging
    BY <1>9 DEF postOpen
  <2>. QED
    BY <1>1, <1>9, <2>1, OpenEffect
<1>10. ASSUME NEW m \in TMs, NEW r \in Regions, recoveryRequest(m, r) PROVE LoggingInv'
  <2>1. logging' = logging
    BY <1>10 DEF recoveryRequest
  <2>. QED
    BY <1>1, <1>10, <2>1, RecoveryEffect
<1>11. ASSUME UNCHANGED <<reg, dropped, restored, logging>>, znode \subseteq znode' PROVE LoggingInv'
  BY <1>1, <1>11, NoEffect
<1>12. ASSUME NEW r \in Regions, NEW t \in Txns, choreThreadDetectStaleTransactionBranch(r, t)
       PROVE  LoggingInv'
  BY <1>11, <1>12 DEF choreThreadDetectStaleTransactionBranch
<1>13. ASSUME NEW t \in Txns,
              prepareCommit(t) \/ doCommit(t) \/ abortOfTM(t) \/ Forget(t) \/ completeRequest(t)
                 \/ ForgottenFault(t)
       PROVE  LoggingInv'
  BY <1>11, <1>13 DEF prepareCommit, doCommit, abortOfTM, Forget, completeRequest,
      ForgottenFault
<1>14. ASSUME NEW m \in TMs, addControlPoint(m) \/ checkForRecovery(m) \/ TmCrash(m)
       PROVE  LoggingInv'
  BY <1>11, <1>14 DEF addControlPoint, checkForRecovery, TmCrash
<1>15. ASSUME NEW m \in TMs, NEW t \in Txns, Resolve(m, t) PROVE LoggingInv'
  BY <1>11, <1>15 DEF Resolve
<1>16. ASSUME UNCHANGED vars PROVE LoggingInv'
  BY <1>11, <1>16 DEF vars
<1>. QED
  BY <1>2, <1>3, <1>4, <1>5, <1>6, <1>7, <1>8, <1>9, <1>10, <1>12, <1>13, <1>14, <1>15, <1>16
  DEF Next, RegionStep, ClientStep, RecoveryStep

\* DurableInv from what a step keeps.
LEMMA DurableKept ==
    ASSUME DurableInv, Evolves, NEW X, Keeps(X),
           \A s \in Regions, u \in Txns : Protected(s, u)' => Protected(s, u),
           \A s \in Regions, u \in Txns : <<s, u>> \in X /\ Protected(s, u) => cause[u] # {}
    PROVE  DurableInv'
<1> SUFFICES ASSUME NEW s \in Regions, NEW u \in Txns, Protected(s, u)', cause'[u] = {}
             PROVE  <<u, s>> \in dropped' \/ Durable(reg'[s], u)
  BY DEF DurableInv
<1>1. Protected(s, u) /\ cause[u] = {}
  BY DEF Evolves
<1>2. <<s, u>> \notin X /\ (<<u, s>> \in dropped \/ Durable(reg[s], u))
  BY <1>1 DEF DurableInv
<1>. QED
  BY <1>2 DEF Keeps

\* Every step keeps DurableInv.
LEMMA DurablePreserved ==
    ASSUME TypeOK, RegionsInv, AnnouncedInv, ClientInv, RecoveryInv, LoggingInv, DurableInv,
           [Next]_vars
    PROVE  DurableInv'
<1>0. Evolves
  BY ClientEvolves
<1>1. ASSUME Effect({}, {}), \A s \in Regions, u \in Txns : Protected(s, u)' => Protected(s, u)
      PROVE  DurableInv'
  <2>1. Keeps({})
    BY <1>1 DEF Effect
  <2>. QED
    BY <1>0, <1>1, <2>1, DurableKept
<1>2. ASSUME UNCHANGED <<voted, decision, joined>>
      PROVE  \A s \in Regions, u \in Txns : Protected(s, u)' => Protected(s, u)
  BY <1>2 DEF Protected
<1>3. ASSUME NEW r \in Regions, NEW t \in Txns, beginTransaction(r, t) PROVE DurableInv'
  <2>1. Keeps({<<r, t>>})
    BY <1>3, BeginEffect DEF Effect
  <2>2. /\ joined' = [joined EXCEPT ![t] = @ \cup {r}] /\ phase[t] = "active"
        /\ UNCHANGED <<voted, decision>>
    BY <1>3 DEF beginTransaction
  <2>3. decision[t] = "none" /\ voted[t] = {}
    BY <2>2 DEF ClientInv
  <2>4. ~Protected(r, t)
    BY <2>3 DEF Protected
  <2>5. \A s \in Regions, u \in Txns : Protected(s, u)' => Protected(s, u)
    BY <2>2, <2>3 DEF Protected, TypeOK
  <2>. QED
    BY <1>0, <2>1, <2>4, <2>5, DurableKept
<1>4. ASSUME NEW r \in Regions, NEW t \in Txns, commitRequest(r, t) PROVE DurableInv'
  <2>1. UNCHANGED <<voted, decision, joined>>
    BY <1>4 DEF commitRequest
  <2>. QED
    BY <1>1, <1>2, <1>4, <2>1, RequestEffect
<1>5. ASSUME NEW r \in Regions, NEW t \in Txns, LogCommitRequest(r, t) PROVE DurableInv'
  <2>1. Keeps({}) /\ (reg[r].pend[t] = "checked" => Durable(reg'[r], t))
    BY <1>5, LogEffect DEF Effect
  <2>2. /\ <<r, t>> \in logging /\ UNCHANGED <<decision, joined, phase, cause>>
        /\ voted' = IF phase[t] = "preparing" THEN [voted EXCEPT ![t] = @ \cup {r}] ELSE voted
    BY <1>5 DEF LogCommitRequest
  <2> SUFFICES ASSUME NEW s \in Regions, NEW u \in Txns, Protected(s, u)', cause'[u] = {}
               PROVE  <<u, s>> \in dropped' \/ Durable(reg'[s], u)
    BY DEF DurableInv
  <2>3. CASE Protected(s, u)
    <3>1. <<u, s>> \in dropped \/ Durable(reg[s], u)
      BY <2>2, <2>3 DEF DurableInv
    <3>. QED
      BY <2>1, <3>1 DEF Keeps
  <2>4. CASE ~Protected(s, u)
    <3>1. s = r /\ u = t /\ phase[t] = "preparing"
      BY <2>2, <2>4 DEF Protected, TypeOK
    <3>2. reg[r].pend[t] = "checked"
      BY <2>2, <3>1 DEF LoggingInv
    <3>. QED
      BY <2>1, <3>1, <3>2
  <2>. QED
    BY <2>3, <2>4
<1>6. ASSUME NEW r \in Regions, Flush(r) \/ Crash(r) \/ postOpen(r) PROVE DurableInv'
  <2>1. UNCHANGED <<voted, decision, joined>>
    BY <1>6 DEF Flush, Crash, postOpen
  <2>2. Keeps({})
    BY <1>6, FlushEffect, CrashEffect, OpenEffect DEF Effect
  <2>. QED
    BY <1>0, <1>2, <2>1, <2>2, DurableKept
<1>7. ASSUME NEW m \in TMs, NEW r \in Regions, recoveryRequest(m, r) PROVE DurableInv'
  <2>1. UNCHANGED <<voted, decision, joined>>
    BY <1>7 DEF recoveryRequest
  <2>. QED
    BY <1>1, <1>2, <1>7, <2>1, RecoveryEffect
<1>8. ASSUME NEW t \in Txns, NEW r \in Regions, Deliver(t, r) PROVE DurableInv'
  <2> DEFINE X == IF decision[t] = "commit" THEN {} ELSE {<<r, t>>}
  <2>1. Keeps(X)
    BY <1>8, DeliverEffect DEF Effect
  <2>2. UNCHANGED <<voted, decision, joined>> /\ r \in todo[t]
    BY <1>8 DEF Deliver
  <2>3. decision[t] # "commit" => ~Protected(r, t)
    BY <2>2 DEF Protected, ClientInv
  <2>4. \A s \in Regions, u \in Txns : <<s, u>> \in X => ~Protected(s, u)
    BY <2>3
  <2> HIDE DEF X
  <2>. QED
    BY <1>0, <1>2, <2>1, <2>2, <2>4, DurableKept
<1>9. ASSUME NEW q \in resolve, DeliverResolve(q) PROVE DurableInv'
  <2> DEFINE X == IF q.op = "commit" THEN {} ELSE {<<q.r, q.t>>}
  <2>1. Keeps(X)
    BY <1>9, ResolveEffect DEF Effect
  <2>2. UNCHANGED <<voted, decision, joined>> /\ q.t \in Txns /\ q.op \in {"commit", "abort"}
    BY <1>9 DEF DeliverResolve, TypeOK
  <2>3. q.op # "commit" /\ Protected(q.r, q.t) => cause[q.t] # {}
    BY <2>2 DEF Protected, ClientInv, RecoveryInv
  <2>4. \A s \in Regions, u \in Txns : <<s, u>> \in X /\ Protected(s, u) => cause[u] # {}
    BY <2>3
  <2> HIDE DEF X
  <2>. QED
    BY <1>0, <1>2, <2>1, <2>2, <2>4, DurableKept
<1>10. ASSUME UNCHANGED <<reg, dropped, restored>>, znode \subseteq znode',
              \A s \in Regions, u \in Txns : Protected(s, u)' => Protected(s, u)
       PROVE  DurableInv'
  BY <1>1, <1>10, NoEffect
<1>11. ASSUME NEW r \in Regions, NEW t \in Txns, choreThreadDetectStaleTransactionBranch(r, t)
       PROVE  DurableInv'
  BY <1>2, <1>10, <1>11 DEF choreThreadDetectStaleTransactionBranch
<1>12. ASSUME NEW t \in Txns,
           prepareCommit(t) \/ Forget(t) \/ completeRequest(t) PROVE DurableInv'
  BY <1>2, <1>10, <1>12 DEF prepareCommit, Forget, completeRequest
<1>13. ASSUME NEW t \in Txns, doCommit(t) PROVE DurableInv'
  <2>1. /\ voted[t] = joined[t] /\ decision' = [decision EXCEPT ![t] = "commit"]
        /\ voted' = [voted EXCEPT ![t] = {}] /\ UNCHANGED <<joined, reg, dropped, restored, znode>>
    BY <1>13 DEF doCommit, PhaseTwo
  <2>2. \A s \in Regions, u \in Txns : Protected(s, u)' => Protected(s, u)
    BY <2>1 DEF Protected, TypeOK
  <2>. QED
    BY <1>10, <2>1, <2>2
<1>14. ASSUME NEW t \in Txns, abortOfTM(t) PROVE DurableInv'
  <2>1. /\ decision' = [decision EXCEPT ![t] = "abort"]
        /\ voted' = [voted EXCEPT ![t] = {}] /\ UNCHANGED <<joined, reg, dropped, restored, znode>>
    BY <1>14 DEF abortOfTM, PhaseTwo
  <2>2. \A s \in Regions, u \in Txns : Protected(s, u)' => Protected(s, u)
    BY <2>1 DEF Protected, TypeOK
  <2>. QED
    BY <1>10, <2>1, <2>2
<1>15. ASSUME NEW t \in Txns, ForgottenFault(t) PROVE DurableInv'
  <2>1. /\ voted' = [voted EXCEPT ![t] = {}] \/ voted' = voted
        /\ UNCHANGED <<decision, joined, reg, dropped, restored, znode>>
    BY <1>15 DEF ForgottenFault, PhaseTwo
  <2>2. \A s \in Regions, u \in Txns : Protected(s, u)' => Protected(s, u)
    BY <2>1 DEF Protected, TypeOK
  <2>. QED
    BY <1>10, <2>1, <2>2
<1>16. ASSUME NEW m \in TMs, TmCrash(m) PROVE DurableInv'
  <2>1. /\ voted' = [t \in Txns |-> IF TmOf[t] = m THEN {} ELSE voted[t]]
        /\ UNCHANGED <<decision, joined, reg, dropped, restored, znode>>
    BY <1>16 DEF TmCrash
  <2>2. \A s \in Regions, u \in Txns : Protected(s, u)' => Protected(s, u)
    BY <2>1 DEF Protected
  <2>. QED
    BY <1>10, <2>1, <2>2
<1>17. ASSUME NEW m \in TMs, addControlPoint(m) \/ checkForRecovery(m) PROVE DurableInv'
  BY <1>2, <1>10, <1>17 DEF addControlPoint, checkForRecovery
<1>18. ASSUME NEW m \in TMs, NEW t \in Txns, Resolve(m, t) PROVE DurableInv'
  BY <1>2, <1>10, <1>18 DEF Resolve
<1>19. ASSUME UNCHANGED vars PROVE DurableInv'
  BY <1>2, <1>10, <1>19 DEF vars
<1>. QED
  BY <1>3, <1>4, <1>5, <1>6, <1>7, <1>8, <1>9, <1>11, <1>12, <1>13, <1>14, <1>15, <1>16,
     <1>17, <1>18, <1>19 DEF Next, RegionStep, ClientStep, RecoveryStep

\* Every step leaves the regions in order and announced.
LEMMA RegionsPreserved ==
    ASSUME TypeOK, RegionsInv, AnnouncedInv, ClientInv, RecoveryInv, LoggingInv, [Next]_vars
    PROVE  Sound /\ RegionsInv' /\ AnnouncedInv'
<1>1. ASSUME NEW X, NEW Y, Effect(X, Y) PROVE Sound /\ Posts
  BY <1>1 DEF Effect
<1>2. ASSUME UNCHANGED <<reg, dropped, restored>>, znode \subseteq znode' PROVE Sound /\ Posts
  BY <1>1, <1>2, NoEffect
<1>3. ASSUME NEW r \in Regions, NEW t \in Txns, beginTransaction(r, t) PROVE Sound /\ Posts
  BY <1>1, <1>3, BeginEffect
<1>4. ASSUME NEW r \in Regions, NEW t \in Txns, commitRequest(r, t) PROVE Sound /\ Posts
  BY <1>1, <1>4, RequestEffect
<1>5. ASSUME NEW r \in Regions, NEW t \in Txns, LogCommitRequest(r, t) PROVE Sound /\ Posts
  BY <1>1, <1>5, LogEffect
<1>6. ASSUME NEW r \in Regions, Flush(r) PROVE Sound /\ Posts
  BY <1>1, <1>6, FlushEffect
<1>7. ASSUME NEW r \in Regions, Crash(r) PROVE Sound /\ Posts
  BY <1>1, <1>7, CrashEffect
<1>8. ASSUME NEW r \in Regions, postOpen(r) PROVE Sound /\ Posts
  BY <1>1, <1>8, OpenEffect
<1>9. ASSUME NEW t \in Txns, NEW r \in Regions, Deliver(t, r) PROVE Sound /\ Posts
  BY <1>1, <1>9, DeliverEffect
<1>10. ASSUME NEW m \in TMs, NEW r \in Regions, recoveryRequest(m, r) PROVE Sound /\ Posts
  BY <1>1, <1>10, RecoveryEffect
<1>11. ASSUME NEW q \in resolve, DeliverResolve(q) PROVE Sound /\ Posts
  BY <1>1, <1>11, ResolveEffect
<1>12. ASSUME NEW r \in Regions, NEW t \in Txns, choreThreadDetectStaleTransactionBranch(r, t)
       PROVE  Sound /\ Posts
  BY <1>2, <1>12 DEF choreThreadDetectStaleTransactionBranch
<1>13. ASSUME NEW t \in Txns,
              prepareCommit(t) \/ doCommit(t) \/ abortOfTM(t) \/ Forget(t) \/ completeRequest(t)
                 \/ ForgottenFault(t)
       PROVE  Sound /\ Posts
  BY <1>2, <1>13 DEF prepareCommit, doCommit, abortOfTM, Forget, completeRequest, ForgottenFault
<1>14. ASSUME NEW m \in TMs, addControlPoint(m) \/ checkForRecovery(m) \/ TmCrash(m)
       PROVE  Sound /\ Posts
  BY <1>2, <1>14 DEF addControlPoint, checkForRecovery, TmCrash
<1>15. ASSUME NEW m \in TMs, NEW t \in Txns, Resolve(m, t) PROVE Sound /\ Posts
  BY <1>2, <1>15 DEF Resolve
<1>16. ASSUME UNCHANGED vars PROVE Sound /\ Posts
  BY <1>2, <1>16 DEF vars
<1>17. Sound /\ Posts
  BY <1>3, <1>4, <1>5, <1>6, <1>7, <1>8, <1>9, <1>10, <1>11, <1>12, <1>13, <1>14, <1>15, <1>16
  DEF Next, RegionStep, ClientStep, RecoveryStep
<1>18. Committed \subseteq Committed' /\ Begun \subseteq Begun'
  <2>1. Evolves
    BY ClientEvolves
  <2>. QED
    BY <2>1 DEF Evolves, Committed, Begun, ClientInv
<1>19. RegionsInv'
  <2> SUFFICES ASSUME NEW s \in Regions PROVE Region(reg'[s], Allowed(s, restored)', Begun')
    BY DEF RegionsInv
  <2>1. Region(reg'[s], Allowed(s, restored'), Begun)
    BY <1>17 DEF Sound
  <2>2. Allowed(s, restored') \subseteq Allowed(s, restored)'
    BY <1>18 DEF Allowed
  <2>. QED
    BY <1>18, <2>1, <2>2, RegionGrows
<1>20. AnnouncedInv'
  BY <1>17 DEF Posts, AnnouncedInv
<1>. QED
  BY <1>17, <1>19, <1>20

\* The type of dropped after SetRegion.
LEMMA SetTypes ==
    ASSUME TypeOK, NEW r \in Regions, NEW h, SetRegion(r, h)
    PROVE  dropped' \subseteq Txns \X Regions
<1>1. reg[r] \in RegionType
  BY DEF TypeOK
<1>2. \A i \in DOMAIN reg[r].log : reg[r].log[i].t \in Txns
  BY <1>1, Types
<1>3. Prepared(reg[r].log) \subseteq Txns
  BY <1>2 DEF Prepared
<1>. QED
  BY <1>3 DEF SetRegion, TypeOK

\* The types of dropped and znode after Execute.
LEMMA ExecuteTypes ==
    ASSUME TypeOK, NEW r \in Regions, NEW t \in Txns, NEW op, Execute(r, op, t)
    PROVE  dropped' \subseteq Txns \X Regions /\ znode' \subseteq znode
<1>1. CASE ~Known(r, op, t)
  BY <1>1 DEF Execute, TypeOK
<1>2. CASE Known(r, op, t)
  <2> DEFINE h == IF op = "commit" THEN commit(reg[r], t) ELSE abortTransaction(reg[r], t)
  <2>1. SetRegion(r, h) /\ znode' = deleteRecoveryzNode(r, reg[r], h, t)
    BY <1>2 DEF Execute
  <2> HIDE DEF h
  <2>2. dropped' \subseteq Txns \X Regions
    BY <2>1, SetTypes
  <2>3. znode' \subseteq znode
    BY <2>1 DEF deleteRecoveryzNode
  <2>. QED
    BY <2>2, <2>3
<1>. QED
  BY <1>1, <1>2

\* The types after a step: requests, zNodes and history.
SideTypes ==
    /\ logging' \subseteq Regions \X Txns
    /\ znode' \subseteq TMs \X Regions
    /\ dropped' \subseteq Txns \X Regions
    /\ restored' \subseteq Txns \X Regions
    /\ resolve' \subseteq [op : {"commit", "abort"}, t : Txns, r : Regions]
    /\ budget' \in 0 .. MaxFailures

\* The types after a step: the TM, its TLOG and the recovery thread.
ClientTypes ==
    /\ tlog' \in [Txns -> Seq(RecordType)]
    /\ ctrlPt' \in [TMs -> 0 .. MaxControlPts]
    /\ phase' \in [Txns -> {"active", "preparing", "sent", "forgotten", "complete", "lost"}]
    /\ joined' \in [Txns -> SUBSET Regions]
    /\ voted' \in [Txns -> SUBSET Regions] /\ todo' \in [Txns -> SUBSET Regions]
    /\ failed' \in [Txns -> BOOLEAN]
    /\ rec' \in [TMs -> [regions : SUBSET Regions, found : [Txns -> SUBSET Regions]]]
    /\ decision' \in [Txns -> {"none", "commit", "abort"}]
    /\ cause' \in [Txns -> SUBSET {"early", "aged", "misread"}]

\* Every step keeps the types of requests, zNodes and history.
LEMMA SideTypesHold ==
    ASSUME TypeOK, [Next]_vars
    PROVE  SideTypes
<1> USE ConstantAssumption
<1>1. ASSUME UNCHANGED <<logging, znode, dropped, restored, resolve>>,
             budget' = budget \/ Spend("TLOG")
      PROVE  SideTypes
  BY <1>1 DEF SideTypes, TypeOK, Spend
<1>2. ASSUME NEW r \in Regions, NEW t \in Txns, beginTransaction(r, t) PROVE SideTypes
  <2>1. dropped' \subseteq Txns \X Regions
    BY <1>2, SetTypes DEF beginTransaction
  <2>. QED
    BY <1>2, <2>1 DEF SideTypes, TypeOK, beginTransaction
<1>3. ASSUME NEW r \in Regions, NEW t \in Txns,
             commitRequest(r, t) \/ LogCommitRequest(r, t)
                \/ choreThreadDetectStaleTransactionBranch(r, t)
      PROVE  SideTypes
  BY <1>3 DEF SideTypes, TypeOK, commitRequest, LogCommitRequest,
     choreThreadDetectStaleTransactionBranch
<1>4. ASSUME NEW r \in Regions, Flush(r) PROVE SideTypes
  <2>1. dropped' \subseteq Txns \X Regions
    BY <1>4, SetTypes DEF Flush
  <2>. QED
    BY <1>4, <2>1 DEF SideTypes, TypeOK, Flush, Spend
<1>5. ASSUME NEW r \in Regions, Crash(r) PROVE SideTypes
  BY <1>5 DEF SideTypes, TypeOK, Crash, Spend
<1>6. ASSUME NEW r \in Regions, postOpen(r) PROVE SideTypes
  <2>1. PICK h : SetRegion(r, h)
    BY <1>6 DEF postOpen
  <2>2. dropped' \subseteq Txns \X Regions
    BY <2>1, SetTypes
  <2>3. znode' = znode \cup {<<TmOf[t], r>> : t \in preWALRestore(reg[r].log)}
    BY <1>6 DEF postOpen
  <2>4. znode' \subseteq TMs \X Regions
    BY <2>3 DEF TypeOK, preWALRestore
  <2>5. restored' \subseteq Txns \X Regions
    <3>1. \A t \in RestoredEdits(reg[r].log) : t \in Txns
      <4>1. reg[r] \in RegionType
        BY DEF TypeOK
      <4>. QED
        BY <4>1, Types DEF RestoredEdits
    <3>2. \/ restored' = restored
          \/ restored' = restored \cup {<<t, r>> : t \in RestoredEdits(reg[r].log)
                            \ (reg[r].store \cup replayCommittedTransaction(reg[r].log))}
      BY <1>6 DEF postOpen
    <3>. QED
      BY <3>1, <3>2 DEF TypeOK
  <2>. QED
    BY <1>6, <2>2, <2>4, <2>5 DEF SideTypes, TypeOK, postOpen
<1>7. ASSUME NEW t \in Txns,
             prepareCommit(t) \/ doCommit(t) \/ abortOfTM(t) \/ Forget(t) \/ completeRequest(t)
                \/ ForgottenFault(t)
      PROVE  SideTypes
  BY <1>1, <1>7 DEF prepareCommit, doCommit, abortOfTM, Forget, completeRequest, ForgottenFault
<1>8. ASSUME NEW t \in Txns, NEW r \in Regions, Deliver(t, r) PROVE SideTypes
  <2>1. dropped' \subseteq Txns \X Regions /\ znode' \subseteq znode
    BY <1>8, ExecuteTypes DEF Deliver, TypeOK
  <2>. QED
    BY <1>8, <2>1 DEF SideTypes, TypeOK, Deliver
<1>9. ASSUME NEW m \in TMs, addControlPoint(m) \/ checkForRecovery(m) PROVE SideTypes
  BY <1>1, <1>9 DEF addControlPoint, checkForRecovery
<1>10. ASSUME NEW m \in TMs, TmCrash(m) PROVE SideTypes
  BY <1>10 DEF SideTypes, TypeOK, TmCrash, Spend
<1>11. ASSUME NEW m \in TMs, NEW r \in Regions, recoveryRequest(m, r) PROVE SideTypes
  <2>1. dropped' \subseteq Txns \X Regions
    BY <1>11, SetTypes DEF recoveryRequest, TypeOK
  <2>2. znode' \subseteq znode
    BY <1>11 DEF recoveryRequest
  <2>. QED
    BY <1>11, <2>1, <2>2 DEF SideTypes, TypeOK, recoveryRequest
<1>12. ASSUME NEW m \in TMs, NEW t \in Txns, Resolve(m, t) PROVE SideTypes
  <2>1. PICK fault \in BOOLEAN :
         /\ IF fault THEN Spend("TLOG") ELSE UNCHANGED budget
         /\ LET state == IF fault THEN "NOTX" ELSE getTransactionState(t)
                rs == IF state = "NOTX" THEN rec[m].found[t] ELSE joined[t]
                op == IF state = "COMMITTED" THEN "commit" ELSE "abort"
            IN resolve' = resolve \cup {[op |-> op, t |-> t, r |-> r] : r \in rs}
    BY <1>12 DEF Resolve
  <2> DEFINE state == IF fault THEN "NOTX" ELSE getTransactionState(t)
             op == IF state = "COMMITTED" THEN "commit" ELSE "abort"
             rs == IF state = "NOTX" THEN rec[m].found[t] ELSE joined[t]
  <2>2. resolve' = resolve \cup {[op |-> op, t |-> t, r |-> r] : r \in rs}
    BY <2>1, Zenon
  <2>3. op \in {"commit", "abort"} /\ rs \subseteq Regions
    <3> HIDE DEF state
    <3>. QED
      BY DEF TypeOK
  <2> HIDE DEF op, rs
  <2>4. resolve' \subseteq [op : {"commit", "abort"}, t : Txns, r : Regions]
    BY <2>2, <2>3 DEF TypeOK
  <2>5. budget' \in 0 .. MaxFailures
    BY <2>1 DEF TypeOK, Spend
  <2>. QED
    BY <1>12, <2>4, <2>5 DEF SideTypes, TypeOK, Resolve
<1>13. ASSUME NEW q \in resolve, DeliverResolve(q) PROVE SideTypes
  <2>1. q.r \in Regions /\ q.t \in Txns
    BY DEF TypeOK
  <2>2. dropped' \subseteq Txns \X Regions /\ znode' \subseteq znode
    BY <1>13, <2>1, ExecuteTypes DEF DeliverResolve, TypeOK
  <2>. QED
    BY <1>13, <2>2 DEF SideTypes, TypeOK, DeliverResolve
<1>14. ASSUME UNCHANGED vars PROVE SideTypes
  BY <1>1, <1>14 DEF vars
<1>. QED
  BY <1>2, <1>3, <1>4, <1>5, <1>6, <1>7, <1>8, <1>9, <1>10, <1>11, <1>12, <1>13, <1>14
  DEF Next, RegionStep, ClientStep, RecoveryStep

\* putSingleRecord keeps the type of the TLOG.
LEMMA RowTyped ==
    ASSUME TypeOK, NEW t \in Txns, NEW state \in {"COMMITTED", "ABORTED", "FORGOTTEN"},
           putSingleRecord(t, state)
    PROVE  tlog' \in [Txns -> Seq(RecordType)]
<1> DEFINE e == [state |-> state, cp |-> ctrlPt[TmOf[t]]]
<1>1. e \in RecordType
  BY ConstantAssumption DEF TypeOK, RecordType
<1>2. tlog' = [tlog EXCEPT ![t] = Append(@, e)]
  BY DEF putSingleRecord
<1>3. tlog \in [Txns -> Seq(RecordType)]
  BY DEF TypeOK, RecordType
<1> HIDE DEF e
<1>4. Append(tlog[t], e) \in Seq(RecordType)
  BY <1>1, <1>3, RowFacts
<1>. QED
  BY <1>2, <1>3, <1>4

\* Every step keeps the types of the TM.
LEMMA ClientTypesHold ==
    ASSUME TypeOK, [Next]_vars
    PROVE  ClientTypes
<1> DEFINE Kin == [regions : SUBSET Regions, found : [Txns -> SUBSET Regions]]
<1>0. tlog \in [Txns -> Seq(RecordType)]
  BY DEF TypeOK, RecordType
<1>1. ASSUME UNCHANGED <<tlog, ctrlPt, phase, joined, voted, todo, failed, rec, decision,
          cause>>
      PROVE  ClientTypes
  BY <1>0, <1>1 DEF ClientTypes, TypeOK
<1>2. ASSUME NEW r \in Regions, NEW t \in Txns,
             beginTransaction(r, t) \/ LogCommitRequest(r, t) \/ Deliver(t, r)
      PROVE  ClientTypes
  <2>1. CASE beginTransaction(r, t)
    BY <1>0, <2>1 DEF ClientTypes, TypeOK, beginTransaction
  <2>2. CASE LogCommitRequest(r, t)
    BY <1>0, <2>2 DEF ClientTypes, TypeOK, LogCommitRequest
  <2>3. CASE Deliver(t, r)
    <3>1. /\ \E b \in BOOLEAN : failed' = [failed EXCEPT ![t] = b]
          /\ \E R \in SUBSET Regions : todo' = [todo EXCEPT ![t] = R]
      BY <2>3 DEF Deliver, TypeOK
    <3>2. failed' \in [Txns -> BOOLEAN] /\ todo' \in [Txns -> SUBSET Regions]
      BY <3>1 DEF TypeOK
    <3>3. UNCHANGED <<tlog, ctrlPt, phase, joined, voted, rec, decision, cause>>
      BY <2>3 DEF Deliver
    <3>. QED
      BY <1>0, <3>2, <3>3 DEF ClientTypes, TypeOK
  <2>. QED
    BY <1>2, <2>1, <2>2, <2>3
<1>3. ASSUME NEW r \in Regions, NEW t \in Txns,
             commitRequest(r, t) \/ choreThreadDetectStaleTransactionBranch(r, t)
      PROVE  ClientTypes
  BY <1>1, <1>3 DEF commitRequest, choreThreadDetectStaleTransactionBranch
<1>4. ASSUME NEW r \in Regions, Flush(r) \/ Crash(r) \/ postOpen(r) PROVE ClientTypes
  BY <1>1, <1>4 DEF Flush, Crash, postOpen
<1>5. ASSUME NEW t \in Txns, prepareCommit(t) \/ completeRequest(t) PROVE ClientTypes
  BY <1>0, <1>5 DEF ClientTypes, TypeOK, prepareCommit, completeRequest
<1>6. ASSUME NEW t \in Txns, doCommit(t) PROVE ClientTypes
  <2>1. tlog' \in [Txns -> Seq(RecordType)]
    BY <1>6, RowTyped DEF doCommit, PhaseTwo
  <2>. QED
    BY <1>6, <2>1 DEF ClientTypes, TypeOK, doCommit, PhaseTwo
<1>7. ASSUME NEW t \in Txns, abortOfTM(t) PROVE ClientTypes
  <2>1. tlog' \in [Txns -> Seq(RecordType)]
    BY <1>7, RowTyped DEF abortOfTM, PhaseTwo
  <2>. QED
    BY <1>7, <2>1 DEF ClientTypes, TypeOK, abortOfTM, PhaseTwo
<1>8. ASSUME NEW t \in Txns, Forget(t) PROVE ClientTypes
  <2>1. tlog' \in [Txns -> Seq(RecordType)]
    BY <1>8, RowTyped DEF Forget
  <2>. QED
    BY <1>8, <2>1 DEF ClientTypes, TypeOK, Forget
<1>9. ASSUME NEW t \in Txns, ForgottenFault(t) PROVE ClientTypes
  <2>1. tlog' \in [Txns -> Seq(RecordType)]
    BY <1>0, <1>9, RowTyped DEF ForgottenFault, PhaseTwo
  <2>2. /\ voted' \in [Txns -> SUBSET Regions] /\ todo' \in [Txns -> SUBSET Regions]
        /\ failed' \in [Txns -> BOOLEAN]
        /\ phase' \in [Txns -> {"active", "preparing", "sent", "forgotten", "complete", "lost"}]
    <3>1. CASE decision[t] = "commit"
      <4>1. /\ phase' = [phase EXCEPT ![t] = "sent"] /\ todo' = [todo EXCEPT ![t] = joined[t]]
            /\ voted' = [voted EXCEPT ![t] = {}] /\ failed' = [failed EXCEPT ![t] = FALSE]
        BY <1>9, <3>1 DEF ForgottenFault, PhaseTwo
      <4>. QED
        BY <4>1 DEF TypeOK
    <3>2. CASE decision[t] # "commit"
      <4>1. phase' = [phase EXCEPT ![t] = "forgotten"] /\ UNCHANGED <<todo, voted, failed>>
        BY <1>9, <3>2 DEF ForgottenFault
      <4>. QED
        BY <4>1 DEF TypeOK
    <3>. QED
      BY <3>1, <3>2
  <2>3. UNCHANGED <<ctrlPt, joined, rec, decision, cause>>
    BY <1>9 DEF ForgottenFault
  <2>. QED
    BY <2>1, <2>2, <2>3 DEF ClientTypes, TypeOK
<1>10. ASSUME NEW m \in TMs, addControlPoint(m) PROVE ClientTypes
  <2> DEFINE n == ctrlPt[m] + 1
             e == [state |-> "COMMITTED", cp |-> ctrlPt[m]]
             written == [t \in Txns |->
                 IF TmOf[t] = m /\ InMap(t) /\ decision[t] = "commit"
                 THEN Append(tlog[t], e) ELSE tlog[t]]
             old == {t \in Txns : /\ TmOf[t] = m
                                  /\ n > Keep /\ n % Keep = 0
                                  /\ Aged(written[t], n - Keep)}
  <2>1. /\ tlog' = [t \in Txns |-> IF t \in old THEN <<>> ELSE written[t]]
        /\ cause' = [t \in Txns |-> IF t \in old THEN cause[t] \cup {"aged"} ELSE cause[t]]
    BY <1>10 DEF addControlPoint
  <2>2. /\ ctrlPt' = [ctrlPt EXCEPT ![m] = n] /\ ctrlPt[m] < MaxControlPts
        /\ UNCHANGED <<phase, joined, voted, todo, failed, rec, decision>>
    BY <1>10 DEF addControlPoint
  <2>3. e \in RecordType
    BY DEF TypeOK, RecordType
  <2>4. ASSUME NEW t \in Txns PROVE Append(tlog[t], e) \in Seq(RecordType)
    <3> HIDE DEF e
    <3>. QED
      BY <1>0, <2>3, RowFacts
  <2>5. \A t \in Txns : written[t] \in Seq(RecordType)
    <3> HIDE DEF e
    <3>. QED
      BY <1>0, <2>4
  <2> HIDE DEF written, old
  <2>6. tlog' \in [Txns -> Seq(RecordType)]
    BY <2>1, <2>5
  <2>7. cause' \in [Txns -> SUBSET {"early", "aged", "misread"}]
    BY <2>1 DEF TypeOK
  <2>8. ctrlPt' \in [TMs -> 0 .. MaxControlPts]
    BY <2>2, ConstantAssumption DEF TypeOK
  <2>. QED
    BY <2>2, <2>6, <2>7, <2>8 DEF ClientTypes, TypeOK
<1>11. ASSUME NEW m \in TMs, checkForRecovery(m) PROVE ClientTypes
  <2> DEFINE rs == {r \in Regions : <<m, r>> \in znode}
  <2>1. rec' = [rec EXCEPT ![m].regions = rs] /\ rs \subseteq Regions
    BY <1>11 DEF checkForRecovery
  <2> HIDE DEF rs
  <2>2. rec' \in [TMs -> Kin]
    <3>1. rec \in [TMs -> Kin] /\ rec[m] \in Kin
      BY DEF TypeOK
    <3>2. [rec[m] EXCEPT !.regions = rs] \in Kin
      BY <2>1, <3>1
    <3>. QED
      BY <2>1, <3>1, <3>2
  <2>. QED
    BY <1>0, <1>11, <2>2 DEF ClientTypes, TypeOK, checkForRecovery
<1>12. ASSUME NEW m \in TMs, TmCrash(m) PROVE ClientTypes
  <2>1. Idle \in Kin
    BY DEF Idle, Pass
  <2>2. rec' \in [TMs -> Kin]
    BY <1>12, <2>1 DEF TypeOK, TmCrash
  <2>3. /\ voted' \in [Txns -> SUBSET Regions] /\ todo' \in [Txns -> SUBSET Regions]
        /\ failed' \in [Txns -> BOOLEAN]
        /\ phase' \in [Txns -> {"active", "preparing", "sent", "forgotten", "complete", "lost"}]
    BY <1>12 DEF TypeOK, TmCrash
  <2>4. UNCHANGED <<tlog, ctrlPt, joined, decision, cause>>
    BY <1>12 DEF TmCrash
  <2>. QED
    BY <1>0, <2>2, <2>3, <2>4 DEF ClientTypes, TypeOK
<1>13. ASSUME NEW m \in TMs, NEW r \in Regions, recoveryRequest(m, r) PROVE ClientTypes
  <2>1. PICK ts : rec' = [rec EXCEPT ![m] = Pass(@.regions \ {r},
                    [t \in Txns |-> @.found[t] \cup IF t \in ts THEN {r} ELSE {}])]
    BY <1>13 DEF recoveryRequest
  <2>2. rec[m] \in Kin
    BY DEF TypeOK
  <2>3. Pass(rec[m].regions \ {r},
             [t \in Txns |-> rec[m].found[t] \cup IF t \in ts THEN {r} ELSE {}]) \in Kin
    BY <2>2 DEF Pass
  <2>4. rec' \in [TMs -> Kin]
    BY <2>1, <2>3 DEF TypeOK
  <2>. QED
    BY <1>0, <1>13, <2>4 DEF ClientTypes, TypeOK, recoveryRequest
<1>14. ASSUME NEW m \in TMs, NEW t \in Txns, Resolve(m, t) PROVE ClientTypes
  <2>1. PICK fault \in BOOLEAN : cause' = [cause EXCEPT ![t] = @
                  \cup (IF fault THEN {"misread"} ELSE {})
                  \cup (IF phase[t] = "preparing" THEN {"early"} ELSE {})]
    BY <1>14 DEF Resolve
  <2>2. cause' \in [Txns -> SUBSET {"early", "aged", "misread"}]
    BY <2>1 DEF TypeOK
  <2>3. rec' = [rec EXCEPT ![m] = Pass({}, [@.found EXCEPT ![t] = {}])]
    BY <1>14 DEF Resolve
  <2>4. Pass({}, [rec[m].found EXCEPT ![t] = {}]) \in Kin
    BY DEF Pass, TypeOK
  <2>5. rec' \in [TMs -> Kin]
    BY <2>3, <2>4 DEF TypeOK
  <2>. QED
    BY <1>0, <1>14, <2>2, <2>5 DEF ClientTypes, TypeOK, Resolve
<1>15. ASSUME NEW q \in resolve, DeliverResolve(q) PROVE ClientTypes
  BY <1>1, <1>15 DEF DeliverResolve
<1>16. ASSUME UNCHANGED vars PROVE ClientTypes
  BY <1>1, <1>16 DEF vars
<1>. QED
  BY <1>2, <1>3, <1>4, <1>5, <1>6, <1>7, <1>8, <1>9, <1>10, <1>11, <1>12, <1>13, <1>14,
     <1>15, <1>16 DEF Next, RegionStep, ClientStep, RecoveryStep

\* Inv is an invariant of every behaviour, with any number of transactions,
\* regions and TMs, and any number of crashes.
LEMMA InvHolds == Spec => []Inv
<1>1. Init => Inv
  <2> SUFFICES ASSUME Init PROVE Inv
    OBVIOUS
  <2> USE ConstantAssumption
  <2> DEFINE g == [Closed({}, <<>>) EXCEPT !.up = TRUE, !.built = TRUE, !.state = 2]
  <2>1. \A r \in Regions : reg[r] = g
    BY DEF Init
  <2>2. /\ g \in RegionType /\ g.up /\ g.built /\ g.state = 2 /\ g.indoubt = {} /\ g.log = <<>>
        /\ g.synced = 0 /\ g.store = {} /\ g.files = {}
        /\ \A t \in Txns : g.pend[t] = "none"
        /\ \A m \in TMs : g.count[m] = 0
    <3> DEFINE c == Closed({}, <<>>)
    <3>1. <<>> \in Seq([op : Ops, t : Txns]) /\ Len(<<>>) = 0
      OBVIOUS
    <3>2. /\ c \in RegionType /\ c.indoubt = {} /\ c.log = <<>> /\ c.synced = 0
          /\ c.store = {} /\ c.files = {} /\ c.pend = [t \in Txns |-> "none"]
          /\ c.count = [m \in TMs |-> 0]
      BY <3>1 DEF Closed, RegionType
    <3> HIDE DEF c
    <3>3. /\ g \in RegionType /\ g.up /\ g.built /\ g.state = 2 /\ g.indoubt = c.indoubt
          /\ g.log = c.log /\ g.synced = c.synced /\ g.store = c.store /\ g.files = c.files
          /\ g.pend = c.pend /\ g.count = c.count
      BY <3>2 DEF RegionType, c
    <3>. QED
      BY <3>2, <3>3
  <2>3. Len(g.log) = 0
    BY <2>2
  <2> HIDE DEF g
  <2>4. Good(g) /\ (\A C : Within(g, C)) /\ Asked(g, Begun)
    BY <2>2, <2>3 DEF Good, Within, Asked
  <2>5. Counted(g)
    <3>1. \A m \in TMs : Mine(g, m) = {}
      BY <2>2 DEF Mine
    <3>2. IsFiniteSet({}) /\ Cardinality({}) = 0
      BY FS_EmptySet
    <3>. QED
      BY <2>2, <3>1, <3>2 DEF Counted
  <2>6. RegionsInv /\ AnnouncedInv
    BY <2>1, <2>2, <2>4, <2>5 DEF RegionsInv, Region, AnnouncedInv
  <2>7. /\ logging = {} /\ znode = {} /\ resolve = {} /\ tlog = [t \in Txns |-> <<>>]
        /\ ctrlPt = [m \in TMs |-> 0] /\ phase = [t \in Txns |-> "active"]
        /\ joined = [t \in Txns |-> {}] /\ voted = joined /\ todo = joined
        /\ failed = [t \in Txns |-> FALSE] /\ rec = [m \in TMs |-> Idle]
        /\ budget = MaxFailures /\ decision = [t \in Txns |-> "none"]
        /\ dropped = {} /\ restored = {} /\ cause = [t \in Txns |-> {}]
    BY DEF Init
  <2>8. ClientInv /\ LoggingInv
    BY <2>7 DEF ClientInv, LoggingInv
  <2>9. TlogInv
    <3>1. \A t \in Txns : Len(tlog[t]) = 0 /\ decision[t] = "none"
      BY <2>7
    <3>. QED
      BY <3>1 DEF TlogInv
  <2>10. RecoveryInv /\ DurableInv
    <3>1. \A m \in TMs, t \in Txns : rec[m].found[t] = {}
      BY <2>7 DEF Idle, Pass
    <3>. QED
      BY <2>7, <3>1 DEF RecoveryInv, DurableInv, Protected
  <2>11. TypeOK
    <3>1. reg \in [Regions -> RegionType]
      BY <2>2 DEF Init, g
    <3>2. Idle \in [regions : SUBSET Regions, found : [Txns -> SUBSET Regions]]
      BY DEF Idle, Pass
    <3>3. \A r \in Regions :
             /\ reg[r].synced <= Len(reg[r].log)
             /\ reg[r].files \subseteq reg[r].store
             /\ \A t \in Txns : reg[r].pend[t] # "reinstated"
      BY <2>1, <2>2, <2>3
    <3>4. tlog \in [Txns -> Seq([state : {"COMMITTED", "ABORTED", "FORGOTTEN"}, cp : Nat])]
      BY <2>7
    <3>. QED
      BY <2>7, <3>1, <3>2, <3>3, <3>4 DEF TypeOK
  <2>. QED
    BY <2>6, <2>8, <2>9, <2>10, <2>11 DEF Inv
<1>2. Inv /\ [Next]_vars => Inv'
  <2> SUFFICES ASSUME Inv, [Next]_vars PROVE Inv'
    OBVIOUS
  <2>1. /\ TypeOK /\ RegionsInv /\ ClientInv /\ TlogInv /\ RecoveryInv /\ LoggingInv
        /\ AnnouncedInv /\ DurableInv
    BY DEF Inv
  <2>2. Sound /\ RegionsInv' /\ AnnouncedInv'
    BY <2>1, RegionsPreserved
  <2>3. ClientInv' /\ TlogInv'
    BY <2>1, ClientPreserved, TlogPreserved
  <2>4. RecoveryInv' /\ LoggingInv'
    BY <2>1, RecoveryPreserved, LoggingPreserved
  <2>5. DurableInv'
    BY <2>1, DurablePreserved
  <2>6. TypeOK'
    <3>1. SideTypes /\ ClientTypes
      BY <2>1, SideTypesHold, ClientTypesHold
    <3>2. reg' \in [Regions -> RegionType] /\ \A r \in Regions : Good(reg'[r])
      BY <2>2 DEF Sound, Region
    <3>3. \A r \in Regions :
             /\ reg'[r].synced <= Len(reg'[r].log)
             /\ reg'[r].files \subseteq reg'[r].store
             /\ \A t \in Txns : reg'[r].pend[t] = "reinstated" =>
                   reg'[r].up /\ reg'[r].built /\ t \in reg'[r].indoubt
      BY <3>2 DEF Good
    <3>. QED
      BY <3>1, <3>2, <3>3 DEF TypeOK, SideTypes, ClientTypes, RecordType
  <2>. QED
    BY <2>2, <2>3, <2>4, <2>5, <2>6 DEF Inv
<1>. QED
  BY <1>1, <1>2, PTL DEF Spec

\* The type invariant holds, in particular: the synced part of a log is part
\* of it, the files are part of the store, and only a region that is up and
\* has rebuilt its lists has reinstated transactions.
THEOREM RecoveryTypeCorrect == Spec => []TypeOK
<1>1. Inv => TypeOK
  BY DEF Inv
<1>. QED
  BY <1>1, InvHolds, PTL

\* Whatever is in a table the TM has decided to commit, or HBase itself has
\* restored from the log: neither the replay by this code (preWALRestore,
\* replayCommittedTransaction), nor the recovery thread, nor a late request of
\* phase two brings in the writes of another transaction.
THEOREM TablesAreExplained == Spec => []StoredIsExplained
<1>1. Inv => StoredIsExplained
  BY DEF Inv, StoredIsExplained, RegionsInv, Region, Within, Allowed, Committed
<1>. QED
  BY <1>1, InvHolds, PTL

\* The count of the transactions in doubt of a TM is right and its zNode is
\* there as long as one is left, whatever is resolved, opened and crashes in
\* which order.
THEOREM InDoubtIsAnnounced == Spec => []InDoubtAnnounced
<1>1. Inv => InDoubtAnnounced
  BY DEF Inv, InDoubtAnnounced, RegionsInv, Region, Counted, Mine, AnnouncedInv
<1>. QED
  BY <1>1, InvHolds, PTL

\* A committed transaction is in the table, pending or in doubt in every
\* region it joined that is up, however often servers and TMs crash, but for
\* the four holes the code leaves: a prepare edit flushed away before its
\* writes, and an abort by the recovery thread that read the TLOG too early,
\* after its record went with age, or not at all.
THEOREM LossIsExplained == Spec => []LostIsExplained
<1>1. ASSUME Inv PROVE LostIsExplained
  <2> SUFFICES ASSUME NEW r \in Regions, NEW t \in Txns, decision[t] = "commit",
      r \in joined[t],
                      reg[r].up,
                      t \notin reg[r].store \cup reg[r].indoubt \cup CommitPending(reg[r])
               PROVE  <<t, r>> \in dropped \/ cause[t] # {}
    BY DEF LostIsExplained
  <2>1. <<t, r>> \in dropped \/ cause[t] # {} \/ Durable(reg[r], t)
    BY <1>1 DEF Inv, DurableInv, Protected
  <2>2. ~Durable(reg[r], t)
    BY DEF Durable, Held, CommitPending
  <2>. QED
    BY <2>1, <2>2
<1>. QED
  BY <1>1, InvHolds, PTL
============================================================================
