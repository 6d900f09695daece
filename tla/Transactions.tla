---------------------------- MODULE Transactions ----------------------------
(***************************************************************************)
(* Transactions over the lock manager: txn_manager.c (begin, commit,       *)
(* abort), deadlock_detector.c (one outgoing wait edge per transaction)    *)
(* and the log they write to.  Nothing in src calls lock_acquire or the    *)
(* detector yet.  The clients here are the ones the code is made for: a    *)
(* client told DB_LOCK_CONFLICT ("must wait", lock_manager.h:39) records   *)
(* whom it waits for and runs the detector, as "whenever a lock request    *)
(* waits" (design.md:1377) says, aborts the victim, and may repeat the     *)
(* request, for which lock_acquire has a branch (lock_manager.c:75).       *)
(* Nothing says that it does: no fairness is assumed.                      *)
(***************************************************************************)
EXTENDS LockManager, Wal, FiniteSets

CONSTANT Modes     \* bound: resource -> the lock modes the clients ask for

ASSUME TxnAssumption ==
  /\ Txns \subseteq Nat \ {0} /\ IsFiniteSet(Txns)
  /\ Modes \in [Resources -> SUBSET Mode]

VARIABLES
  next_txn_id,
  txn_state,       \* transaction -> its state; the active ones are active_txns
  last_lsn,        \* transaction -> its latest log record
  waits_for,       \* the detector: partial function, who waits for whom
  want,            \* client: transaction -> the lock it waits for, or NoLock
  blamed           \* history: victims that were not part of a deadlock

txnVars == <<next_txn_id, txn_state, last_lsn>>
clientVars == <<waits_for, want, blamed>>
transVars == <<lockVars, walVars, txnVars, clientVars>>

NoLock == [r |-> "none", m |-> "none"]
Active(t) == txn_state[t] = "TXN_ACTIVE"
Waiting(t) == want[t] # NoLock

-----------------------------------------------------------------------------
(* deadlock_detector.c *)

\* deadlock_add_edge overwrites the edge t already has.
WithEdge(w, t, u) == [v \in DOMAIN w \cup {t} |-> IF v = t THEN u ELSE w[v]]

\* deadlock_remove_edges removes the outgoing edge only.
WithoutEdge(w, t) == [v \in DOMAIN w \ {t} |-> w[v]]

\* The walk along w from s: where it stands after n edges; NoTxn past the end.
NoTxn == 0
WalkFrom(w, s) ==
  LET next == [v \in Txns \cup {NoTxn} |-> IF v \in DOMAIN w THEN w[v] ELSE NoTxn]
      walk[n \in 0 .. Cardinality(Txns)] == IF n = 0 THEN s ELSE next[walk[n - 1]]
  IN walk

\* Mutants of the next definition: the start is blamed; only a transaction
\* waiting for itself is found.
DetectedFrom_Start(w, s) ==
  IF WalkFrom(w, s)[Cardinality(Txns)] # NoTxn THEN {s} ELSE {}

DetectedFrom_SelfLoop(w, s) == IF w[s] = s THEN {s} ELSE {}

\* The first transaction the walk from s meets twice, if any: the one the walk
\* returns to in the fewest steps.
DetectedFrom(w, s) ==
  LET walk == WalkFrom(w, s)
      Again(n) == walk[n] # NoTxn /\ \E k \in 0 .. n - 1 : walk[k] = walk[n]
  IN  {walk[n] : n \in {m \in DOMAIN walk : Again(m) /\ \A k \in 0 .. m - 1 : ~Again(k)}}

\* deadlock_detect walks from every key in the order of the hash table and
\* returns the first victim found: any of these, or none when it is empty.
deadlock_detect(w) == UNION {DetectedFrom(w, s) : s \in DOMAIN w}

-----------------------------------------------------------------------------
(* txn_manager.c *)

\* txn_begin: the BEGIN record is not flushed.
txn_begin(t) ==
  /\ t = next_txn_id
  /\ next_txn_id' = next_txn_id + 1
  /\ txn_state' = [txn_state EXCEPT ![t] = "TXN_ACTIVE"]
  /\ last_lsn' = [last_lsn EXCEPT ![t] = current_lsn]
  /\ wal_append(LogRecord(t, "WAL_BEGIN", INVALID_LSN))
  /\ UNCHANGED <<flushed_lsn, lockVars, clientVars>>

EndRecord(t, type) == LogRecord(t, type, last_lsn[t])

\* The common body of txn_commit and txn_abort but for the locks, which their
\* callers here release in the same step: nothing runs between the two calls.
\* Nobody looks at what writing the record returned.
Finish(t, type, state) ==
  /\ txn_state' = [txn_state EXCEPT ![t] = state]
  /\ wal_append(EndRecord(t, type))
  /\ wal_flush(current_lsn)
  /\ last_lsn' = [last_lsn EXCEPT ![t] = current_lsn]
  /\ UNCHANGED next_txn_id

\* txn_commit, by a client that is not waiting; it then clears its edge.
txn_commit(t) ==
  /\ Active(t) /\ ~Waiting(t)
  /\ Finish(t, "WAL_COMMIT", "TXN_COMMITTED")
  /\ LockReleaseAll(t)
  /\ waits_for' = WithoutEdge(waits_for, t)
  /\ UNCHANGED <<want, blamed>>

\* txn_abort: a client gives up, waiting or not.
txn_abort(t) ==
  /\ Active(t)
  /\ Finish(t, "WAL_ABORT", "TXN_ABORTED")
  /\ LockReleaseAll(t)
  /\ waits_for' = WithoutEdge(waits_for, t)
  /\ want' = [want EXCEPT ![t] = NoLock]
  /\ UNCHANGED blamed

-----------------------------------------------------------------------------
(* Clients that need a lock *)

\* Those who keep a request of t for mode m on queue q from being granted.
Holders(q, t, m) ==
  {u \in Txns \ {t} : IsHolder(q, u) /\ ~lock_compatible(m, q[IndexOf(q, u)].mode)}

\* What lock_acquire makes of the queues.
AfterAcquire(t, r, m) == [queue EXCEPT ![r] = Acquired(@, t, m)]

\* DB_OK: t goes on and clears its edge.
Granted(t, r, m) ==
  /\ want' = [want EXCEPT ![t] = NoLock]
  /\ AcquireRc(queue[r], t, m) = "DB_OK"
  /\ LockAcquire(t, r, m)
  /\ waits_for' = WithoutEdge(waits_for, t)
  /\ UNCHANGED <<walVars, txnVars, blamed>>

\* t waits for u on one of the queues.
WaitsOn(queues, t, u) ==
  \E r \in Resources :
     /\ IsWaiter(queues[r], t)
     /\ u \in Holders(queues[r], t, queues[r][IndexOf(queues[r], t)].mode)

\* A path of steps of Edge leads from t back to t.
OnCycle(Edge(_, _), t) ==
  \E n \in 1 .. Cardinality(Txns) : \E path \in [0 .. n -> Txns] :
     /\ path[0] = t /\ path[n] = t
     /\ \A k \in 1 .. n : Edge(path[k - 1], path[k])

Deadlocked(queues, t) == OnCycle(LAMBDA u, v : WaitsOn(queues, u, v), t)

\* DB_LOCK_CONFLICT: t adds an edge for each conflicting holder, of which the
\* last one, u, is left, and runs the detector.  It finds nothing, or it names
\* a victim v, which is aborted at once: the request and the release are then
\* one step of the queues.
Refused(t, r, m, u) ==
  LET edges == WithEdge(waits_for, t, u)
      victims == deadlock_detect(edges)
      queues == AfterAcquire(t, r, m)
      wanted == [want EXCEPT ![t] = [r |-> r, m |-> m]]
  IN \/ /\ want' = wanted
        /\ LockAcquire(t, r, m)
        /\ victims = {}
        /\ waits_for' = edges
        /\ UNCHANGED <<walVars, txnVars, blamed>>
     \/ \E v \in Txns :
        /\ Finish(v, "WAL_ABORT", "TXN_ABORTED")
        /\ v \in victims
        /\ want' = [wanted EXCEPT ![v] = NoLock]
        /\ waits_for' = WithoutEdge(edges, v)
        /\ ReleasedBy(v, queues)
        /\ blamed' = IF Deadlocked(queues, v) THEN blamed ELSE blamed \cup {v}

Acquire(t, r, m) ==
  /\ Active(t)
  /\ \/ Granted(t, r, m)
     \/ /\ AcquireRc(queue[r], t, m) = "DB_LOCK_CONFLICT"
        /\ \E u \in Holders(queue[r], t, m) : Refused(t, r, m, u)

Ask(t) == ~Waiting(t) /\ \E r \in Resources : \E m \in Modes[r] : Acquire(t, r, m)
Retry(t) == Waiting(t) /\ Acquire(t, want[t].r, want[t].m)

-----------------------------------------------------------------------------
(* Specification *)

TransInit ==
  /\ LockInit /\ WalInit
  /\ next_txn_id = 1
  /\ txn_state = [t \in Txns |-> "TXN_INVALID"]
  /\ last_lsn = [t \in Txns |-> INVALID_LSN]
  /\ waits_for = [t \in {} |-> 0]
  /\ want = [t \in Txns |-> NoLock]
  /\ blamed = {}

TransNext ==
  \E t \in Txns : txn_begin(t) \/ txn_commit(t) \/ txn_abort(t) \/ Ask(t) \/ Retry(t)

TransSpec == TransInit /\ [][TransNext]_transVars

-----------------------------------------------------------------------------
(* Properties *)

\* No lock is leaked: only active transactions have requests in the queues, so
\* nobody waits for one that is over.
OnlyActiveInQueues ==
  \A r \in Resources, t \in Txns : HasRequest(queue[r], t) => Active(t)

\* Nobody is aborted without need: a victim of the detector was part of a
\* real deadlock, although edges are neither removed when the holder finishes
\* nor moved when a release lets another waiter in.  For clients that ask for
\* S and X: a holder whose mode lock_acquire weakens leaves false edges.
NoPhantomDeadlock == blamed = {}

\* The edge from u that the detector keeps leads to v.
Recorded(u, v) == u \in DOMAIN waits_for /\ waits_for[u] = v

\* The detector misses no deadlock among the edges it keeps: when a call has
\* ended, with its victim aborted, no cycle of edges is left, whichever edges were
\* overwritten, went stale or lost their start meanwhile.  A wait whose edge was
\* overwritten is forgotten, and a deadlock through it not found.
RecordedDeadlocksBroken == \A t \in Txns : ~OnCycle(Recorded, t)
=============================================================================
