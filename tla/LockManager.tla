---------------------------- MODULE LockManager ----------------------------
(***************************************************************************)
(* The table of lock queues of src/transaction/lock_manager.c: one queue   *)
(* of requests per resource, four lock modes, grants decided when a        *)
(* request arrives, when it is repeated, and when a transaction releases   *)
(* everything it holds.  An absent queue (find_or_create_queue has not run *)
(* for the resource yet) is the empty sequence.                            *)
(***************************************************************************)
EXTENDS Naturals, Sequences

CONSTANTS
  Txns,        \* transaction identifiers, one per client of the manager
  Resources    \* resource identifiers, the keys of lock_table

VARIABLES
  queue,       \* lock_table: resource -> sequence of lock requests
  converted    \* history: holders whose granted mode a later call rewrote

lockVars == <<queue, converted>>

-----------------------------------------------------------------------------
(* Modes and requests *)

Mode == {"S", "X", "IS", "IX"}

\* The position of a mode in the enum, which lock_acquire compares with ">".
EnumOrder == [S |-> 0, X |-> 1, IS |-> 2, IX |-> 3]

\* The matrix the code indexes with two modes.
CompatibleWith ==
  [S |-> {"S", "IS"}, X |-> {}, IS |-> {"S", "IS", "IX"}, IX |-> {"IS", "IX"}]

lock_compatible(a, b) == b \in CompatibleWith[a]

Request == [txn: Txns, mode: Mode, granted: BOOLEAN]

Rewrite(q, i, m) == [q EXCEPT ![i] = [@ EXCEPT !.mode = m]]

-----------------------------------------------------------------------------
(* lock_acquire *)

HasRequest(q, t) == \E i \in DOMAIN q : q[i].txn = t

IndexOf(q, t) == CHOOSE i \in DOMAIN q : q[i].txn = t

\* Mutant of the next definition: only the last request is looked at.
SuitsOthers_LastOnly(q, i, m) ==
  LET j == Len(q) IN
  j > 0 /\ j # i /\ q[j].granted => lock_compatible(m, q[j].mode)

\* Mode m suits every granted request of q other than the one at position i.
SuitsOthers(q, i, m) ==
  \A j \in DOMAIN q \ {i} : q[j].granted => lock_compatible(m, q[j].mode)

\* t already holds the resource: the mode is raised in enum order, unchecked.
Reacquired(q, t, m) ==
  LET i == IndexOf(q, t) IN
  IF EnumOrder[m] > EnumOrder[q[i].mode] THEN Rewrite(q, i, m) ELSE q

\* t already waits: its mode is replaced and the grant decision is retaken.
Retried(q, t, m) ==
  LET i == IndexOf(q, t) IN
  [q EXCEPT ![i] = [txn |-> t, mode |-> m, granted |-> SuitsOthers(q, i, m)]]

\* t is new to the queue: waiting requests ahead of it are not considered.
Enqueued(q, t, m) ==
  Append(q, [txn |-> t, mode |-> m, granted |-> SuitsOthers(q, 0, m)])

IsHolder(q, t) == HasRequest(q, t) /\ q[IndexOf(q, t)].granted
IsWaiter(q, t) == HasRequest(q, t) /\ ~q[IndexOf(q, t)].granted

\* The queue lock_acquire leaves behind.
Acquired(q, t, m) ==
  IF IsHolder(q, t) THEN Reacquired(q, t, m)
  ELSE IF IsWaiter(q, t) THEN Retried(q, t, m)
  ELSE Enqueued(q, t, m)

\* The code lock_acquire returns.
AcquireRc(q, t, m) ==
  IF IsHolder(Acquired(q, t, m), t) THEN "DB_OK" ELSE "DB_LOCK_CONFLICT"

LockAcquire(t, r, m) ==
  /\ queue' = [queue EXCEPT ![r] = Acquired(@, t, m)]
  /\ converted' =
       IF IsHolder(queue[r], t) /\ queue'[r] # queue[r]
       THEN [converted EXCEPT ![r] = @ \cup {t}]
       ELSE converted

-----------------------------------------------------------------------------
(* lock_release_all *)

\* Mutant of the next definition: the request is cleared, the rest not moved up.
Removed_Cleared(q, t) ==
  IF HasRequest(q, t) THEN [q EXCEPT ![IndexOf(q, t)] = [@ EXCEPT !.txn = 0]] ELSE q

\* memmove over the request of t.  The code repeats this for every request
\* of t in the queue; OneRequestPerTxn says there is at most one.
Removed(q, t) ==
  IF HasRequest(q, t)
  THEN [j \in 1 .. Len(q) - 1 |-> IF j < IndexOf(q, t) THEN q[j] ELSE q[j + 1]]
  ELSE q

\* Mutants of the next definition: nobody is woken; the queue is walked from its
\* end.
IsGrantPass_Nobody(q, g) == \A k \in DOMAIN q : g[k] = q[k].granted

IsGrantPass_Backwards(q, g) ==
  \A k \in DOMAIN q :
     g[k] = \/ q[k].granted
            \/ \A m \in DOMAIN q \ {k} :
                  (IF m > k THEN g[m] ELSE q[m].granted)
                     => lock_compatible(q[k].mode, q[m].mode)

\* g is the outcome of the one pass that grants waiting requests: request k
\* sees the fresh decision of those before it and the old one of those after.
IsGrantPass(q, g) ==
  \A k \in DOMAIN q :
     g[k] = \/ q[k].granted
            \/ \A m \in DOMAIN q \ {k} :
                  (IF m < k THEN g[m] ELSE q[m].granted)
                     => lock_compatible(q[k].mode, q[m].mode)

\* What a release by t makes of queue q.  IsGrantPass determines g, so the set
\* has one element; stating it as a set keeps the pass free of recursion.
Released(q, t) ==
  LET rest == Removed(q, t) IN
  IF HasRequest(q, t)
  THEN { [k \in DOMAIN rest |-> [rest[k] EXCEPT !.granted = g[k]]] :
           g \in { h \in [DOMAIN rest -> BOOLEAN] : IsGrantPass(rest, h) } }
  ELSE {q}

\* Mutant of the next definition: the loop over the queues ends after the
\* first one that held something.
ReleasedBy_FirstOnly(t, queues) ==
  /\ \E r \in Resources :
        /\ HasRequest(queues[r], t) \/ \A s \in Resources : ~HasRequest(queues[s], t)
        /\ \E q \in Released(queues[r], t) : queue' = [queues EXCEPT ![r] = q]
  /\ converted' = [r \in Resources |-> converted[r] \ {t}]

\* lock_release_all on the table queues.
ReleasedBy(t, queues) ==
  /\ queue' \in [Resources -> UNION { Released(queues[r], t) : r \in Resources }]
  /\ \A r \in Resources : queue'[r] \in Released(queues[r], t)
  /\ converted' = [r \in Resources |-> converted[r] \ {t}]

LockReleaseAll(t) == ReleasedBy(t, queue)

-----------------------------------------------------------------------------
(* Specification *)

LockInit ==
  /\ queue = [r \in Resources |-> <<>>]
  /\ converted = [r \in Resources |-> {}]

LockNext ==
  \/ \E t \in Txns, r \in Resources, m \in Mode : LockAcquire(t, r, m)
  \/ \E t \in Txns : LockReleaseAll(t)

LockSpec == LockInit /\ [][LockNext]_lockVars

-----------------------------------------------------------------------------
(* Properties *)

\* Every queue is a sequence of requests and every recorded conversion belongs
\* to a known transaction.
LockTypeOK ==
  /\ queue \in [Resources -> Seq(Request)]
  /\ converted \in [Resources -> SUBSET Txns]

\* A transaction has at most one request in a queue, whichever of the three
\* paths of lock_acquire its calls took (the search at lines 66-92).
OneRequestPerTxn ==
  \A r \in Resources : \A i, j \in DOMAIN queue[r] :
     queue[r][i].txn = queue[r][j].txn => i = j

\* Two holders of a resource are compatible, unless one of them rewrote its
\* mode after the grant: none of the grant decisions (on arrival, on retry, in
\* the release pass) lets a conflicting request in.
HoldersCompatible ==
  \A r \in Resources : \A i, j \in DOMAIN queue[r] :
     /\ i # j
     /\ queue[r][i].granted /\ queue[r][j].granted
     /\ {queue[r][i].txn, queue[r][j].txn} \cap converted[r] = {}
     => lock_compatible(queue[r][i].mode, queue[r][j].mode)

\* No wake-up is lost: a request still waiting is held back by a granted one
\* it conflicts with, or by a holder that converted since the last release.
WaiterIsBlocked ==
  \A r \in Resources : \A i \in DOMAIN queue[r] :
     ~queue[r][i].granted =>
        \E j \in DOMAIN queue[r] \ {i} :
           /\ queue[r][j].granted
           /\ \/ ~lock_compatible(queue[r][i].mode, queue[r][j].mode)
              \/ queue[r][j].txn \in converted[r]

\* Among equals the queue is served in order: a request is never granted while
\* one for the same mode waits ahead of it, conversions aside.
ServedInOrder ==
  \A r \in Resources : \A i, j \in DOMAIN queue[r] :
     /\ i < j
     /\ queue[r][i].mode = queue[r][j].mode
     /\ ~queue[r][i].granted
     /\ converted[r] = {}
     => ~queue[r][j].granted

\* The strict reading of the matrix: holders never conflict.
GrantedNeverConflict ==
  \A r \in Resources : \A i, j \in DOMAIN queue[r] :
     i # j /\ queue[r][i].granted /\ queue[r][j].granted
       => lock_compatible(queue[r][i].mode, queue[r][j].mode)
=============================================================================
