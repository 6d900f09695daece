------------------------ MODULE TransactionsProofs ------------------------
(***************************************************************************)
(* Proofs about the lock manager and the transactions over it, for any     *)
(* number of transactions and resources.                                   *)
(*                                                                         *)
(* The lock manager alone.  The invariants speak of one queue at a time,   *)
(* so each is restated for a queue q and the set C of its converted        *)
(* holders; the lemmas show what lock_acquire and lock_release_all do to   *)
(* one queue, and the theorems lift them to the table.                     *)
(*                                                                         *)
(* The transactions.  The lock table stays sound when requests and         *)
(* releases come from begin, commit, abort and the victims of the          *)
(* detector, and the requests in it belong to active transactions.  The    *)
(* victims of the detector were deadlocked, and no cycle is left among the *)
(* edges it keeps.                                                         *)
(***************************************************************************)
EXTENDS Transactions, TLAPS, Induction, FiniteSetTheorems

-----------------------------------------------------------------------------
(* The lock manager *)


OneEach(q) ==
  \A i, j \in DOMAIN q : q[i].txn = q[j].txn => i = j

Compatibles(q, C) ==
  \A i, j \in DOMAIN q :
     /\ i # j
     /\ q[i].granted /\ q[j].granted
     /\ {q[i].txn, q[j].txn} \cap C = {}
     => lock_compatible(q[i].mode, q[j].mode)

Blocked(q, C) ==
  \A i \in DOMAIN q :
     ~q[i].granted =>
        \E j \in DOMAIN q \ {i} :
           /\ q[j].granted
           /\ \/ ~lock_compatible(q[i].mode, q[j].mode)
              \/ q[j].txn \in C

\* Who holds X without having converted to it is behind nobody who waits: X is
\* granted when nobody holds, and then nobody is waiting.
InTurn(q, C) ==
  \A i, j \in DOMAIN q :
     i < j /\ ~q[i].granted /\ q[j].granted /\ q[j].mode = "X" => q[j].txn \in C

QueueInv(q, C) == OneEach(q) /\ Compatibles(q, C) /\ Blocked(q, C) /\ InTurn(q, C)

\* The set of converted holders lock_acquire leaves for the queue.
ConvertedBy(q, C, t, m) ==
  IF IsHolder(q, t) /\ Acquired(q, t, m) # q THEN C \cup {t} ELSE C

-----------------------------------------------------------------------------
(* Facts about modes and positions *)

\* The matrix is symmetric: conflicts do not depend on who came first.
LEMMA CompatibleSymmetric ==
  ASSUME NEW a \in Mode, NEW b \in Mode
  PROVE  lock_compatible(a, b) <=> lock_compatible(b, a)
  BY DEF Mode, lock_compatible, CompatibleWith

\* X goes with nothing, every other mode with itself.
LEMMA SelfCompatible ==
  ASSUME NEW a \in Mode
  PROVE  ~lock_compatible("X", a) /\ (a # "X" => lock_compatible(a, a))
  BY DEF Mode, lock_compatible, CompatibleWith

\* The request of a transaction that has one is at a position of the queue.
LEMMA IndexOfRequest ==
  ASSUME NEW q, NEW t, HasRequest(q, t)
  PROVE  IndexOf(q, t) \in DOMAIN q /\ q[IndexOf(q, t)].txn = t
  BY DEF HasRequest, IndexOf

\* Every element of a queue is a request.
LEMMA RequestAt ==
  ASSUME NEW q \in Seq(Request), NEW k \in DOMAIN q
  PROVE  /\ q[k] \in Request
         /\ q[k].txn \in Txns /\ q[k].mode \in Mode /\ q[k].granted \in BOOLEAN
<1>1. q[k] \in Request
  OBVIOUS
<1> QED
  BY <1>1 DEF Request

\* What lock_acquire does when the caller already holds the resource.
LEMMA ReacquiredInv ==
  ASSUME NEW q \in Seq(Request), NEW C, NEW t \in Txns, NEW m \in Mode,
         QueueInv(q, C), IsHolder(q, t)
  PROVE  /\ Reacquired(q, t, m) \in Seq(Request)
         /\ Reacquired(q, t, m) # q => QueueInv(Reacquired(q, t, m), C \cup {t})
<1> DEFINE i == IndexOf(q, t)
<1>1. i \in DOMAIN q /\ q[i].txn = t /\ q[i].granted
  BY IndexOfRequest DEF IsHolder
<1>2. CASE Reacquired(q, t, m) = q
  BY <1>2
<1>3. CASE Reacquired(q, t, m) # q
  <2> DEFINE p == Rewrite(q, i, m)
  <2>1. Reacquired(q, t, m) = p
    BY <1>3 DEF Reacquired
  <2>2. /\ p \in Seq(Request) /\ DOMAIN p = DOMAIN q
        /\ \A k \in DOMAIN q : /\ p[k].txn = q[k].txn
                               /\ p[k].granted = q[k].granted
                               /\ k # i => p[k] = q[k]
    <3>1. q[i] \in Request /\ [q[i] EXCEPT !.mode = m] \in Request
      BY <1>1, RequestAt DEF Request
    <3>2. p = [q EXCEPT ![i] = [q[i] EXCEPT !.mode = m]]
      BY DEF Rewrite
    <3>3. p \in Seq(Request) /\ DOMAIN p = DOMAIN q
      BY <1>1, <3>1, <3>2
    <3>4. /\ [q[i] EXCEPT !.mode = m].txn = q[i].txn
          /\ [q[i] EXCEPT !.mode = m].granted = q[i].granted
      BY <3>1 DEF Request
    <3> QED
      BY <1>1, <3>2, <3>3, <3>4
  <2> HIDE DEF p, i
  <2>3. OneEach(p)
    BY <2>2 DEF QueueInv, OneEach
  <2>4. Compatibles(p, C \cup {t})
    BY <1>1, <2>2 DEF QueueInv, OneEach, Compatibles
  <2>5. Blocked(p, C \cup {t})
    BY <1>1, <2>2 DEF QueueInv, Blocked
  <2>6. InTurn(p, C \cup {t})
    BY <1>1, <2>2 DEF QueueInv, InTurn
  <2> QED
    BY <1>3, <2>1, <2>2, <2>3, <2>4, <2>5, <2>6 DEF QueueInv
<1> QED
  BY <1>2, <1>3

\* What lock_acquire does when the caller is already waiting.
LEMMA RetriedInv ==
  ASSUME NEW q \in Seq(Request), NEW C, NEW t \in Txns, NEW m \in Mode,
         QueueInv(q, C), IsWaiter(q, t)
  PROVE  Retried(q, t, m) \in Seq(Request) /\ QueueInv(Retried(q, t, m), C)
<1> DEFINE i == IndexOf(q, t)
           p == Retried(q, t, m)
<1>1. i \in DOMAIN q /\ q[i].txn = t /\ ~q[i].granted
  BY IndexOfRequest DEF IsWaiter
<1>2. SuitsOthers(q, i, m) \in BOOLEAN
  BY DEF SuitsOthers
<1>3. /\ p \in Seq(Request) /\ DOMAIN p = DOMAIN q
      /\ p[i] = [txn |-> t, mode |-> m, granted |-> SuitsOthers(q, i, m)]
      /\ \A k \in DOMAIN q : k # i => p[k] = q[k]
  BY <1>1, <1>2 DEF Retried, Request
<1>4. \A k \in DOMAIN q : q[k].mode \in Mode /\ q[k].granted \in BOOLEAN
  BY RequestAt
<1> HIDE DEF p, i
<1>5. OneEach(p)
  BY <1>1, <1>3 DEF QueueInv, OneEach
<1>6. Compatibles(p, C)
  <2> SUFFICES ASSUME NEW k \in DOMAIN q, NEW l \in DOMAIN q, k # l,
                      p[k].granted, p[l].granted,
                      {p[k].txn, p[l].txn} \cap C = {}
               PROVE  lock_compatible(p[k].mode, p[l].mode)
    BY <1>3 DEF Compatibles
  <2>1. CASE k # i /\ l # i
    BY <1>3, <2>1 DEF QueueInv, Compatibles
  <2>2. CASE k = i
    BY <1>3, <2>2 DEF SuitsOthers
  <2>3. CASE l = i
    <3>1. lock_compatible(m, q[k].mode)
      BY <1>3, <2>3 DEF SuitsOthers
    <3> QED
      BY <1>3, <1>4, <2>3, <3>1, CompatibleSymmetric
  <2> QED
    BY <2>1, <2>2, <2>3
<1>7. Blocked(p, C)
  <2> SUFFICES ASSUME NEW k \in DOMAIN q, ~p[k].granted
               PROVE  \E j \in DOMAIN q \ {k} :
                        /\ p[j].granted
                        /\ \/ ~lock_compatible(p[k].mode, p[j].mode)
                           \/ p[j].txn \in C
    BY <1>3 DEF Blocked
  <2>1. CASE k = i
    BY <1>1, <1>3, <2>1 DEF SuitsOthers
  <2>2. CASE k # i
    <3>1. PICK j \in DOMAIN q \ {k} :
                /\ q[j].granted
                /\ ~lock_compatible(q[k].mode, q[j].mode) \/ q[j].txn \in C
      BY <1>3, <2>2 DEF QueueInv, Blocked
    <3> QED
      BY <1>1, <1>3, <2>2, <3>1
  <2> QED
    BY <2>1, <2>2
<1>8. InTurn(p, C)
  <2> SUFFICES ASSUME NEW k \in DOMAIN q, NEW l \in DOMAIN q, k < l,
                      ~p[k].granted, p[l].granted, p[l].mode = "X"
               PROVE  p[l].txn \in C
    BY <1>3 DEF InTurn
  <2>1. CASE l # i
    BY <1>1, <1>3, <2>1 DEF QueueInv, InTurn
  <2>2. CASE l = i
    <3>1. k # i /\ ~q[k].granted
      BY <1>3, <2>2
    <3>2. PICK j \in DOMAIN q \ {k} : q[j].granted
      BY <3>1 DEF QueueInv, Blocked
    <3>3. j # i /\ lock_compatible("X", q[j].mode)
      BY <1>1, <1>3, <2>2, <3>2 DEF SuitsOthers
    <3> QED
      BY <1>4, <3>2, <3>3, SelfCompatible
  <2> QED
    BY <2>1, <2>2
<1> QED
  BY <1>3, <1>5, <1>6, <1>7, <1>8 DEF QueueInv, p

\* What lock_acquire does when the caller is new to the queue.
LEMMA EnqueuedInv ==
  ASSUME NEW q \in Seq(Request), NEW C, NEW t \in Txns, NEW m \in Mode,
         QueueInv(q, C), ~HasRequest(q, t)
  PROVE  Enqueued(q, t, m) \in Seq(Request) /\ QueueInv(Enqueued(q, t, m), C)
<1> DEFINE new == [txn |-> t, mode |-> m, granted |-> SuitsOthers(q, 0, m)]
           p == Enqueued(q, t, m)
           n == Len(q) + 1
<1>1. new \in Request
  BY DEF Request, SuitsOthers
<1>2. p = Append(q, new)
  BY DEF Enqueued
<1>3. /\ p \in Seq(Request) /\ DOMAIN p = 1 .. n /\ DOMAIN q = 1 .. Len(q)
      /\ Len(q) \in Nat
      /\ p[n] = new
      /\ \A k \in DOMAIN q : p[k] = q[k]
  BY <1>1, <1>2
<1>4. SuitsOthers(q, 0, m) <=>
        \A j \in DOMAIN q : q[j].granted => lock_compatible(m, q[j].mode)
  BY <1>3 DEF SuitsOthers
<1>5. \A k \in DOMAIN q : q[k].txn # t /\ q[k].mode \in Mode
  BY RequestAt DEF HasRequest
<1>6. new.txn = t /\ new.mode = m /\ new.granted = SuitsOthers(q, 0, m)
  OBVIOUS
<1> HIDE DEF p, new, n
<1>7. \A k \in DOMAIN p : k = n \/ k \in DOMAIN q
  BY <1>3 DEF n
<1>8. OneEach(p)
  BY <1>3, <1>5, <1>6, <1>7 DEF QueueInv, OneEach
<1>9. Compatibles(p, C)
  <2> SUFFICES ASSUME NEW k \in DOMAIN p, NEW l \in DOMAIN p, k # l,
                      p[k].granted, p[l].granted,
                      {p[k].txn, p[l].txn} \cap C = {}
               PROVE  lock_compatible(p[k].mode, p[l].mode)
    BY DEF Compatibles
  <2>1. CASE k \in DOMAIN q /\ l \in DOMAIN q
    BY <1>3, <2>1 DEF QueueInv, Compatibles
  <2>2. CASE k = n
    BY <1>3, <1>4, <1>6, <1>7, <2>2
  <2>3. CASE l = n
    <3>1. k \in DOMAIN q /\ lock_compatible(m, q[k].mode)
      BY <1>3, <1>4, <1>6, <1>7, <2>3
    <3> QED
      BY <1>3, <1>5, <1>6, <2>3, <3>1, CompatibleSymmetric
  <2> QED
    BY <1>7, <2>1, <2>2, <2>3
<1>10. Blocked(p, C)
  <2> SUFFICES ASSUME NEW k \in DOMAIN p, ~p[k].granted
               PROVE  \E j \in DOMAIN p \ {k} :
                        /\ p[j].granted
                        /\ \/ ~lock_compatible(p[k].mode, p[j].mode)
                           \/ p[j].txn \in C
    BY DEF Blocked
  <2>1. DOMAIN q \subseteq DOMAIN p /\ n \notin DOMAIN q
    BY <1>3 DEF n
  <2>2. CASE k = n
    BY <1>3, <1>4, <1>6, <2>1, <2>2
  <2>3. CASE k \in DOMAIN q
    <3>1. PICK j \in DOMAIN q \ {k} :
                /\ q[j].granted
                /\ ~lock_compatible(q[k].mode, q[j].mode) \/ q[j].txn \in C
      BY <1>3, <2>3 DEF QueueInv, Blocked
    <3> QED
      BY <1>3, <2>1, <2>3, <3>1
  <2> QED
    BY <1>7, <2>2, <2>3
<1>11. InTurn(p, C)
  <2> SUFFICES ASSUME NEW k \in DOMAIN p, NEW l \in DOMAIN p, k < l,
                      ~p[k].granted, p[l].granted, p[l].mode = "X"
               PROVE  p[l].txn \in C
    BY DEF InTurn
  <2>1. k \in DOMAIN q
    BY <1>3 DEF n
  <2>2. CASE l \in DOMAIN q
    BY <1>3, <2>1, <2>2 DEF QueueInv, InTurn
  <2>3. CASE l = n
    <3>1. PICK j \in DOMAIN q \ {k} : q[j].granted
      BY <1>3, <2>1 DEF QueueInv, Blocked
    <3>2. lock_compatible("X", q[j].mode)
      BY <1>3, <1>4, <1>6, <2>3, <3>1
    <3> QED
      BY <1>5, <3>2, SelfCompatible
  <2> QED
    BY <1>7, <2>2, <2>3
<1> QED
  BY <1>3, <1>8, <1>9, <1>10, <1>11 DEF QueueInv, p

\* lock_acquire keeps the invariant of the queue it works on.
LEMMA AcquiredInv ==
  ASSUME NEW q \in Seq(Request), NEW C, NEW t \in Txns, NEW m \in Mode,
         QueueInv(q, C)
  PROVE  /\ Acquired(q, t, m) \in Seq(Request)
         /\ QueueInv(Acquired(q, t, m), ConvertedBy(q, C, t, m))
<1>1. CASE IsHolder(q, t)
  <2>1. Acquired(q, t, m) = Reacquired(q, t, m)
    BY <1>1 DEF Acquired
  <2>2. CASE Reacquired(q, t, m) = q
    <3>1. ConvertedBy(q, C, t, m) = C
      BY <2>1, <2>2 DEF ConvertedBy
    <3> QED
      BY <2>1, <2>2, <3>1
  <2>3. CASE Reacquired(q, t, m) # q
    <3>1. ConvertedBy(q, C, t, m) = C \cup {t}
      BY <1>1, <2>1, <2>3 DEF ConvertedBy
    <3> QED
      BY <1>1, <2>1, <2>3, <3>1, ReacquiredInv
  <2> QED
    BY <2>2, <2>3
<1>2. CASE IsWaiter(q, t)
  <2>1. ~IsHolder(q, t)
    BY <1>2 DEF IsWaiter, IsHolder
  <2> QED
    BY <1>2, <2>1, RetriedInv DEF Acquired, ConvertedBy
<1>3. CASE ~IsHolder(q, t) /\ ~IsWaiter(q, t)
  <2>1. ~HasRequest(q, t)
    BY <1>3 DEF IsWaiter, IsHolder
  <2> QED
    BY <1>3, <2>1, EnqueuedInv DEF Acquired, ConvertedBy
<1> QED
  BY <1>1, <1>2, <1>3

\* memmove drops the request of t and keeps the others in order.
LEMMA RemovedShape ==
  ASSUME NEW q \in Seq(Request), NEW t \in Txns, HasRequest(q, t), OneEach(q)
  PROVE  /\ Removed(q, t) \in Seq(Request)
         /\ \E f \in [DOMAIN Removed(q, t) -> DOMAIN q] :
              /\ \A k, l \in DOMAIN Removed(q, t) : f[k] = f[l] => k = l
              /\ \A k \in DOMAIN Removed(q, t) :
                    Removed(q, t)[k] = q[f[k]] /\ q[f[k]].txn # t
              /\ \A k, l \in DOMAIN Removed(q, t) : k < l => f[k] < f[l]
<1> DEFINE i == IndexOf(q, t)
           rest == Removed(q, t)
           f == [k \in 1 .. Len(q) - 1 |-> IF k < i THEN k ELSE k + 1]
<1>1. i \in 1 .. Len(q) /\ q[i].txn = t /\ Len(q) \in Nat /\ DOMAIN q = 1 .. Len(q)
  BY IndexOfRequest
<1>2. rest = [j \in 1 .. Len(q) - 1 |-> IF j < i THEN q[j] ELSE q[j + 1]]
  BY DEF Removed
<1> HIDE DEF i, rest
<1>3. Len(q) - 1 \in Nat /\ DOMAIN rest = 1 .. Len(q) - 1
  BY <1>1, <1>2
<1>4. f \in [DOMAIN rest -> DOMAIN q]
  BY <1>1, <1>3
<1>5. \A k \in DOMAIN rest : rest[k] = q[f[k]] /\ f[k] # i
  BY <1>1, <1>2, <1>3
<1>6. \A k \in DOMAIN rest : rest[k] \in Request
  <2> SUFFICES ASSUME NEW k \in DOMAIN rest PROVE rest[k] \in Request
    OBVIOUS
  <2>1. f[k] \in DOMAIN q
    BY <1>4
  <2> HIDE DEF f
  <2> QED
    BY <1>5, <2>1, RequestAt
<1>7. rest \in Seq(Request)
  <2>1. rest \in [1 .. Len(q) - 1 -> Request]
    BY <1>2, <1>3, <1>6
  <2> QED
    BY <1>3, <2>1
<1>8. \A k, l \in DOMAIN rest : k < l => f[k] < f[l]
  BY <1>1, <1>3
<1>9. \A k, l \in DOMAIN rest : f[k] = f[l] => k = l
  BY <1>1, <1>3
<1>10. \A k \in DOMAIN rest : q[f[k]].txn # t
  BY <1>1, <1>4, <1>5 DEF OneEach
<1> QED
  BY <1>4, <1>5, <1>7, <1>8, <1>9, <1>10 DEF rest

\* lock_release_all keeps the invariant of a queue t has a request in, with t
\* no longer counted among its converted holders.
LEMMA ReleasedInv ==
  ASSUME NEW q \in Seq(Request), NEW C, NEW t \in Txns, QueueInv(q, C),
         HasRequest(q, t), NEW p \in Released(q, t)
  PROVE  p \in Seq(Request) /\ QueueInv(p, C \ {t})
<1> DEFINE rest == Removed(q, t)
<1>1. PICK g \in [DOMAIN rest -> BOOLEAN] :
          /\ IsGrantPass(rest, g)
          /\ p = [k \in DOMAIN rest |-> [rest[k] EXCEPT !.granted = g[k]]]
  BY DEF Released
<1>2. rest \in Seq(Request)
  BY RemovedShape DEF QueueInv
<1>3. PICK f \in [DOMAIN rest -> DOMAIN q] :
          /\ \A k, l \in DOMAIN rest : f[k] = f[l] => k = l
          /\ \A k \in DOMAIN rest : rest[k] = q[f[k]] /\ q[f[k]].txn # t
          /\ \A k, l \in DOMAIN rest : k < l => f[k] < f[l]
  BY RemovedShape DEF QueueInv
<1> HIDE DEF rest
<1>4. \A k \in DOMAIN rest :
         /\ rest[k] \in Request /\ rest[k].mode \in Mode
         /\ rest[k].txn \in Txns /\ rest[k].granted \in BOOLEAN
  BY <1>2, RequestAt
<1>5. /\ DOMAIN p = DOMAIN rest
      /\ \A k \in DOMAIN rest :
           /\ p[k] \in Request
           /\ p[k].txn = rest[k].txn /\ p[k].mode = rest[k].mode
           /\ p[k].granted = g[k]
  BY <1>1, <1>4 DEF Request
<1>6. p \in Seq(Request)
  <2>1. p \in [1 .. Len(rest) -> Request] /\ Len(rest) \in Nat
    BY <1>1, <1>2, <1>5
  <2> QED
    BY <2>1
<1>7. \A k \in DOMAIN rest : rest[k].granted => g[k]
  BY <1>1 DEF IsGrantPass
<1>8. OneEach(p)
  BY <1>3, <1>5 DEF QueueInv, OneEach
<1>9. ASSUME NEW k \in DOMAIN rest, NEW l \in DOMAIN rest, k < l, g[k], g[l],
             rest[k].txn \notin C, rest[l].txn \notin C
      PROVE  lock_compatible(rest[k].mode, rest[l].mode)
  <2>1. k \in Nat /\ l \in Nat /\ k # l /\ ~(l < k)
    BY <1>2, <1>9
  <2>2. CASE ~rest[l].granted
    <3>1. lock_compatible(rest[l].mode, rest[k].mode)
      BY <1>1, <1>9, <2>1, <2>2 DEF IsGrantPass
    <3> QED
      BY <1>4, <3>1, CompatibleSymmetric
  <2>3. CASE rest[l].granted /\ ~rest[k].granted
    BY <1>1, <1>9, <2>1, <2>3 DEF IsGrantPass
  <2>4. CASE rest[l].granted /\ rest[k].granted
    <3>1. f[k] # f[l] /\ f[k] \in DOMAIN q /\ f[l] \in DOMAIN q
      BY <1>3, <2>1
    <3>2. {q[f[k]].txn, q[f[l]].txn} \cap C = {}
      BY <1>3, <1>9
    <3> QED
      BY <1>3, <2>4, <3>1, <3>2 DEF QueueInv, Compatibles
  <2> QED
    BY <1>4, <2>2, <2>3, <2>4
<1>10. Compatibles(p, C \ {t})
  <2> SUFFICES ASSUME NEW k \in DOMAIN rest, NEW l \in DOMAIN rest, k # l,
                      p[k].granted, p[l].granted,
                      {p[k].txn, p[l].txn} \cap (C \ {t}) = {}
               PROVE  lock_compatible(p[k].mode, p[l].mode)
    BY <1>5 DEF Compatibles
  <2>1. rest[k].txn \notin C /\ rest[l].txn \notin C
    BY <1>3, <1>5
  <2>2. k < l \/ l < k
    BY <1>2
  <2>3. lock_compatible(rest[k].mode, rest[l].mode)
    BY <1>4, <1>5, <1>9, <2>1, <2>2, CompatibleSymmetric
  <2> QED
    BY <1>5, <2>3
<1>11. Blocked(p, C \ {t})
  <2> SUFFICES ASSUME NEW k \in DOMAIN rest, ~g[k]
               PROVE  \E j \in DOMAIN rest \ {k} :
                        g[j] /\ ~lock_compatible(rest[k].mode, rest[j].mode)
    BY <1>5 DEF Blocked
  <2>1. PICK j \in DOMAIN rest \ {k} :
              /\ IF j < k THEN g[j] ELSE rest[j].granted
              /\ ~lock_compatible(rest[k].mode, rest[j].mode)
    BY <1>1 DEF IsGrantPass
  <2> QED
    BY <1>7, <2>1
<1>12. InTurn(p, C \ {t})
  <2> SUFFICES ASSUME NEW k \in DOMAIN rest, NEW l \in DOMAIN rest, k < l,
                      ~g[k], g[l], rest[l].mode = "X"
               PROVE  rest[l].txn \in C \ {t}
    BY <1>5 DEF InTurn
  <2>1. CASE rest[l].granted
    <3>1. f[k] < f[l] /\ ~q[f[k]].granted /\ q[f[l]].granted /\ q[f[l]].mode = "X"
      BY <1>3, <1>4, <1>7, <2>1
    <3>2. f[k] \in DOMAIN q /\ f[l] \in DOMAIN q
      BY <1>3
    <3> QED
      BY <1>3, <3>1, <3>2 DEF QueueInv, InTurn
  <2>2. CASE ~rest[l].granted
    <3>1. PICK m \in DOMAIN rest \ {k} :
                /\ IF m < k THEN g[m] ELSE rest[m].granted
                /\ ~lock_compatible(rest[k].mode, rest[m].mode)
      BY <1>1 DEF IsGrantPass
    <3>2. m # l /\ g[m] /\ (~(m < l) => rest[m].granted)
      <4>1. k \in Nat /\ l \in Nat /\ m \in Nat
        BY <1>2
      <4> QED
        BY <1>7, <2>2, <3>1, <4>1
    <3>3. lock_compatible("X", rest[m].mode)
      BY <1>1, <2>2, <3>2 DEF IsGrantPass
    <3> QED
      BY <1>4, <3>3, SelfCompatible
  <2> QED
    BY <2>1, <2>2
<1> QED
  BY <1>6, <1>8, <1>10, <1>11, <1>12 DEF QueueInv

-----------------------------------------------------------------------------
(* The table *)

LockInv ==
  /\ LockTypeOK
  /\ \A r \in Resources : QueueInv(queue[r], converted[r])

\* The conjuncts of LockInv are the invariants of the lock manager.
LEMMA LockInvMeaning ==
  LockInv => /\ LockTypeOK /\ OneRequestPerTxn
             /\ HoldersCompatible /\ WaiterIsBlocked /\ ServedInOrder
<1> SUFFICES ASSUME LockInv
             PROVE  /\ LockTypeOK /\ OneRequestPerTxn
                    /\ HoldersCompatible /\ WaiterIsBlocked /\ ServedInOrder
  OBVIOUS
<1>1. ServedInOrder
  <2> SUFFICES ASSUME NEW r \in Resources, converted[r] = {},
                      NEW i \in DOMAIN queue[r], NEW j \in DOMAIN queue[r], i < j,
                      queue[r][i].mode = queue[r][j].mode,
                      ~queue[r][i].granted, queue[r][j].granted
               PROVE  FALSE
    BY DEF ServedInOrder
  <2> DEFINE q == queue[r]
  <2>1. q \in Seq(Request) /\ QueueInv(q, {})
    BY DEF LockInv, LockTypeOK
  <2>2. \A k \in DOMAIN q : q[k].mode \in Mode
    BY <2>1, RequestAt
  <2> HIDE DEF q
  <2>3. q[j].mode # "X"
    BY <2>1 DEF QueueInv, InTurn, q
  <2>4. PICK k \in DOMAIN q \ {i} : q[k].granted /\ ~lock_compatible(q[i].mode, q[k].mode)
    BY <2>1 DEF QueueInv, Blocked, q
  <2>5. CASE k = j
    BY <2>2, <2>3, <2>4, <2>5, SelfCompatible DEF q
  <2>6. CASE k # j
    <3>1. lock_compatible(q[j].mode, q[k].mode)
      BY <2>1, <2>4, <2>6 DEF QueueInv, Compatibles, q
    <3> QED
      BY <2>4, <3>1 DEF q
  <2> QED
    BY <2>5, <2>6
<1> QED
  BY <1>1 DEF LockInv, QueueInv, OneEach, Compatibles, Blocked,
     OneRequestPerTxn, HoldersCompatible, WaiterIsBlocked

\* No queue exists before the first lock_acquire.
LEMMA LockInvInit == LockInit => LockInv
<1> SUFFICES ASSUME LockInit PROVE LockInv
  OBVIOUS
<1>1. LockTypeOK
  BY DEF LockInit, LockTypeOK
<1>2. QueueInv(<<>>, {})
  BY DEF QueueInv, OneEach, Compatibles, Blocked, InTurn
<1> QED
  BY <1>1, <1>2 DEF LockInit, LockInv

\* lock_acquire keeps the invariant of the table.
LEMMA LockAcquireInv ==
  ASSUME LockInv, NEW t \in Txns, NEW r \in Resources, NEW m \in Mode,
         LockAcquire(t, r, m)
  PROVE  LockInv'
<1> DEFINE q == Acquired(queue[r], t, m)
<1>1. queue[r] \in Seq(Request) /\ converted[r] \in SUBSET Txns
  BY DEF LockInv, LockTypeOK
<1>2. q \in Seq(Request) /\ QueueInv(q, ConvertedBy(queue[r], converted[r], t, m))
  BY <1>1, AcquiredInv DEF LockInv
<1>3. queue' = [queue EXCEPT ![r] = q]
  BY DEF LockAcquire
<1>4. queue'[r] = q /\ \A s \in Resources : s # r => queue'[s] = queue[s]
  BY <1>3 DEF LockInv, LockTypeOK
<1> HIDE DEF q
<1>5. /\ converted' \in [Resources -> SUBSET Txns]
      /\ converted'[r] = ConvertedBy(queue[r], converted[r], t, m)
      /\ \A s \in Resources : s # r => converted'[s] = converted[s]
  BY <1>1, <1>4 DEF LockAcquire, ConvertedBy, LockInv, LockTypeOK, q
<1>6. LockTypeOK'
  BY <1>2, <1>3, <1>5 DEF LockInv, LockTypeOK
<1>7. ASSUME NEW s \in Resources PROVE QueueInv(queue'[s], converted'[s])
  BY <1>2, <1>4, <1>5 DEF LockInv
<1> QED
  BY <1>6, <1>7 DEF LockInv

\* lock_release_all keeps the invariant of the table: it revisits every queue
\* the transaction has a request in, and leaves the others alone.  Stated for
\* the queues Q it finds, which need not be those of the last state.
LEMMA ReleasedByInv ==
  ASSUME NEW Q \in [Resources -> Seq(Request)],
         converted \in [Resources -> SUBSET Txns],
         \A r \in Resources : QueueInv(Q[r], converted[r]),
         NEW t \in Txns, ReleasedBy(t, Q)
  PROVE  LockInv'
<1>1. ASSUME NEW r \in Resources
      PROVE  queue'[r] \in Seq(Request) /\ QueueInv(queue'[r], converted[r] \ {t})
  <2>1. /\ Q[r] \in Seq(Request)
        /\ QueueInv(Q[r], converted[r])
        /\ queue'[r] \in Released(Q[r], t)
    BY DEF ReleasedBy
  <2>2. CASE HasRequest(Q[r], t)
    BY <2>1, <2>2, ReleasedInv
  <2>3. CASE ~HasRequest(Q[r], t)
    <3>1. queue'[r] = Q[r]
      BY <2>1, <2>3 DEF Released
    <3>2. \A i \in DOMAIN Q[r] : Q[r][i].txn # t
      BY <2>3 DEF HasRequest
    <3>3. QueueInv(Q[r], converted[r] \ {t})
      BY <2>1, <3>2 DEF QueueInv, OneEach, Compatibles, Blocked, InTurn
    <3> QED
      BY <2>1, <3>1, <3>3
  <2> QED
    BY <2>2, <2>3
<1>2. converted' = [r \in Resources |-> converted[r] \ {t}]
  BY DEF ReleasedBy
<1>3. converted' \in [Resources -> SUBSET Txns]
  BY <1>2
<1>4. queue' \in [Resources -> Seq(Request)]
  <2>1. PICK S : queue' \in [Resources -> S]
    BY DEF ReleasedBy
  <2> QED
    BY <1>1, <2>1
<1> QED
  BY <1>1, <1>2, <1>3, <1>4 DEF LockInv, LockTypeOK

\* lock_release_all keeps the invariant of every queue.
LEMMA LockReleaseAllInv ==
  ASSUME LockInv, NEW t \in Txns, LockReleaseAll(t)
  PROVE  LockInv'
<1>1. /\ queue \in [Resources -> Seq(Request)] /\ ReleasedBy(t, queue)
      /\ converted \in [Resources -> SUBSET Txns]
      /\ \A r \in Resources : QueueInv(queue[r], converted[r])
  BY DEF LockInv, LockTypeOK, LockReleaseAll
<1> QED
  BY <1>1, ReleasedByInv

\* Every reachable lock table satisfies LockInv.
THEOREM LockInvariance == LockSpec => []LockInv
<1>1. LockInv /\ [LockNext]_lockVars => LockInv'
  <2> SUFFICES ASSUME LockInv, [LockNext]_lockVars PROVE LockInv'
    OBVIOUS
  <2>1. ASSUME NEW t \in Txns, NEW r \in Resources, NEW m \in Mode,
               LockAcquire(t, r, m)
        PROVE  LockInv'
    BY <2>1, LockAcquireInv
  <2>2. ASSUME NEW t \in Txns, LockReleaseAll(t)
        PROVE  LockInv'
    BY <2>2, LockReleaseAllInv
  <2>3. CASE UNCHANGED lockVars
    BY <2>3 DEF lockVars, LockInv, LockTypeOK
  <2> QED
    BY <2>1, <2>2, <2>3 DEF LockNext
<1> QED
  BY <1>1, LockInvInit, PTL DEF LockSpec

\* Whatever the transactions and resources, the queues are well formed.
THEOREM LockTypeSafety == LockSpec => []LockTypeOK
  BY LockInvariance, LockInvMeaning, PTL

\* A transaction never has two requests in one queue.
THEOREM OneRequestSafety == LockSpec => []OneRequestPerTxn
  BY LockInvariance, LockInvMeaning, PTL

\* Holders that have not converted their lock never conflict: the three grant
\* decisions of lock_manager.c are sound for every number of transactions.
THEOREM CompatibilitySafety == LockSpec => []HoldersCompatible
  BY LockInvariance, LockInvMeaning, PTL

\* No release forgets to wake a request it could have granted.
THEOREM NoLostWakeup == LockSpec => []WaiterIsBlocked
  BY LockInvariance, LockInvMeaning, PTL

\* Neither an arrival, a retry with another mode nor a release lets a request
\* pass one for the same mode that waits ahead of it.
THEOREM ServiceOrder == LockSpec => []ServedInOrder
  BY LockInvariance, LockInvMeaning, PTL

-----------------------------------------------------------------------------
(* Transactions over the lock table *)

TxnStates == {"TXN_INVALID", "TXN_ACTIVE", "TXN_COMMITTED", "TXN_ABORTED"}

TransInv ==
  /\ LockInv
  /\ OnlyActiveInQueues
  /\ txn_state \in [Txns -> TxnStates]
  /\ want \in [Txns -> {NoLock} \cup [r : Resources, m : Mode]]

-----------------------------------------------------------------------------
(* Whose requests are in a queue *)

\* lock_acquire brings in nobody but its caller.
LEMMA AcquiredRequests ==
  ASSUME NEW q \in Seq(Request), NEW t \in Txns, NEW m \in Mode,
         NEW u, HasRequest(Acquired(q, t, m), u)
  PROVE  u = t \/ HasRequest(q, u)
<1> DEFINE p == Acquired(q, t, m)
<1>1. PICK k \in DOMAIN p : p[k].txn = u
  BY DEF HasRequest
<1>2. CASE IsHolder(q, t)
  <2>1. p = Reacquired(q, t, m)
    BY <1>2 DEF Acquired
  <2>2. DOMAIN p = DOMAIN q /\ p[k].txn = q[k].txn
    BY <1>1, <2>1, RequestAt DEF Reacquired, Rewrite, Request
  <2> QED
    BY <1>1, <2>2 DEF HasRequest
<1>3. CASE IsWaiter(q, t)
  <2>1. p = Retried(q, t, m)
    BY <1>3 DEF Acquired, IsHolder, IsWaiter
  <2>2. DOMAIN p = DOMAIN q /\ (p[k].txn = q[k].txn \/ p[k].txn = t)
    BY <1>1, <2>1 DEF Retried
  <2> QED
    BY <1>1, <2>2 DEF HasRequest
<1>4. CASE ~IsHolder(q, t) /\ ~IsWaiter(q, t)
  <2>1. p = Enqueued(q, t, m)
    BY <1>4 DEF Acquired
  <2>2. k \in 1 .. Len(q) + 1 /\ (k # Len(q) + 1 => p[k] = q[k])
        /\ (k = Len(q) + 1 => p[k].txn = t)
    BY <1>1, <2>1 DEF Enqueued
  <2> QED
    BY <1>1, <2>2 DEF HasRequest
<1> QED
  BY <1>2, <1>3, <1>4

\* lock_release_all brings in nobody and takes its caller out.
LEMMA ReleasedRequests ==
  ASSUME NEW q \in Seq(Request), OneEach(q), NEW t \in Txns, NEW p \in Released(q, t),
         NEW u, HasRequest(p, u)
  PROVE  u # t /\ HasRequest(q, u)
<1>1. CASE ~HasRequest(q, t)
  BY <1>1 DEF Released
<1>2. CASE HasRequest(q, t)
  <2> DEFINE rest == Removed(q, t)
  <2>1. rest \in Seq(Request)
    BY <1>2, RemovedShape
  <2>2. PICK f \in [DOMAIN rest -> DOMAIN q] :
          \A k \in DOMAIN rest : rest[k] = q[f[k]] /\ q[f[k]].txn # t
    BY <1>2, RemovedShape
  <2>3. PICK g \in [DOMAIN rest -> BOOLEAN] :
          p = [k \in DOMAIN rest |-> [rest[k] EXCEPT !.granted = g[k]]]
    BY <1>2 DEF Released
  <2> HIDE DEF rest
  <2>4. PICK k \in DOMAIN p : p[k].txn = u
    BY DEF HasRequest
  <2>5. k \in DOMAIN rest /\ rest[k] \in Request
    BY <2>1, <2>3, <2>4, RequestAt
  <2>6. p[k].txn = rest[k].txn
    BY <2>3, <2>5 DEF Request
  <2> QED
    BY <2>2, <2>4, <2>5, <2>6 DEF HasRequest
<1> QED
  BY <1>1, <1>2

-----------------------------------------------------------------------------
(* One step *)

\* Whoever is refused held nothing on the queue: a conversion is never refused.
LEMMA RefusedNotHolder ==
  ASSUME NEW q \in Seq(Request), OneEach(q), NEW t \in Txns, NEW m \in Mode,
         AcquireRc(q, t, m) = "DB_LOCK_CONFLICT"
  PROVE  ~IsHolder(q, t)
<1> SUFFICES ASSUME IsHolder(q, t) PROVE FALSE
  OBVIOUS
<1>1. Acquired(q, t, m) = Reacquired(q, t, m)
  BY DEF Acquired
<1>2. /\ IndexOf(q, t) \in DOMAIN q /\ q[IndexOf(q, t)].txn = t
      /\ q[IndexOf(q, t)].granted
  BY IndexOfRequest DEF IsHolder
<1> DEFINE p == Reacquired(q, t, m)
           i == IndexOf(q, t)
<1>3. /\ DOMAIN p = DOMAIN q
      /\ \A k \in DOMAIN q : p[k].txn = q[k].txn /\ (p[k].granted <=> q[k].granted)
  <2>1. p = q \/ p = [q EXCEPT ![i] = [@ EXCEPT !.mode = m]]
    BY DEF Reacquired, Rewrite
  <2>2. ASSUME NEW k \in DOMAIN q, p = [q EXCEPT ![i] = [@ EXCEPT !.mode = m]]
        PROVE  p[k].txn = q[k].txn /\ (p[k].granted <=> q[k].granted)
    <3>1. q[k] \in Request
      BY RequestAt
    <3>2. p[k] = IF k = i THEN [q[k] EXCEPT !.mode = m] ELSE q[k]
      BY <2>2
    <3> HIDE DEF p, i
    <3> QED
      BY <3>1, <3>2 DEF Request
  <2>3. DOMAIN p = DOMAIN q
    BY <2>1
  <2> HIDE DEF p
  <2> QED
    BY <2>1, <2>2, <2>3
<1>4. HasRequest(p, t)
  BY <1>2, <1>3 DEF HasRequest
<1>5. IndexOf(p, t) \in DOMAIN p /\ p[IndexOf(p, t)].txn = t
  BY <1>4, IndexOfRequest
<1>6. IndexOf(p, t) = i
  BY <1>2, <1>3, <1>5 DEF OneEach
<1>7. IsHolder(p, t)
  BY <1>2, <1>3, <1>4, <1>6 DEF IsHolder
<1> QED
  BY <1>1, <1>7 DEF AcquireRc

\* The queues between the request of t and the release of a victim.
LEMMA AfterAcquireInv ==
  ASSUME LockInv, NEW t \in Txns, NEW r \in Resources, NEW m \in Mode,
         AcquireRc(queue[r], t, m) = "DB_LOCK_CONFLICT"
  PROVE  /\ AfterAcquire(t, r, m) \in [Resources -> Seq(Request)]
         /\ \A s \in Resources : QueueInv(AfterAcquire(t, r, m)[s], converted[s])
<1> DEFINE q == queue[r]
<1>1. q \in Seq(Request) /\ QueueInv(q, converted[r])
  BY DEF LockInv, LockTypeOK
<1>3. ~IsHolder(q, t)
  BY <1>1, RefusedNotHolder DEF QueueInv
<1>4. ConvertedBy(q, converted[r], t, m) = converted[r]
  BY <1>3 DEF ConvertedBy
<1>5. Acquired(q, t, m) \in Seq(Request) /\ QueueInv(Acquired(q, t, m), converted[r])
  BY <1>1, <1>4, AcquiredInv
<1>6. queue \in [Resources -> Seq(Request)]
      /\ \A s \in Resources : QueueInv(queue[s], converted[s])
  BY DEF LockInv, LockTypeOK
<1> QED
  BY <1>5, <1>6 DEF AfterAcquire

\* A commit or an abort, of t itself or of a victim, that finds the queues Q.
LEMMA FinishInv ==
  ASSUME TransInv, NEW t \in Txns, NEW type, NEW state \in TxnStates,
         Finish(t, type, state),
         NEW Q \in [Resources -> Seq(Request)],
         \A r \in Resources : QueueInv(Q[r], converted[r]),
         \A r \in Resources, u \in Txns : HasRequest(Q[r], u) => Active(u),
         ReleasedBy(t, Q)
  PROVE  LockInv' /\ OnlyActiveInQueues' /\ txn_state' \in [Txns -> TxnStates]
<1>1. LockInv'
  BY ReleasedByInv DEF TransInv, LockInv, LockTypeOK
<1>2. txn_state' = [txn_state EXCEPT ![t] = state] /\ txn_state \in [Txns -> TxnStates]
  BY DEF Finish, TransInv
<1>3. ASSUME NEW r \in Resources, NEW u \in Txns, HasRequest(queue'[r], u)
      PROVE  txn_state'[u] = "TXN_ACTIVE"
  <2>1. queue'[r] \in Released(Q[r], t) /\ OneEach(Q[r]) /\ Q[r] \in Seq(Request)
    BY DEF ReleasedBy, QueueInv
  <2>2. u # t /\ HasRequest(Q[r], u)
    BY <1>3, <2>1, ReleasedRequests
  <2> QED
    BY <1>2, <2>2 DEF Active
<1> QED
  BY <1>1, <1>2, <1>3 DEF OnlyActiveInQueues, Active

\* A request of an active transaction, with or without a victim.
LEMMA AcquireInv ==
  ASSUME TransInv, NEW t \in Txns, NEW r \in Resources, NEW m \in Mode, Acquire(t, r, m)
  PROVE  TransInv'
<1>0. /\ LockInv /\ Active(t) /\ txn_state \in [Txns -> TxnStates]
      /\ \A s \in Resources, u \in Txns : HasRequest(queue[s], u) => Active(u)
      /\ queue \in [Resources -> Seq(Request)]
      /\ want \in [Txns -> {NoLock} \cup [r : Resources, m : Mode]]
  BY DEF TransInv, Acquire, OnlyActiveInQueues, LockInv, LockTypeOK
<1>1. [r |-> r, m |-> m] \in [r : Resources, m : Mode]
  OBVIOUS
<1>2. ASSUME NEW s \in Resources, NEW u \in Txns, HasRequest(AfterAcquire(t, r, m)[s], u)
      PROVE  Active(u)
  <2>1. u = t \/ HasRequest(queue[s], u)
    <3>1. CASE s = r
      BY <1>0, <1>2, <3>1, AcquiredRequests DEF AfterAcquire
    <3>2. CASE s # r
      BY <1>0, <1>2, <3>2 DEF AfterAcquire
    <3> QED
      BY <3>1, <3>2
  <2> QED
    BY <1>0, <2>1
<1>3. ASSUME LockAcquire(t, r, m), UNCHANGED txn_state
      PROVE  LockInv' /\ OnlyActiveInQueues'
  <2>1. queue' = AfterAcquire(t, r, m)
    BY <1>3 DEF LockAcquire, AfterAcquire
  <2> QED
    BY <1>0, <1>2, <1>3, <2>1, LockAcquireInv DEF OnlyActiveInQueues, Active
<1>4. CASE Granted(t, r, m)
  <2>1. LockAcquire(t, r, m) /\ UNCHANGED txn_state /\ want' = [want EXCEPT ![t] = NoLock]
    BY <1>4 DEF Granted, txnVars
  <2> QED
    BY <1>0, <1>3, <2>1 DEF TransInv
<1>5. ASSUME AcquireRc(queue[r], t, m) = "DB_LOCK_CONFLICT", NEW u, Refused(t, r, m, u)
      PROVE  TransInv'
  <2> DEFINE wanted == [want EXCEPT ![t] = [r |-> r, m |-> m]]
  <2>1. wanted \in [Txns -> {NoLock} \cup [r : Resources, m : Mode]]
    BY <1>0, <1>1
  <2>2. CASE LockAcquire(t, r, m) /\ UNCHANGED txnVars /\ want' = wanted
    BY <1>0, <1>3, <2>1, <2>2 DEF TransInv, txnVars
  <2>3. ASSUME NEW v \in Txns, Finish(v, "WAL_ABORT", "TXN_ABORTED"),
               want' = [wanted EXCEPT ![v] = NoLock],
               ReleasedBy(v, AfterAcquire(t, r, m))
        PROVE  TransInv'
    <3>1. want' \in [Txns -> {NoLock} \cup [r : Resources, m : Mode]]
      BY <2>1, <2>3
    <3>2. /\ AfterAcquire(t, r, m) \in [Resources -> Seq(Request)]
          /\ \A s \in Resources : QueueInv(AfterAcquire(t, r, m)[s], converted[s])
      BY <1>0, <1>5, AfterAcquireInv
    <3>3. "TXN_ABORTED" \in TxnStates
      BY DEF TxnStates
    <3> QED
      BY <1>2, <2>3, <3>1, <3>2, <3>3, FinishInv DEF TransInv
  <2> QED
    BY <1>5, <2>2, <2>3 DEF Refused
<1> QED
  BY <1>4, <1>5 DEF Acquire

-----------------------------------------------------------------------------
(* The theorems *)

\* Every reachable state satisfies TransInv.
THEOREM TransInvariance == TransSpec => []TransInv
<1>1. TransInit => TransInv
  <2> SUFFICES ASSUME TransInit PROVE TransInv
    OBVIOUS
  <2>1. LockInv
    BY LockInvInit DEF TransInit
  <2>2. OnlyActiveInQueues
    BY DEF TransInit, LockInit, OnlyActiveInQueues, HasRequest
  <2> QED
    BY <2>1, <2>2 DEF TransInit, TransInv, TxnStates
<1>2. TransInv /\ [TransNext]_transVars => TransInv'
  <2> SUFFICES ASSUME TransInv, [TransNext]_transVars PROVE TransInv'
    OBVIOUS
  <2>0. /\ LockInv /\ txn_state \in [Txns -> TxnStates]
        /\ \A s \in Resources, u \in Txns : HasRequest(queue[s], u) => Active(u)
        /\ queue \in [Resources -> Seq(Request)]
        /\ \A s \in Resources : QueueInv(queue[s], converted[s])
        /\ want \in [Txns -> {NoLock} \cup [r : Resources, m : Mode]]
    BY DEF TransInv, OnlyActiveInQueues, LockInv, LockTypeOK
  <2>1. ASSUME NEW t \in Txns, txn_begin(t) PROVE TransInv'
    <3>1. /\ txn_state' = [txn_state EXCEPT ![t] = "TXN_ACTIVE"]
          /\ UNCHANGED <<queue, converted, want>>
      BY <2>1 DEF txn_begin, lockVars, clientVars
    <3>2. LockInv'
      BY <2>0, <3>1 DEF LockInv, LockTypeOK
    <3>3. OnlyActiveInQueues'
      BY <2>0, <3>1 DEF OnlyActiveInQueues, Active
    <3> QED
      BY <2>0, <3>1, <3>2, <3>3 DEF TransInv, TxnStates
  <2>2. ASSUME NEW t \in Txns, txn_commit(t) PROVE TransInv'
    <3>1. /\ Finish(t, "WAL_COMMIT", "TXN_COMMITTED") /\ ReleasedBy(t, queue)
          /\ want' = want /\ "TXN_COMMITTED" \in TxnStates
      BY <2>2 DEF txn_commit, LockReleaseAll, TxnStates
    <3> QED
      BY <2>0, <3>1, FinishInv DEF TransInv
  <2>3. ASSUME NEW t \in Txns, txn_abort(t) PROVE TransInv'
    <3>1. /\ Finish(t, "WAL_ABORT", "TXN_ABORTED") /\ ReleasedBy(t, queue)
          /\ want' = [want EXCEPT ![t] = NoLock] /\ "TXN_ABORTED" \in TxnStates
      BY <2>3 DEF txn_abort, LockReleaseAll, TxnStates
    <3>2. want' \in [Txns -> {NoLock} \cup [r : Resources, m : Mode]]
      BY <2>0, <3>1
    <3> QED
      BY <2>0, <3>1, <3>2, FinishInv DEF TransInv
  <2>4. ASSUME NEW t \in Txns, Ask(t) PROVE TransInv'
    <3>1. PICK r \in Resources, m \in Mode : Acquire(t, r, m)
      BY <2>4, TxnAssumption DEF Ask
    <3> QED
      BY <3>1, AcquireInv
  <2>5. ASSUME NEW t \in Txns, Retry(t) PROVE TransInv'
    <3>1. want[t].r \in Resources /\ want[t].m \in Mode /\ Acquire(t, want[t].r, want[t].m)
      BY <2>0, <2>5 DEF Retry, Waiting
    <3> QED
      BY <3>1, AcquireInv
  <2>6. CASE UNCHANGED transVars
    <3>1. UNCHANGED <<queue, converted, want, txn_state>>
      BY <2>6 DEF transVars, lockVars, clientVars, txnVars
    <3>2. LockInv'
      BY <2>0, <3>1 DEF LockInv, LockTypeOK
    <3>3. OnlyActiveInQueues'
      BY <2>0, <3>1 DEF OnlyActiveInQueues, Active
    <3> QED
      BY <2>0, <3>1, <3>2, <3>3 DEF TransInv
  <2> QED
    BY <2>1, <2>2, <2>3, <2>4, <2>5, <2>6 DEF TransNext
<1> QED
  BY <1>1, <1>2, PTL DEF TransSpec

\* Commit, abort and the detector leave no request behind in any queue, so
\* nobody waits for a transaction that is over.
THEOREM NoLockLeaked == TransSpec => []OnlyActiveInQueues
<1>1. TransInv => OnlyActiveInQueues
  BY DEF TransInv
<1> QED
  BY <1>1, TransInvariance, PTL

\* The grant decisions stay sound, and no wake-up is lost, when victims are
\* aborted between the request of one client and the next.
THEOREM LocksStaySound == TransSpec => [](HoldersCompatible /\ WaiterIsBlocked)
<1>1. TransInv => HoldersCompatible /\ WaiterIsBlocked
  BY LockInvMeaning DEF TransInv
<1> QED
  BY <1>1, TransInvariance, PTL

-----------------------------------------------------------------------------
(* The victims of the detector are deadlocked *)

\* memmove drops one request; every other one is found again.
LEMMA RemovedKeeps ==
  ASSUME NEW q \in Seq(Request), NEW t \in Txns, HasRequest(q, t),
         NEW j \in DOMAIN q, q[j].txn # t
  PROVE  \E k \in DOMAIN Removed(q, t) : Removed(q, t)[k] = q[j]
<1> DEFINE i == IndexOf(q, t)
           rest == Removed(q, t)
<1>1. i \in 1 .. Len(q) /\ q[i].txn = t /\ Len(q) \in Nat /\ DOMAIN q = 1 .. Len(q)
  BY IndexOfRequest
<1>2. rest = [k \in 1 .. Len(q) - 1 |-> IF k < i THEN q[k] ELSE q[k + 1]]
  BY DEF Removed
<1> HIDE DEF i, rest
<1>3. CASE j < i
  <2>1. j \in 1 .. Len(q) - 1 /\ rest[j] = q[j]
    BY <1>1, <1>2, <1>3
  <2> QED
    BY <1>2, <2>1 DEF rest
<1>4. CASE j > i
  <2>1. j - 1 \in 1 .. Len(q) - 1 /\ rest[j - 1] = q[j]
    BY <1>1, <1>2, <1>4
  <2> QED
    BY <1>2, <2>1 DEF rest
<1> QED
  BY <1>1, <1>3, <1>4

\* A waiting request of x conflicts with a granted one of u.
Blocks(q, x, u) ==
  \E i, j \in DOMAIN q :
     /\ q[i].txn = x /\ ~q[i].granted
     /\ q[j].txn = u /\ q[j].granted
     /\ ~lock_compatible(q[i].mode, q[j].mode)

\* Who blocks whom, read off the queue as lock_acquire reads it.
LEMMA BlocksMeaning ==
  ASSUME NEW q \in Seq(Request), OneEach(q), NEW x \in Txns, NEW u \in Txns
  PROVE  Blocks(q, x, u) <=> IsWaiter(q, x) /\ u \in Holders(q, x, q[IndexOf(q, x)].mode)
<1>1. ASSUME Blocks(q, x, u)
      PROVE  IsWaiter(q, x) /\ u \in Holders(q, x, q[IndexOf(q, x)].mode)
  <2>1. PICK i \in DOMAIN q, j \in DOMAIN q :
               /\ q[i].txn = x /\ ~q[i].granted
               /\ q[j].txn = u /\ q[j].granted
               /\ ~lock_compatible(q[i].mode, q[j].mode)
    BY <1>1 DEF Blocks
  <2>2. HasRequest(q, x) /\ HasRequest(q, u)
    BY <2>1 DEF HasRequest
  <2>3. IndexOf(q, x) = i /\ IndexOf(q, u) = j
    BY <2>1, <2>2, IndexOfRequest DEF OneEach
  <2>4. u # x
    BY <2>1 DEF OneEach
  <2> QED
    BY <2>1, <2>2, <2>3, <2>4 DEF IsWaiter, IsHolder, Holders
<1>2. ASSUME IsWaiter(q, x), u \in Holders(q, x, q[IndexOf(q, x)].mode)
      PROVE  Blocks(q, x, u)
  <2>1. IndexOf(q, x) \in DOMAIN q /\ q[IndexOf(q, x)].txn = x /\ ~q[IndexOf(q, x)].granted
    BY <1>2, IndexOfRequest DEF IsWaiter
  <2>2. /\ IndexOf(q, u) \in DOMAIN q /\ q[IndexOf(q, u)].txn = u /\ q[IndexOf(q, u)].granted
        /\ ~lock_compatible(q[IndexOf(q, x)].mode, q[IndexOf(q, u)].mode)
    BY <1>2, IndexOfRequest DEF Holders, IsHolder
  <2> QED
    BY <2>1, <2>2 DEF Blocks
<1> QED
  BY <1>1, <1>2

\* lock_acquire by another transaction leaves x waiting for u, if it asks for S
\* or X: a mode is only raised to X then.
LEMMA AcquiredBlocks ==
  ASSUME NEW q \in Seq(Request), OneEach(q), NEW t \in Txns, NEW m \in {"S", "X"},
         NEW x \in Txns, NEW u \in Txns, x # t, Blocks(q, x, u)
  PROVE  Blocks(Acquired(q, t, m), x, u)
<1> DEFINE p == Acquired(q, t, m)
<1>1. PICK i \in DOMAIN q, j \in DOMAIN q :
             /\ q[i].txn = x /\ ~q[i].granted
             /\ q[j].txn = u /\ q[j].granted
             /\ ~lock_compatible(q[i].mode, q[j].mode)
  BY DEF Blocks
<1>2. \A k \in DOMAIN q : q[k] \in Request /\ q[k].mode \in Mode
  BY RequestAt
<1>3. CASE IsHolder(q, t)
  <2> DEFINE h == IndexOf(q, t)
  <2>1. h \in DOMAIN q /\ q[h].txn = t /\ p = Reacquired(q, t, m)
    BY <1>3, IndexOfRequest DEF IsHolder, Acquired
  <2>2. CASE p = q
    BY <2>2
  <2>3. CASE p # q
    <3> DEFINE w == [q[h] EXCEPT !.mode = m]
    <3>1. p = [q EXCEPT ![h] = w] /\ EnumOrder[m] > EnumOrder[q[h].mode]
      BY <2>1, <2>3 DEF Reacquired, Rewrite
    <3>2. m = "X"
      BY <1>2, <2>1, <3>1 DEF EnumOrder, Mode
    <3>3. w.txn = q[h].txn /\ w.granted = q[h].granted /\ w.mode = "X"
      BY <1>2, <2>1, <3>2 DEF Request
    <3>4. ~lock_compatible(q[i].mode, "X")
      <4>1. "X" \in Mode
        BY DEF Mode
      <4> QED
        BY <1>2, <4>1, SelfCompatible, CompatibleSymmetric
    <3> HIDE DEF w, p, h
    <3>5. /\ DOMAIN p = DOMAIN q /\ p[i] = q[i]
          /\ p[j].txn = u /\ p[j].granted
          /\ ~lock_compatible(p[i].mode, p[j].mode)
      BY <1>1, <2>1, <3>1, <3>3, <3>4
    <3> QED
      BY <1>1, <3>5 DEF Blocks, p
  <2> QED
    BY <2>2, <2>3
<1>4. CASE IsWaiter(q, t)
  <2> DEFINE h == IndexOf(q, t)
  <2>1. h \in DOMAIN q /\ q[h].txn = t /\ ~q[h].granted /\ p = Retried(q, t, m)
    BY <1>4, IndexOfRequest DEF IsWaiter, IsHolder, Acquired
  <2>2. DOMAIN p = DOMAIN q /\ \A k \in DOMAIN q : k # h => p[k] = q[k]
    BY <2>1 DEF Retried
  <2>3. i # h /\ j # h
    BY <1>1, <2>1
  <2> HIDE DEF p, h
  <2> QED
    BY <1>1, <2>2, <2>3 DEF Blocks, p
<1>5. CASE ~IsHolder(q, t) /\ ~IsWaiter(q, t)
  <2> DEFINE new == [txn |-> t, mode |-> m, granted |-> SuitsOthers(q, 0, m)]
  <2>1. p = Append(q, new)
    BY <1>5 DEF Acquired, Enqueued
  <2> HIDE DEF new
  <2>2. DOMAIN q \subseteq DOMAIN p /\ \A k \in DOMAIN q : p[k] = q[k]
    BY <2>1
  <2> HIDE DEF p
  <2> QED
    BY <1>1, <2>2 DEF Blocks, p
<1> QED
  BY <1>3, <1>4, <1>5

\* A release by a third transaction leaves x waiting for u.
LEMMA ReleasedBlocks ==
  ASSUME NEW q \in Seq(Request), OneEach(q), NEW t \in Txns, NEW p \in Released(q, t),
         NEW x \in Txns, NEW u \in Txns, x # t, u # t, Blocks(q, x, u)
  PROVE  Blocks(p, x, u)
<1>1. CASE ~HasRequest(q, t)
  BY <1>1 DEF Released
<1>2. CASE HasRequest(q, t)
  <2> DEFINE rest == Removed(q, t)
  <2>1. rest \in Seq(Request)
    BY <1>2, RemovedShape
  <2>2. PICK i \in DOMAIN q, j \in DOMAIN q :
               /\ q[i].txn = x /\ ~q[i].granted
               /\ q[j].txn = u /\ q[j].granted
               /\ ~lock_compatible(q[i].mode, q[j].mode)
    BY DEF Blocks
  <2>3. PICK k \in DOMAIN rest : rest[k] = q[i]
    BY <1>2, <2>2, RemovedKeeps
  <2>4. PICK l \in DOMAIN rest : rest[l] = q[j]
    BY <1>2, <2>2, RemovedKeeps
  <2>5. PICK g \in [DOMAIN rest -> BOOLEAN] :
          /\ IsGrantPass(rest, g)
          /\ p = [n \in DOMAIN rest |-> [rest[n] EXCEPT !.granted = g[n]]]
    BY <1>2 DEF Released
  <2> HIDE DEF rest
  <2>6. g[l] /\ l # k
    BY <2>2, <2>3, <2>4, <2>5 DEF IsGrantPass
  <2>7. ~g[k]
    BY <2>2, <2>3, <2>4, <2>5, <2>6 DEF IsGrantPass
  <2>8. /\ p[k].txn = x /\ p[k].granted = g[k] /\ p[k].mode = q[i].mode
        /\ p[l].txn = u /\ p[l].granted = g[l] /\ p[l].mode = q[j].mode
        /\ DOMAIN p = DOMAIN rest
    <3>1. rest[k] \in Request /\ rest[l] \in Request
      BY <2>1, RequestAt
    <3> QED
      BY <2>2, <2>3, <2>4, <2>5, <3>1 DEF Request
  <2> QED
    BY <2>2, <2>6, <2>7, <2>8 DEF Blocks
<1> QED
  BY <1>1, <1>2

\* The walk along the edges is what its recursion says.
LEMMA WalkExists ==
  ASSUME NEW w, DOMAIN w \subseteq Txns, \A t \in DOMAIN w : w[t] \in Txns, NEW s \in Txns
  PROVE  LET walk == WalkFrom(w, s) IN
         /\ Cardinality(Txns) \in Nat
         /\ DOMAIN walk = 0 .. Cardinality(Txns) /\ walk[0] = s
         /\ \A n \in 0 .. Cardinality(Txns) : walk[n] \in Txns \cup {NoTxn}
         /\ \A n \in 1 .. Cardinality(Txns) :
              walk[n] = IF walk[n - 1] \in DOMAIN w THEN w[walk[n - 1]] ELSE NoTxn
<1> DEFINE N == Cardinality(Txns)
           S == Txns \cup {NoTxn}
           next == [v \in S |-> IF v \in DOMAIN w THEN w[v] ELSE NoTxn]
           step == [z \in S \X Nat |-> next[z[1]]]
           walk == CHOOSE f : f = [n \in 0 .. N |-> IF n = 0 THEN s ELSE next[f[n - 1]]]
<1>1. N \in Nat
  BY TxnAssumption, FS_CardinalityType
<1>2. WalkFrom(w, s) = walk
  BY DEF WalkFrom
<1>3. next \in [S -> S]
  OBVIOUS
<1> HIDE DEF N
<1>4. \E f \in [0 .. N -> S] : f = [n \in 0 .. N |-> IF n = 0 THEN s ELSE next[f[n - 1]]]
  <2>1. step \in [S \X Nat -> S] /\ s \in S
    <3> HIDE DEF next
    <3> QED
      BY <1>3
  <2> HIDE DEF step, next
  <2>2. PICK f \in [0 .. N -> S] : Recurs(f, s, step, N)
    <3> HIDE DEF S
    <3> QED
      BY <1>1, <2>1, RecursionExists
  <2>3. ASSUME NEW n \in 0 .. N, n # 0 PROVE step[<<f[n - 1], n>>] = next[f[n - 1]]
    <3>1. n - 1 \in 0 .. N /\ n \in Nat
      BY <1>1, <2>3
    <3>2. <<f[n - 1], n>> \in S \X Nat
      BY <3>1
    <3> QED
      BY <3>2 DEF step
  <2>4. f = [n \in 0 .. N |-> IF n = 0 THEN s ELSE next[f[n - 1]]]
    BY <2>2, <2>3 DEF Recurs
  <2> QED
    BY <2>4
<1>5. walk = [n \in 0 .. N |-> IF n = 0 THEN s ELSE next[walk[n - 1]]]
  BY <1>4
<1> HIDE DEF walk, next, step
<1>6. \A n \in 0 .. N : walk[n] = IF n = 0 THEN s ELSE next[walk[n - 1]]
  BY <1>5
<1> DEFINE Good == {n \in Nat : n <= N => walk[n] \in S}
<1>7. 0 \in Good
  BY <1>1, <1>6
<1>8. ASSUME NEW n \in Nat, n \in Good PROVE n + 1 \in Good
  <2> SUFFICES ASSUME n + 1 <= N PROVE walk[n + 1] \in S
    OBVIOUS
  <2>1. n + 1 \in 0 .. N /\ (n + 1) - 1 = n /\ walk[n] \in S
    BY <1>1, <1>8
  <2>2. walk[n + 1] = next[walk[n]]
    BY <1>6, <2>1
  <2> QED
    BY <1>3, <2>1, <2>2
<1>9. \A n \in 0 .. N : walk[n] \in S
  <2>1. Nat \subseteq Good
    <3> HIDE DEF Good
    <3> QED
      BY <1>7, <1>8, NatsBelong
  <2> QED
    BY <1>1, <2>1
<1>10. ASSUME NEW n \in 1 .. N
       PROVE  walk[n] = IF walk[n - 1] \in DOMAIN w THEN w[walk[n - 1]] ELSE NoTxn
  <2>1. n \in 0 .. N /\ n # 0 /\ n - 1 \in 0 .. N
    BY <1>1
  <2>2. walk[n] = next[walk[n - 1]]
    BY <1>6, <2>1
  <2>3. walk[n - 1] \in S
    BY <1>9, <2>1
  <2> QED
    BY <2>2, <2>3 DEF next
<1>11. DOMAIN walk = 0 .. N /\ walk[0] = s
  BY <1>1, <1>5, <1>6
<1> QED
  BY <1>1, <1>2, <1>9, <1>10, <1>11 DEF N

\* A walk that comes back went over edges only, so its victim is on a cycle of
\* edges; it is deadlocked if the edges on the way are true.
LEMMA VictimDeadlocked ==
  ASSUME NEW w, DOMAIN w \subseteq Txns, \A t \in DOMAIN w : w[t] \in Txns,
         NEW queues,
         \A t \in DOMAIN w : w[t] \in DOMAIN w => WaitsOn(queues, t, w[t]),
         NEW s \in DOMAIN w, NEW v \in DetectedFrom(w, s)
  PROVE  Deadlocked(queues, v) /\ v \in DOMAIN w
<1> DEFINE N == Cardinality(Txns)
           walk == WalkFrom(w, s)
<1>1. /\ N \in Nat
      /\ DOMAIN walk = 0 .. N
      /\ \A n \in 0 .. N : walk[n] \in Txns \cup {NoTxn}
      /\ \A n \in 1 .. N :
           walk[n] = IF walk[n - 1] \in DOMAIN w THEN w[walk[n - 1]] ELSE NoTxn
  <2>1. s \in Txns
    OBVIOUS
  <2> QED
    BY <2>1, WalkExists
<1>2. NoTxn \notin Txns
  BY TxnAssumption DEF NoTxn
<1>3. PICK n \in DOMAIN walk : /\ v = walk[n] /\ walk[n] # NoTxn
                              /\ \E k \in 0 .. n - 1 : walk[k] = walk[n]
  BY DEF DetectedFrom
<1> HIDE DEF N, walk
<1>4. PICK k \in 0 .. n - 1 : walk[k] = walk[n]
  BY <1>3
<1>5. /\ N \in Nat /\ n \in Nat /\ n <= N /\ k \in Nat /\ k < n
      /\ n - k \in Nat /\ n - k \in 1 .. N /\ n \in 0 .. N
  BY <1>1, <1>3, <1>4
<1> DEFINE Kept == {d \in Nat : d <= n => walk[n - d] # NoTxn}
<1>6. Nat \subseteq Kept
  <2>1. 0 \in Kept
    BY <1>3, <1>5
  <2>2. ASSUME NEW d \in Nat, d \in Kept PROVE d + 1 \in Kept
    <3> SUFFICES ASSUME d + 1 <= n PROVE walk[n - (d + 1)] # NoTxn
      OBVIOUS
    <3>1. n - d \in 1 .. N /\ (n - d) - 1 = n - (d + 1) /\ d <= n
      BY <1>5
    <3>2. walk[n - d] # NoTxn
      BY <2>2, <3>1
    <3>3. walk[(n - d) - 1] \in DOMAIN w
      BY <1>1, <3>1, <3>2
    <3> QED
      BY <1>2, <3>1, <3>3
  <2> HIDE DEF Kept
  <2> QED
    BY <2>1, <2>2, NatsBelong
<1>7. ASSUME NEW j \in 0 .. n PROVE walk[j] # NoTxn /\ walk[j] \in Txns
  <2>1. n - j \in Nat /\ n - j <= n /\ n - (n - j) = j /\ j \in 0 .. N
    BY <1>5
  <2>2. n - j \in Kept
    BY <1>6, <2>1
  <2> QED
    BY <1>1, <2>1, <2>2
<1>8. ASSUME NEW j \in 0 .. n - 1
      PROVE  walk[j] \in DOMAIN w /\ walk[j + 1] = w[walk[j]]
  <2>1. j + 1 \in 1 .. N /\ (j + 1) - 1 = j /\ j + 1 \in 0 .. n
    BY <1>5
  <2>2. walk[j + 1] # NoTxn
    BY <1>7, <2>1
  <2>3. walk[j + 1] = IF walk[j] \in DOMAIN w THEN w[walk[j]] ELSE NoTxn
    BY <1>1, <2>1
  <2> QED
    BY <2>2, <2>3
<1>9. walk[n] \in DOMAIN w
  BY <1>4, <1>8
<1>10. ASSUME NEW j \in 0 .. n - 1 PROVE WaitsOn(queues, walk[j], walk[j + 1])
  <2>1. walk[j + 1] \in DOMAIN w
    <3>1. j + 1 = n \/ j + 1 \in 0 .. n - 1
      BY <1>5
    <3> QED
      BY <1>8, <1>9, <3>1
  <2> QED
    BY <1>8, <2>1
<1> DEFINE path == [i \in 0 .. n - k |-> walk[k + i]]
<1>11. path \in [0 .. n - k -> Txns]
  <2>1. ASSUME NEW i \in 0 .. n - k PROVE walk[k + i] \in Txns
    <3>1. k + i \in 0 .. n
      BY <1>5
    <3> QED
      BY <1>7, <3>1
  <2> QED
    BY <2>1
<1>12. path[0] = v /\ path[n - k] = v
  BY <1>3, <1>4, <1>5
<1>13. ASSUME NEW i \in 1 .. n - k PROVE WaitsOn(queues, path[i - 1], path[i])
  <2>1. /\ i - 1 \in 0 .. n - k /\ i \in 0 .. n - k
        /\ k + (i - 1) \in 0 .. n - 1 /\ (k + (i - 1)) + 1 = k + i
    BY <1>5
  <2>2. path[i - 1] = walk[k + (i - 1)] /\ path[i] = walk[(k + (i - 1)) + 1]
    BY <2>1
  <2> HIDE DEF path
  <2> QED
    BY <1>10, <2>1, <2>2
<1> HIDE DEF path
<1> QED
  BY <1>3, <1>5, <1>9, <1>11, <1>12, <1>13 DEF Deadlocked, OnCycle, N

\* What keeps the victims honest: the edges w belong to active transactions,
\* and one to a transaction that is still active is a true wait on the queues Q.
\* An edge to one that is over may stay, but leads nowhere: it has no edge.
EdgesTrue(w, Q, state) ==
  /\ DOMAIN w \subseteq Txns
  /\ \A x \in DOMAIN w :
       /\ state[x] = "TXN_ACTIVE"
       /\ w[x] \in Txns
       /\ state[w[x]] # "TXN_INVALID"
       /\ state[w[x]] = "TXN_ACTIVE" => \E r \in Resources : Blocks(Q[r], x, w[x])

\* A detector that finds a victim on true edges is right.
LEMMA VictimIsDeadlocked ==
  ASSUME NEW w, NEW Q \in [Resources -> Seq(Request)], NEW state, EdgesTrue(w, Q, state),
         \A r \in Resources : OneEach(Q[r]),
         NEW v \in deadlock_detect(w)
  PROVE  Deadlocked(Q, v) /\ v \in DOMAIN w
<1>1. PICK s \in DOMAIN w : v \in DetectedFrom(w, s)
  BY DEF deadlock_detect
<1>2. ASSUME NEW t \in DOMAIN w, w[t] \in DOMAIN w PROVE WaitsOn(Q, t, w[t])
  <2>1. t \in Txns /\ w[t] \in Txns
    BY <1>2 DEF EdgesTrue
  <2>2. PICK r \in Resources : Blocks(Q[r], t, w[t])
    BY <1>2 DEF EdgesTrue
  <2>3. Q[r] \in Seq(Request) /\ OneEach(Q[r])
    OBVIOUS
  <2>4. IsWaiter(Q[r], t) /\ w[t] \in Holders(Q[r], t, Q[r][IndexOf(Q[r], t)].mode)
    BY <2>1, <2>2, <2>3, BlocksMeaning
  <2> QED
    BY <2>4 DEF WaitsOn
<1>3. DOMAIN w \subseteq Txns /\ \A t \in DOMAIN w : w[t] \in Txns
  BY DEF EdgesTrue
<1> QED
  BY <1>1, <1>2, <1>3, VictimDeadlocked

\* The end of v, which clears its own edge only, leaves true edges.
LEMMA EdgesAfterFinish ==
  ASSUME NEW w, NEW Q \in [Resources -> Seq(Request)], EdgesTrue(w, Q, txn_state),
         \A r \in Resources : OneEach(Q[r]),
         NEW v \in Txns, ReleasedBy(v, Q),
         txn_state \in [Txns -> TxnStates],
         NEW ended \in {"TXN_COMMITTED", "TXN_ABORTED"}
  PROVE  EdgesTrue(WithoutEdge(w, v), queue', [txn_state EXCEPT ![v] = ended])
<1> DEFINE e == WithoutEdge(w, v)
           state == [txn_state EXCEPT ![v] = ended]
<1>1. DOMAIN e = DOMAIN w \ {v} /\ \A x \in DOMAIN e : e[x] = w[x]
  BY DEF WithoutEdge
<1>2. \A x \in Txns : state[x] = IF x = v THEN ended ELSE txn_state[x]
  OBVIOUS
<1> HIDE DEF e, state
<1>3. ASSUME NEW x \in DOMAIN e
      PROVE  /\ state[x] = "TXN_ACTIVE"
             /\ e[x] \in Txns
             /\ state[e[x]] # "TXN_INVALID"
             /\ state[e[x]] = "TXN_ACTIVE" => \E r \in Resources : Blocks(queue'[r], x, e[x])
  <2>1. /\ x \in Txns /\ x # v /\ e[x] = w[x] /\ w[x] \in Txns
        /\ txn_state[x] = "TXN_ACTIVE"
        /\ txn_state[w[x]] # "TXN_INVALID"
        /\ txn_state[w[x]] = "TXN_ACTIVE" => \E r \in Resources : Blocks(Q[r], x, w[x])
    BY <1>1, <1>3 DEF EdgesTrue
  <2>2. ASSUME state[e[x]] = "TXN_ACTIVE"
        PROVE  \E r \in Resources : Blocks(queue'[r], x, e[x])
    <3>1. w[x] # v /\ txn_state[w[x]] = "TXN_ACTIVE"
      BY <1>2, <2>1, <2>2
    <3>2. PICK r \in Resources : Blocks(Q[r], x, w[x])
      BY <2>1, <3>1
    <3>3. Q[r] \in Seq(Request) /\ OneEach(Q[r]) /\ queue'[r] \in Released(Q[r], v)
      BY DEF ReleasedBy
    <3>4. Blocks(queue'[r], x, w[x])
      BY <2>1, <3>1, <3>2, <3>3, ReleasedBlocks
    <3> QED
      BY <2>1, <3>4
  <2> QED
    BY <1>2, <2>1, <2>2
<1>4. DOMAIN e \subseteq Txns
  BY <1>1 DEF EdgesTrue
<1> QED
  BY <1>3, <1>4 DEF EdgesTrue, e, state

\* A grant clears the edge of t; the other edges stay true.
LEMMA EdgesAfterGrant ==
  ASSUME LockInv, NEW w, EdgesTrue(w, queue, txn_state),
         NEW t \in Txns, NEW r \in Resources, NEW m \in {"S", "X"}
  PROVE  EdgesTrue(WithoutEdge(w, t), AfterAcquire(t, r, m), txn_state)
<1> DEFINE e == WithoutEdge(w, t)
           Q == AfterAcquire(t, r, m)
<1>1. DOMAIN e = DOMAIN w \ {t} /\ \A x \in DOMAIN e : e[x] = w[x]
  BY DEF WithoutEdge
<1>2. /\ queue \in [Resources -> Seq(Request)]
      /\ \A s \in Resources : OneEach(queue[s])
      /\ \A s \in Resources : Q[s] = IF s = r THEN Acquired(queue[r], t, m) ELSE queue[s]
  BY DEF LockInv, LockTypeOK, QueueInv, AfterAcquire
<1> HIDE DEF e, Q
<1>3. ASSUME NEW x \in DOMAIN e
      PROVE  /\ txn_state[x] = "TXN_ACTIVE"
             /\ e[x] \in Txns
             /\ txn_state[e[x]] # "TXN_INVALID"
             /\ txn_state[e[x]] = "TXN_ACTIVE" => \E s \in Resources : Blocks(Q[s], x, e[x])
  <2>1. /\ x \in Txns /\ x # t /\ e[x] = w[x] /\ w[x] \in Txns
        /\ txn_state[x] = "TXN_ACTIVE"
        /\ txn_state[w[x]] # "TXN_INVALID"
        /\ txn_state[w[x]] = "TXN_ACTIVE" => \E s \in Resources : Blocks(queue[s], x, w[x])
    BY <1>1, <1>3 DEF EdgesTrue
  <2>2. ASSUME NEW s \in Resources, Blocks(queue[s], x, w[x])
        PROVE  Blocks(Q[s], x, w[x])
    <3>1. CASE s = r
      <4>1. Blocks(Acquired(queue[s], t, m), x, w[x])
        BY <1>2, <2>1, <2>2, AcquiredBlocks
      <4> QED
        BY <1>2, <3>1, <4>1
    <3>2. CASE s # r
      BY <1>2, <2>2, <3>2
    <3> QED
      BY <3>1, <3>2
  <2> QED
    BY <2>1, <2>2
<1>4. DOMAIN e \subseteq Txns
  BY <1>1 DEF EdgesTrue
<1> QED
  BY <1>3, <1>4 DEF EdgesTrue, e, Q

\* A refusal gives t an edge to a holder it really waits for.
LEMMA EdgesAfterRefusal ==
  ASSUME LockInv, OnlyActiveInQueues, NEW w, EdgesTrue(w, queue, txn_state),
         NEW t \in Txns, NEW r \in Resources, NEW m \in {"S", "X"},
         Active(t), AcquireRc(queue[r], t, m) = "DB_LOCK_CONFLICT",
         NEW u \in Holders(queue[r], t, m)
  PROVE  EdgesTrue(WithEdge(w, t, u), AfterAcquire(t, r, m), txn_state)
<1> DEFINE e == WithEdge(w, t, u)
           Q == AfterAcquire(t, r, m)
           o == WithoutEdge(w, t)
           q == queue[r]
           p == Acquired(q, t, m)
<1>1. /\ DOMAIN e = DOMAIN o \cup {t} /\ e[t] = u
      /\ \A x \in DOMAIN e : x # t => x \in DOMAIN o /\ e[x] = o[x]
  BY DEF WithEdge, WithoutEdge
<1>2. EdgesTrue(o, Q, txn_state)
  BY EdgesAfterGrant
<1>3. /\ u \in Txns /\ u # t /\ HasRequest(q, u) /\ q[IndexOf(q, u)].granted
      /\ ~lock_compatible(m, q[IndexOf(q, u)].mode)
  BY DEF Holders, IsHolder
<1>4. q \in Seq(Request) /\ OneEach(q) /\ ~IsHolder(q, t) /\ Q[r] = p
  <2>1. q \in Seq(Request) /\ OneEach(q) /\ m \in Mode
    BY DEF LockInv, LockTypeOK, QueueInv, Mode
  <2>2. ~IsHolder(q, t)
    BY <2>1, RefusedNotHolder
  <2>3. queue \in [Resources -> Seq(Request)]
    BY DEF LockInv, LockTypeOK
  <2> QED
    BY <2>1, <2>2, <2>3 DEF AfterAcquire
<1>5. txn_state[u] = "TXN_ACTIVE" /\ txn_state[t] = "TXN_ACTIVE"
  BY <1>3 DEF OnlyActiveInQueues, Active
<1> DEFINE j == IndexOf(q, u)
<1>6. j \in DOMAIN q /\ q[j].txn = u
  BY <1>3, IndexOfRequest
<1> HIDE DEF e, Q, o, q, j
<1>7. Blocks(p, t, u)
  <2>1. CASE IsWaiter(q, t)
    <3> DEFINE i == IndexOf(q, t)
    <3>1. i \in DOMAIN q /\ q[i].txn = t /\ p = Retried(q, t, m)
      BY <1>4, <2>1, IndexOfRequest DEF IsWaiter, Acquired
    <3>2. i # j
      BY <1>3, <1>6, <3>1
    <3>3. SuitsOthers(q, i, m) = FALSE
      BY <1>3, <1>6, <3>2 DEF SuitsOthers, j
    <3>4. p = [q EXCEPT ![i] = [txn |-> t, mode |-> m, granted |-> FALSE]]
      BY <3>1, <3>3 DEF Retried
    <3> HIDE DEF i, p
    <3>5. /\ i \in DOMAIN p /\ j \in DOMAIN p /\ p[j] = q[j]
          /\ p[i].txn = t /\ ~p[i].granted /\ p[i].mode = m
      BY <1>6, <3>1, <3>2, <3>4
    <3> QED
      BY <1>3, <1>6, <3>5 DEF Blocks, j
  <2>2. CASE ~IsWaiter(q, t)
    <3>1. SuitsOthers(q, 0, m) = FALSE
      BY <1>3, <1>4, <1>6 DEF SuitsOthers, j
    <3>2. p = Append(q, [txn |-> t, mode |-> m, granted |-> FALSE])
      BY <1>4, <2>2, <3>1 DEF Acquired, Enqueued
    <3> DEFINE i == Len(q) + 1
    <3> HIDE DEF p
    <3>3. /\ i \in DOMAIN p /\ j \in DOMAIN p /\ p[j] = q[j]
          /\ p[i].txn = t /\ ~p[i].granted /\ p[i].mode = m
      BY <1>4, <1>6, <3>2
    <3> HIDE DEF i
    <3> QED
      BY <1>3, <1>6, <3>3 DEF Blocks, j
  <2> QED
    BY <2>1, <2>2
<1> HIDE DEF p
<1>8. \E s \in Resources : Blocks(Q[s], t, u)
  BY <1>4, <1>7
<1> QED
  BY <1>1, <1>2, <1>3, <1>5, <1>8 DEF EdgesTrue, e, Q

SharedOrExclusive == [r : Resources, m : {"S", "X"}]

\* An edge never leads to a transaction that has not begun, so that one which
\* begins finds no edge to itself.
EdgeInv ==
  /\ next_txn_id \in Nat
  /\ \A t \in Txns : t >= next_txn_id => txn_state[t] = "TXN_INVALID"
  /\ EdgesTrue(waits_for, queue, txn_state)
  /\ want \in [Txns -> {NoLock} \cup SharedOrExclusive]
  /\ blamed = {}

\* The request of a client, with or without a victim.
LEMMA EdgesAfterAcquire ==
  ASSUME TransInv, EdgeInv, NEW t \in Txns, NEW r \in Resources, NEW m \in {"S", "X"},
         Acquire(t, r, m)
  PROVE  EdgeInv'
<1>1. /\ LockInv /\ OnlyActiveInQueues /\ Active(t)
      /\ txn_state \in [Txns -> TxnStates]
      /\ queue \in [Resources -> Seq(Request)]
      /\ m \in Mode /\ [r |-> r, m |-> m] \in SharedOrExclusive
  BY DEF TransInv, Acquire, LockInv, LockTypeOK, Mode, SharedOrExclusive
<1>2. EdgesTrue(waits_for, queue, txn_state) /\ want \in [Txns -> {NoLock} \cup SharedOrExclusive]
  BY DEF EdgeInv
<1>3. CASE Granted(t, r, m)
  <2>1. /\ queue' = AfterAcquire(t, r, m) /\ waits_for' = WithoutEdge(waits_for, t)
        /\ want' = [want EXCEPT ![t] = NoLock]
        /\ UNCHANGED <<next_txn_id, txn_state, blamed>>
    BY <1>3 DEF Granted, LockAcquire, AfterAcquire, txnVars
  <2>2. EdgesTrue(waits_for', queue', txn_state')
    BY <1>1, <1>2, <2>1, EdgesAfterGrant
  <2>3. want' \in [Txns -> {NoLock} \cup SharedOrExclusive]
    BY <1>2, <2>1
  <2> QED
    BY <2>1, <2>2, <2>3 DEF EdgeInv
<1>4. ASSUME AcquireRc(queue[r], t, m) = "DB_LOCK_CONFLICT",
             NEW u \in Holders(queue[r], t, m), Refused(t, r, m, u)
      PROVE  EdgeInv'
  <2> DEFINE edges == WithEdge(waits_for, t, u)
             Q == AfterAcquire(t, r, m)
             wanted == [want EXCEPT ![t] = [r |-> r, m |-> m]]
  <2>1. EdgesTrue(edges, Q, txn_state)
    BY <1>1, <1>2, <1>4, EdgesAfterRefusal
  <2>2. wanted \in [Txns -> {NoLock} \cup SharedOrExclusive]
    BY <1>1, <1>2
  <2>3. CASE /\ want' = wanted /\ LockAcquire(t, r, m) /\ waits_for' = edges
             /\ UNCHANGED <<txnVars, blamed>>
    <3>1. queue' = Q /\ UNCHANGED <<next_txn_id, txn_state, blamed>>
      BY <2>3 DEF LockAcquire, AfterAcquire, txnVars
    <3> HIDE DEF edges, Q, wanted
    <3> QED
      BY <2>1, <2>2, <2>3, <3>1 DEF EdgeInv
  <2>4. ASSUME NEW v \in Txns, Finish(v, "WAL_ABORT", "TXN_ABORTED"),
               v \in deadlock_detect(edges), want' = [wanted EXCEPT ![v] = NoLock],
               waits_for' = WithoutEdge(edges, v), ReleasedBy(v, Q),
               blamed' = IF Deadlocked(Q, v) THEN blamed ELSE blamed \cup {v}
        PROVE  EdgeInv'
    <3>1. Q \in [Resources -> Seq(Request)] /\ \A s \in Resources : OneEach(Q[s])
      BY <1>1, <1>4, AfterAcquireInv DEF QueueInv
    <3>2. txn_state' = [txn_state EXCEPT ![v] = "TXN_ABORTED"] /\ next_txn_id' = next_txn_id
      BY <2>4 DEF Finish
    <3> HIDE DEF edges, Q, wanted
    <3>3. Deadlocked(Q, v) /\ v \in DOMAIN edges
      BY <2>1, <2>4, <3>1, VictimIsDeadlocked
    <3>4. EdgesTrue(waits_for', queue', txn_state')
      BY <1>1, <2>1, <2>4, <3>1, <3>2, EdgesAfterFinish
    <3>5. txn_state[v] = "TXN_ACTIVE"
      BY <2>1, <3>3 DEF EdgesTrue
    <3>6. \A x \in Txns : x >= next_txn_id' => txn_state'[x] = "TXN_INVALID"
      BY <1>1, <3>2, <3>5 DEF EdgeInv
    <3>7. want' \in [Txns -> {NoLock} \cup SharedOrExclusive]
      BY <2>2, <2>4
    <3> QED
      BY <2>4, <3>2, <3>3, <3>4, <3>6, <3>7 DEF EdgeInv
  <2> QED
    BY <1>4, <2>3, <2>4 DEF Refused
<1> QED
  BY <1>3, <1>4 DEF Acquire

\* A commit or an abort of a client.
LEMMA EdgesAfterEnd ==
  ASSUME TransInv, EdgeInv, NEW t \in Txns, Active(t), NEW type,
         NEW ended \in {"TXN_COMMITTED", "TXN_ABORTED"},
         Finish(t, type, ended), LockReleaseAll(t),
         waits_for' = WithoutEdge(waits_for, t),
         want' = want \/ want' = [want EXCEPT ![t] = NoLock],
         UNCHANGED blamed
  PROVE  EdgeInv'
<1>1. /\ txn_state \in [Txns -> TxnStates]
      /\ queue \in [Resources -> Seq(Request)] /\ \A s \in Resources : OneEach(queue[s])
  BY DEF TransInv, LockInv, LockTypeOK, QueueInv
<1>2. txn_state' = [txn_state EXCEPT ![t] = ended] /\ next_txn_id' = next_txn_id
  BY DEF Finish
<1>3. EdgesTrue(waits_for', queue', txn_state')
  BY <1>1, <1>2, EdgesAfterFinish DEF EdgeInv, LockReleaseAll
<1>4. \A x \in Txns : x >= next_txn_id' => txn_state'[x] = "TXN_INVALID"
  BY <1>1, <1>2 DEF EdgeInv, Active
<1>5. want' \in [Txns -> {NoLock} \cup SharedOrExclusive]
  BY DEF EdgeInv
<1> QED
  BY <1>2, <1>3, <1>4, <1>5 DEF EdgeInv

\* The detector keeps one edge per transaction, removes none when a holder
\* finishes and moves none when a release lets another waiter in; still, if all
\* clients ask for S and X, every transaction it has aborted was deadlocked.
THEOREM VictimsAreDeadlocked ==
  ASSUME \A r \in Resources : Modes[r] \subseteq {"S", "X"}
  PROVE  TransSpec => []NoPhantomDeadlock
<1>1. TransInit => EdgeInv
  <2> SUFFICES ASSUME TransInit PROVE EdgeInv
    OBVIOUS
  <2>1. DOMAIN waits_for = {}
    BY DEF TransInit
  <2>2. EdgesTrue(waits_for, queue, txn_state)
    BY <2>1 DEF EdgesTrue
  <2> QED
    BY <2>2 DEF TransInit, EdgeInv
<1>2. TransInv /\ EdgeInv /\ [TransNext]_transVars => EdgeInv'
  <2> SUFFICES ASSUME TransInv, EdgeInv, [TransNext]_transVars PROVE EdgeInv'
    OBVIOUS
  <2>1. ASSUME NEW t \in Txns, txn_begin(t) PROVE EdgeInv'
    <3>1. /\ t = next_txn_id /\ next_txn_id' = next_txn_id + 1
          /\ txn_state' = [txn_state EXCEPT ![t] = "TXN_ACTIVE"]
          /\ UNCHANGED <<queue, waits_for, want, blamed>>
      BY <2>1 DEF txn_begin, lockVars, clientVars
    <3>2. txn_state \in [Txns -> TxnStates] /\ txn_state[t] = "TXN_INVALID"
      <4>1. t >= next_txn_id
        BY <3>1 DEF EdgeInv
      <4> QED
        BY <4>1 DEF TransInv, EdgeInv
    <3>3. EdgesTrue(waits_for', queue', txn_state')
      <4>1. \A x \in Txns : x # t => txn_state'[x] = txn_state[x]
        BY <3>1, <3>2
      <4>2. \A x \in DOMAIN waits_for : x # t /\ waits_for[x] # t
        BY <3>2 DEF EdgeInv, EdgesTrue
      <4> QED
        BY <3>1, <4>1, <4>2 DEF EdgeInv, EdgesTrue
    <3>4. \A x \in Txns : x >= next_txn_id' => txn_state'[x] = "TXN_INVALID"
      <4>1. ASSUME NEW x \in Txns, x >= next_txn_id' PROVE x >= next_txn_id /\ x # t
        BY <3>1, <4>1, TxnAssumption DEF EdgeInv
      <4> QED
        BY <3>1, <3>2, <4>1 DEF EdgeInv
    <3> QED
      BY <3>1, <3>3, <3>4 DEF EdgeInv
  <2>2. ASSUME NEW t \in Txns, txn_commit(t) PROVE EdgeInv'
    BY <2>2, EdgesAfterEnd DEF txn_commit
  <2>3. ASSUME NEW t \in Txns, txn_abort(t) PROVE EdgeInv'
    BY <2>3, EdgesAfterEnd DEF txn_abort
  <2>4. ASSUME NEW t \in Txns, Ask(t) PROVE EdgeInv'
    <3>1. PICK r \in Resources, m \in {"S", "X"} : Acquire(t, r, m)
      BY <2>4 DEF Ask
    <3> QED
      BY <3>1, EdgesAfterAcquire
  <2>5. ASSUME NEW t \in Txns, Retry(t) PROVE EdgeInv'
    <3>1. want[t] \in SharedOrExclusive /\ Acquire(t, want[t].r, want[t].m)
      BY <2>5 DEF EdgeInv, Retry, Waiting
    <3>2. want[t].r \in Resources /\ want[t].m \in {"S", "X"}
      BY <3>1 DEF SharedOrExclusive
    <3> QED
      BY <3>1, <3>2, EdgesAfterAcquire
  <2>6. CASE UNCHANGED transVars
    BY <2>6 DEF transVars, lockVars, txnVars, clientVars, EdgeInv
  <2> QED
    BY <2>1, <2>2, <2>3, <2>4, <2>5, <2>6 DEF TransNext
<1>3. EdgeInv => NoPhantomDeadlock
  BY DEF EdgeInv, NoPhantomDeadlock
<1> QED
  BY <1>1, <1>2, <1>3, TransInvariance, PTL DEF TransSpec

-----------------------------------------------------------------------------
(* No cycle is left among the edges *)

EdgesTyped(w) == DOMAIN w \subseteq Txns /\ \A x \in DOMAIN w : w[x] \in Txns

\* Numbers that fall along every edge: what makes sure that there is no cycle.
Falls(rank, w) ==
  \A x \in DOMAIN w : w[x] \in DOMAIN w => rank[w[x]] < rank[x]

Acyclic(w) == \E rank \in [Txns -> Nat] : Falls(rank, w)

\* A path of edges that all have a successor falls by one a step at least.
LEMMA PathFalls ==
  ASSUME NEW w, EdgesTyped(w), NEW rank \in [Txns -> Nat], Falls(rank, w),
         NEW n \in Nat, NEW path \in [0 .. n -> Txns],
         \A k \in 0 .. n : path[k] \in DOMAIN w,
         \A k \in 1 .. n : path[k] = w[path[k - 1]]
  PROVE  \A k \in 0 .. n : rank[path[k]] + k <= rank[path[0]]
<1> DEFINE Good == {k \in Nat : k <= n => rank[path[k]] + k <= rank[path[0]]}
<1>1. 0 \in Good
  <2>1. rank[path[0]] \in Nat
    OBVIOUS
  <2> QED
    BY <2>1
<1>2. ASSUME NEW k \in Nat, k \in Good PROVE k + 1 \in Good
  <2> SUFFICES ASSUME k + 1 <= n PROVE rank[path[k + 1]] + (k + 1) <= rank[path[0]]
    OBVIOUS
  <2>1. k \in 0 .. n /\ k + 1 \in 1 .. n /\ k + 1 \in 0 .. n /\ (k + 1) - 1 = k
    OBVIOUS
  <2>2. path[k + 1] = w[path[k]] /\ path[k] \in DOMAIN w /\ path[k + 1] \in DOMAIN w
    BY <2>1
  <2>3. rank[path[k + 1]] < rank[path[k]]
    BY <2>2 DEF Falls
  <2>4. /\ rank[path[k + 1]] \in Nat /\ rank[path[k]] \in Nat /\ rank[path[0]] \in Nat
        /\ rank[path[k]] + k <= rank[path[0]]
    BY <1>2, <2>1
  <2> QED
    BY <2>3, <2>4
<1>3. Nat \subseteq Good
  <2> HIDE DEF Good
  <2> QED
    BY <1>1, <1>2, NatsBelong
<1> QED
  BY <1>3

\* Acyclic means what RecordedDeadlocksBroken says.
LEMMA AcyclicMeaning ==
  ASSUME EdgesTyped(waits_for), Acyclic(waits_for)
  PROVE  RecordedDeadlocksBroken
<1> SUFFICES ASSUME NEW t \in Txns, NEW n \in 1 .. Cardinality(Txns),
                    NEW path \in [0 .. n -> Txns], path[0] = t, path[n] = t,
                    \A k \in 1 .. n : /\ path[k - 1] \in DOMAIN waits_for
                                      /\ waits_for[path[k - 1]] = path[k]
             PROVE  FALSE
  BY Zenon DEF RecordedDeadlocksBroken, OnCycle, Recorded
<1>1. PICK rank \in [Txns -> Nat] : Falls(rank, waits_for)
  BY DEF Acyclic
<1>2. n \in Nat /\ n >= 1
  BY TxnAssumption, FS_CardinalityType
<1>3. \A k \in 0 .. n : path[k] \in DOMAIN waits_for
  <2>1. ASSUME NEW k \in 0 .. n, k < n PROVE path[k] \in DOMAIN waits_for
    <3>1. k + 1 \in 1 .. n /\ (k + 1) - 1 = k
      BY <1>2, <2>1
    <3> QED
      BY <3>1
  <2>2. path[n] \in DOMAIN waits_for
    <3>1. 1 \in 1 .. n /\ 1 - 1 = 0
      BY <1>2
    <3> QED
      BY <3>1
  <2> QED
    BY <1>2, <2>1, <2>2
<1>4. \A k \in 0 .. n : rank[path[k]] + k <= rank[path[0]]
  BY <1>1, <1>2, <1>3, PathFalls
<1>5. rank[path[n]] + n <= rank[path[0]] /\ rank[t] \in Nat
  BY <1>2, <1>4
<1> QED
  BY <1>2, <1>5

\* Clearing an edge makes no cycle.
LEMMA WithoutEdgeAcyclic ==
  ASSUME NEW w, EdgesTyped(w), NEW t
  PROVE  /\ EdgesTyped(WithoutEdge(w, t))
         /\ Acyclic(w) => Acyclic(WithoutEdge(w, t))
<1> DEFINE e == WithoutEdge(w, t)
<1>1. DOMAIN e = DOMAIN w \ {t} /\ \A x \in DOMAIN e : e[x] = w[x]
  BY DEF WithoutEdge
<1> HIDE DEF e
<1>2. \A rank : Falls(rank, w) => Falls(rank, e)
  BY <1>1 DEF Falls
<1> QED
  BY <1>1, <1>2 DEF EdgesTyped, Acyclic, e

\* What the walk from s does, stated for a function on 0 .. N.
IsWalk(w, s, walk) ==
  /\ DOMAIN walk = 0 .. Cardinality(Txns)
  /\ walk[0] = s
  /\ \A n \in 0 .. Cardinality(Txns) : walk[n] \in Txns \cup {NoTxn}
  /\ \A n \in 1 .. Cardinality(Txns) :
       walk[n] = IF walk[n - 1] \in DOMAIN w THEN w[walk[n - 1]] ELSE NoTxn

\* The walk meets one it has met before, for the first time after n edges.
Meets(walk, n) == walk[n] # NoTxn /\ \E k \in 0 .. n - 1 : walk[k] = walk[n]

FirstMeets(walk, n) == Meets(walk, n) /\ \A m \in 0 .. n - 1 : ~Meets(walk, m)

LEMMA WalkIsWalk ==
  ASSUME NEW w, EdgesTyped(w), NEW s \in Txns
  PROVE  /\ Cardinality(Txns) \in Nat
         /\ IsWalk(w, s, WalkFrom(w, s))
         /\ DetectedFrom(w, s) =
              {WalkFrom(w, s)[n] : n \in {m \in 0 .. Cardinality(Txns) :
                                            FirstMeets(WalkFrom(w, s), m)}}
<1>1. /\ Cardinality(Txns) \in Nat
      /\ IsWalk(w, s, WalkFrom(w, s))
  BY WalkExists DEF EdgesTyped, IsWalk
<1>2. DetectedFrom(w, s) =
        {WalkFrom(w, s)[n] : n \in {m \in DOMAIN WalkFrom(w, s) :
                                      FirstMeets(WalkFrom(w, s), m)}}
  BY DEF DetectedFrom, FirstMeets, Meets
<1> QED
  BY <1>1, <1>2 DEF IsWalk

\* A walk without an end among the numbers of edges it may take comes back.
LEMMA WalkEndsOrMeets ==
  ASSUME NEW w, EdgesTyped(w), NEW s \in Txns, NEW walk, IsWalk(w, s, walk)
  PROVE  \/ \E n \in 0 .. Cardinality(Txns) : FirstMeets(walk, n)
         \/ \E n \in 0 .. Cardinality(Txns) : walk[n] = NoTxn
<1> DEFINE N == Cardinality(Txns)
<1> SUFFICES ASSUME \A n \in 0 .. N : walk[n] # NoTxn
             PROVE  \E n \in 0 .. N : FirstMeets(walk, n)
  OBVIOUS
<1>1. N \in Nat
  BY TxnAssumption, FS_CardinalityType
<1> DEFINE met == [n \in 0 .. N |-> walk[n]]
<1>2. met \in [0 .. N -> Txns]
  BY DEF IsWalk
<1>3. IsFiniteSet(0 .. N) /\ Cardinality(0 .. N) = N + 1
  BY <1>1, FS_Interval
<1>4. \E i, j \in 0 .. N : i # j /\ walk[i] = walk[j]
  <2>1. IsFiniteSet(Txns) /\ N < Cardinality(0 .. N)
    BY <1>1, <1>3, TxnAssumption
  <2> HIDE DEF met
  <2>2. \E i, j \in 0 .. N : i # j /\ met[i] = met[j]
    BY <1>2, <1>3, <2>1, FS_PigeonHole
  <2> QED
    BY <2>2 DEF met
<1>5. \E n \in 0 .. N : Meets(walk, n)
  <2>1. PICK i, j \in 0 .. N : i < j /\ walk[i] = walk[j]
    BY <1>1, <1>4
  <2>2. i \in 0 .. j - 1
    BY <1>1, <2>1
  <2> QED
    BY <2>1, <2>2 DEF Meets
<1> DEFINE T == {n \in 0 .. N : Meets(walk, n)}
<1>6. T \subseteq Nat /\ T # {}
  BY <1>1, <1>5
<1>7. PICK n \in T : \A m \in T : n <= m
  BY <1>6, LeastNatural
<1>8. n \in 0 .. N /\ Meets(walk, n)
  BY <1>7
<1>9. ASSUME NEW m \in 0 .. n - 1 PROVE ~Meets(walk, m)
  <2>1. m \in 0 .. N /\ ~(n <= m)
    BY <1>1, <1>8
  <2> QED
    BY <1>7, <2>1
<1> QED
  BY <1>8, <1>9 DEF FirstMeets

\* If the detector names nobody there is no cycle: the walk from everybody ends,
\* one edge sooner for whom an edge leads to.
LEMMA NoVictimNoCycle ==
  ASSUME NEW w, EdgesTyped(w), deadlock_detect(w) = {}
  PROVE  Acyclic(w)
<1> DEFINE N == Cardinality(Txns)
           Ends(s) == {n \in 0 .. N : WalkFrom(w, s)[n] = NoTxn}
           rank == [s \in Txns |-> IF s \in DOMAIN w
                                   THEN CHOOSE n \in Ends(s) : \A m \in Ends(s) : n <= m
                                   ELSE 0]
<1>1. N \in Nat /\ NoTxn \notin Txns
  BY TxnAssumption, FS_CardinalityType DEF NoTxn
<1>2. ASSUME NEW s \in DOMAIN w
      PROVE  /\ s \in Txns /\ IsWalk(w, s, WalkFrom(w, s))
             /\ rank[s] \in Ends(s) /\ rank[s] \in Nat
             /\ \A m \in Ends(s) : rank[s] <= m
  <2>1. s \in Txns
    BY DEF EdgesTyped
  <2>2. /\ IsWalk(w, s, WalkFrom(w, s))
        /\ DetectedFrom(w, s) = {WalkFrom(w, s)[n] : n \in {m \in 0 .. N : FirstMeets(WalkFrom(w, s), m)}}
    BY <2>1, WalkIsWalk
  <2>3. DetectedFrom(w, s) = {}
    BY DEF deadlock_detect
  <2>4. Ends(s) # {}
    <3>1. ~\E n \in 0 .. N : FirstMeets(WalkFrom(w, s), n)
      BY <2>2, <2>3
    <3> QED
      BY <2>1, <2>2, <3>1, WalkEndsOrMeets
  <2>5. Ends(s) \subseteq Nat
    <3> HIDE DEF rank
    <3>1. 0 .. N \subseteq Nat
      BY <1>1
    <3>2. \A n \in Ends(s) : n \in 0 .. N
      OBVIOUS
    <3> HIDE DEF Ends, N
    <3> QED
      BY <3>1, <3>2
  <2>6. rank[s] = CHOOSE n \in Ends(s) : \A m \in Ends(s) : n <= m
    BY <2>1
  <2>7. \E n \in Ends(s) : \A m \in Ends(s) : n <= m
    <3> HIDE DEF Ends
    <3> QED
      BY <2>4, <2>5, LeastNatural
  <2>8. rank[s] \in Ends(s) /\ \A m \in Ends(s) : rank[s] <= m
    <3> HIDE DEF Ends, rank
    <3> QED
      BY <2>6, <2>7
  <2>9. rank[s] \in Nat
    <3> HIDE DEF Ends, rank
    <3> QED
      BY <2>5, <2>8
  <2> HIDE DEF Ends, rank
  <2> QED
    BY <2>1, <2>2, <2>8, <2>9
<1>3. rank \in [Txns -> Nat]
  <2>1. ASSUME NEW s \in Txns PROVE rank[s] \in Nat
    <3>1. s \notin DOMAIN w => rank[s] = 0
      OBVIOUS
    <3> HIDE DEF rank, Ends
    <3> QED
      BY <1>2, <3>1
  <2>2. rank = [s \in Txns |-> rank[s]]
    OBVIOUS
  <2> HIDE DEF rank
  <2> QED
    BY <2>1, <2>2
<1>4. ASSUME NEW x \in DOMAIN w, w[x] \in DOMAIN w PROVE rank[w[x]] < rank[x]
  <2> DEFINE y == w[x]
             wx == WalkFrom(w, x)
             wy == WalkFrom(w, y)
  <2>1. IsWalk(w, x, wx) /\ IsWalk(w, y, wy) /\ x \in Txns /\ y \in Txns
    <3> HIDE DEF rank, Ends
    <3> QED
      BY <1>2, <1>4
  <2>2. rank[x] \in 0 .. N /\ wx[rank[x]] = NoTxn
    <3>1. rank[x] \in Ends(x)
      <4> HIDE DEF rank, Ends
      <4> QED
        BY <1>2
    <3> HIDE DEF rank
    <3> QED
      BY <3>1
  <2> HIDE DEF wx, wy
  <2> DEFINE Good == {n \in Nat : n + 1 <= N => wy[n] = wx[n + 1]}
  <2>3. 0 \in Good
    BY <1>1, <2>1 DEF IsWalk
  <2>4. ASSUME NEW n \in Nat, n \in Good PROVE n + 1 \in Good
    <3> SUFFICES ASSUME n + 1 + 1 <= N PROVE wy[n + 1] = wx[n + 1 + 1]
      OBVIOUS
    <3>1. /\ n + 1 \in 1 .. N /\ n + 1 + 1 \in 1 .. N
          /\ (n + 1) - 1 = n /\ (n + 1 + 1) - 1 = n + 1 /\ wy[n] = wx[n + 1]
      BY <1>1, <2>4
    <3>2. wy[n + 1] = IF wy[n] \in DOMAIN w THEN w[wy[n]] ELSE NoTxn
      BY <2>1, <3>1 DEF IsWalk
    <3>3. wx[n + 1 + 1] = IF wx[n + 1] \in DOMAIN w THEN w[wx[n + 1]] ELSE NoTxn
      BY <2>1, <3>1 DEF IsWalk
    <3> QED
      BY <3>1, <3>2, <3>3
  <2>5. Nat \subseteq Good
    <3> HIDE DEF Good
    <3> QED
      BY <2>3, <2>4, NatsBelong
  <2>6. rank[x] # 0
    BY <1>1, <2>1, <2>2 DEF IsWalk
  <2> DEFINE n == rank[x] - 1
  <2> HIDE DEF rank
  <2>7. n \in Nat /\ n \in 0 .. N /\ n + 1 = rank[x] /\ n + 1 <= N
    BY <1>1, <2>2, <2>6
  <2>8. wy[n] = NoTxn
    BY <2>2, <2>5, <2>7
  <2>9. n \in Ends(y)
    BY <2>7, <2>8 DEF wy
  <2>10. rank[y] <= n /\ rank[y] \in Nat
    <3> HIDE DEF Ends, n
    <3> QED
      BY <1>2, <1>4, <2>9
  <2> QED
    BY <2>7, <2>10
<1> HIDE DEF rank
<1> QED
  BY <1>3, <1>4 DEF Acyclic, Falls

\* deadlock_add_edge changes the edge of t only.
LEMMA WithEdgeTyped ==
  ASSUME NEW w, EdgesTyped(w), NEW t \in Txns, NEW u \in Txns
  PROVE  /\ EdgesTyped(WithEdge(w, t, u))
         /\ DOMAIN WithEdge(w, t, u) = DOMAIN w \cup {t}
         /\ \A x \in DOMAIN w : x # t => WithEdge(w, t, u)[x] = w[x]
  BY DEF WithEdge, EdgesTyped

\* A walk that comes back for the first time after n edges went over edges only,
\* and through nobody twice before.
LEMMA WalkToMeeting ==
  ASSUME NEW w, EdgesTyped(w), NEW s \in Txns, NEW walk, IsWalk(w, s, walk),
         NEW n \in 0 .. Cardinality(Txns), FirstMeets(walk, n)
  PROVE  /\ \A i \in 0 .. n : walk[i] \in Txns
         /\ \A i \in 0 .. n - 1 : walk[i] \in DOMAIN w /\ walk[i + 1] = w[walk[i]]
         /\ \A i, k \in 0 .. n - 1 : walk[i] = walk[k] => i = k
<1> DEFINE N == Cardinality(Txns)
           Good == {d \in Nat : d <= n => walk[n - d] # NoTxn}
<1>1. N \in Nat /\ NoTxn \notin Txns
  BY TxnAssumption, FS_CardinalityType DEF NoTxn
<1>2. n \in Nat /\ n <= N
  BY <1>1
<1>3. ASSUME NEW i \in 0 .. n - 1
      PROVE  /\ i \in 0 .. N /\ i + 1 \in 0 .. N
             /\ walk[i + 1] = IF walk[i] \in DOMAIN w THEN w[walk[i]] ELSE NoTxn
  <2>1. i + 1 \in 1 .. N /\ (i + 1) - 1 = i /\ i \in 0 .. N /\ i + 1 \in 0 .. N
    BY <1>1, <1>2
  <2> QED
    BY <2>1 DEF IsWalk
<1>4. 0 \in Good
  BY <1>2 DEF FirstMeets, Meets
<1>5. ASSUME NEW d \in Nat, d \in Good PROVE d + 1 \in Good
  <2> SUFFICES ASSUME d + 1 <= n PROVE walk[n - (d + 1)] # NoTxn
    OBVIOUS
  <2> DEFINE i == n - (d + 1)
  <2>1. i \in 0 .. n - 1 /\ i + 1 = n - d /\ d <= n
    BY <1>2
  <2>2. walk[i + 1] # NoTxn
    BY <1>5, <2>1
  <2> HIDE DEF i
  <2>3. walk[i] \in DOMAIN w
    BY <1>3, <2>1, <2>2
  <2>4. walk[i] # NoTxn
    BY <1>1, <2>3 DEF EdgesTyped
  <2> QED
    BY <2>4 DEF i
<1>6. Nat \subseteq Good
  <2> HIDE DEF Good
  <2> QED
    BY <1>4, <1>5, NatsBelong
<1>7. ASSUME NEW i \in 0 .. n PROVE walk[i] \in Txns
  <2>1. n - i \in Nat /\ n - i <= n /\ n - (n - i) = i /\ i \in 0 .. N
    <3> HIDE DEF Good
    <3> QED
      BY <1>1, <1>2
  <2>2. walk[i] # NoTxn
    BY <1>6, <2>1
  <2> QED
    BY <2>1, <2>2 DEF IsWalk
<1>8. ASSUME NEW i \in 0 .. n - 1 PROVE walk[i] \in DOMAIN w /\ walk[i + 1] = w[walk[i]]
  <2>1. i + 1 \in 0 .. n
    BY <1>2
  <2> QED
    BY <1>1, <1>3, <1>7, <2>1
<1>9. ASSUME NEW i \in 0 .. n - 1, NEW k \in 0 .. n - 1, i < k PROVE walk[i] # walk[k]
  <2>1. i \in 0 .. k - 1 /\ k \in 0 .. n
    BY <1>2, <1>9
  <2>2. walk[k] # NoTxn
    BY <1>1, <1>7, <2>1
  <2>3. ~Meets(walk, k)
    BY DEF FirstMeets
  <2> QED
    BY <2>1, <2>2, <2>3 DEF Meets
<1>10. ASSUME NEW i \in 0 .. n - 1, NEW k \in 0 .. n - 1, walk[i] = walk[k] PROVE i = k
  <2>1. ~(i < k) /\ ~(k < i)
    BY <1>9, <1>10
  <2> QED
    BY <1>2, <2>1
<1> QED
  BY <1>7, <1>8, <1>10

\* The new edge of t closes at most one cycle, and the victim is on it: clearing
\* the edge of the victim leaves none.
LEMMA VictimCutsCycle ==
  ASSUME NEW w, EdgesTyped(w), Acyclic(w), NEW t \in Txns, NEW u \in Txns,
         NEW v \in deadlock_detect(WithEdge(w, t, u))
  PROVE  Acyclic(WithoutEdge(WithEdge(w, t, u), v))
<1> DEFINE edges == WithEdge(w, t, u)
           e == WithoutEdge(edges, v)
           N == Cardinality(Txns)
<1>1. /\ EdgesTyped(edges) /\ DOMAIN edges = DOMAIN w \cup {t}
      /\ \A x \in DOMAIN w : x # t => edges[x] = w[x]
  BY WithEdgeTyped
<1>2. DOMAIN e = DOMAIN edges \ {v} /\ \A x \in DOMAIN e : e[x] = edges[x]
  BY DEF WithoutEdge
<1>3. PICK s \in DOMAIN edges : v \in DetectedFrom(edges, s)
  BY DEF deadlock_detect
<1> DEFINE walk == WalkFrom(edges, s)
<1> HIDE DEF edges, e
<1>4. s \in Txns /\ N \in Nat /\ IsWalk(edges, s, walk)
      /\ DetectedFrom(edges, s) = {walk[n] : n \in {m \in 0 .. N : FirstMeets(walk, m)}}
  BY <1>1, WalkIsWalk DEF EdgesTyped
<1> HIDE DEF walk
<1>5. PICK n \in 0 .. N : FirstMeets(walk, n) /\ v = walk[n]
  BY <1>3, <1>4
<1>6. PICK j \in 0 .. n - 1 : walk[j] = v
  BY <1>5 DEF FirstMeets, Meets
<1>7. n \in Nat /\ j \in Nat /\ j < n /\ j \in 0 .. n
  BY <1>4
<1>8. /\ \A i \in 0 .. n : walk[i] \in Txns
      /\ \A i \in 0 .. n - 1 : walk[i] \in DOMAIN edges /\ walk[i + 1] = edges[walk[i]]
      /\ \A i, k \in 0 .. n - 1 : walk[i] = walk[k] => i = k
  BY <1>1, <1>4, <1>5, WalkToMeeting
<1>9. PICK rank \in [Txns -> Nat] : Falls(rank, w)
  BY DEF Acyclic
\* Without the new edge the cycle would be one of w.
<1>10. \E i \in j .. n - 1 : walk[i] = t
  <2> SUFFICES ASSUME \A i \in j .. n - 1 : walk[i] # t PROVE FALSE
    OBVIOUS
  <2> DEFINE len == n - j
             path == [k \in 0 .. len |-> walk[j + k]]
  <2>1. len \in Nat /\ len >= 1 /\ \A k \in 0 .. len : j + k \in 0 .. n
    BY <1>7
  <2>2. path \in [0 .. len -> Txns] /\ path[0] = v /\ path[len] = v
    BY <1>5, <1>6, <1>7, <1>8, <2>1
  <2>3. ASSUME NEW i \in j .. n - 1
        PROVE  walk[i] \in DOMAIN w /\ walk[i + 1] = w[walk[i]]
    BY <1>1, <1>7, <1>8, <2>3
  <2>4. \A k \in 0 .. len : path[k] \in DOMAIN w
    <3>1. ASSUME NEW k \in 0 .. len, k < len PROVE path[k] \in DOMAIN w
      <4>1. j + k \in j .. n - 1 /\ path[k] = walk[j + k]
        BY <1>7, <3>1
      <4> QED
        BY <2>3, <4>1
    <3>2. path[len] \in DOMAIN w
      <4>1. j \in j .. n - 1
        BY <1>7
      <4> QED
        BY <1>6, <2>2, <2>3, <4>1
    <3> QED
      BY <2>1, <3>1, <3>2
  <2>5. ASSUME NEW k \in 1 .. len PROVE path[k] = w[path[k - 1]]
    <3>1. /\ j + (k - 1) \in j .. n - 1 /\ (j + (k - 1)) + 1 = j + k
          /\ path[k] = walk[j + k] /\ path[k - 1] = walk[j + (k - 1)]
      BY <1>7, <2>1
    <3> HIDE DEF path, len
    <3> QED
      BY <2>3, <3>1
  <2> HIDE DEF path, len
  <2>6. \A k \in 0 .. len : rank[path[k]] + k <= rank[path[0]]
    BY <1>9, <2>1, <2>2, <2>4, <2>5, PathFalls
  <2>7. rank[v] + len <= rank[v] /\ rank[v] \in Nat
    BY <1>5, <1>7, <1>8, <2>1, <2>2, <2>6
  <2> QED
    BY <2>1, <2>7
\* On the cycle count the edges to v, elsewhere stay above.
<1> DEFINE C == {walk[i] : i \in j .. n - 1}
           rank2 == [x \in Txns |-> IF x \in C
                                    THEN n - (CHOOSE i \in j .. n - 1 : walk[i] = x)
                                    ELSE rank[x] + n + 1]
<1>11. ASSUME NEW i \in j .. n - 1 PROVE walk[i] \in C /\ rank2[walk[i]] = n - i
  <2>1. walk[i] \in Txns /\ walk[i] \in C
    BY <1>7, <1>8
  <2>2. ASSUME NEW k \in j .. n - 1, walk[k] = walk[i] PROVE k = i
    BY <1>7, <1>8, <2>2
  <2>3. (CHOOSE k \in j .. n - 1 : walk[k] = walk[i]) = i
    BY <2>2
  <2> QED
    BY <2>1, <2>3
<1>12. ASSUME NEW x \in Txns, x \notin C PROVE rank2[x] = rank[x] + n + 1
  BY <1>12
<1>13. rank2 \in [Txns -> Nat]
  <2>1. ASSUME NEW x \in Txns PROVE rank2[x] \in Nat
    <3>1. CASE x \in C
      <4>1. PICK i \in j .. n - 1 : x = walk[i]
        BY <3>1
      <4>2. rank2[x] = n - i
        BY <1>11, <4>1
      <4> HIDE DEF rank2
      <4> QED
        BY <1>7, <4>2
    <3>2. CASE x \notin C
      <4>1. rank2[x] = rank[x] + n + 1 /\ rank[x] \in Nat
        BY <1>12, <3>2
      <4> HIDE DEF rank2
      <4> QED
        BY <1>7, <4>1
    <3> QED
      BY <3>1, <3>2
  <2>2. rank2 = [x \in Txns |-> rank2[x]]
    OBVIOUS
  <2> HIDE DEF rank2
  <2> QED
    BY <2>1, <2>2
<1>14. t \in C
  BY <1>10, <1>11
<1> HIDE DEF rank2
<1>15. ASSUME NEW x \in DOMAIN e, e[x] \in DOMAIN e PROVE rank2[e[x]] < rank2[x]
  <2>1. /\ x \in DOMAIN edges /\ x \in Txns /\ e[x] = edges[x] /\ e[x] # v
        /\ e[x] \in DOMAIN edges /\ e[x] \in Txns
    BY <1>1, <1>2, <1>15 DEF EdgesTyped
  <2>2. CASE x \in C
    <3>1. PICK i \in j .. n - 1 : x = walk[i]
      BY <2>2
    <3>2. i \in 0 .. n - 1 /\ e[x] = walk[i + 1]
      BY <1>7, <1>8, <2>1, <3>1
    <3>3. i + 1 \in j .. n - 1
      BY <1>5, <1>7, <2>1, <3>1, <3>2
    <3>4. rank2[e[x]] = n - (i + 1) /\ rank2[x] = n - i
      BY <1>11, <3>1, <3>2, <3>3
    <3> QED
      BY <1>7, <3>4
  <2>3. CASE x \notin C
    <3>1. x # t /\ x \in DOMAIN w /\ e[x] = w[x] /\ rank2[x] = rank[x] + n + 1 /\ rank[x] \in Nat
      BY <1>1, <1>12, <1>14, <2>1, <2>3
    <3>2. CASE e[x] \in C
      <4>1. PICK i \in j .. n - 1 : e[x] = walk[i]
        BY <3>2
      <4>2. rank2[e[x]] = n - i
        BY <1>11, <4>1
      <4> QED
        BY <1>7, <3>1, <4>2
    <3>3. CASE e[x] \notin C
      <4>1. /\ e[x] \in DOMAIN w /\ rank2[e[x]] = rank[e[x]] + n + 1
            /\ rank[e[x]] \in Nat
        BY <1>1, <1>12, <1>14, <2>1, <3>3
      <4>2. rank[w[x]] < rank[x]
        BY <1>9, <3>1, <4>1 DEF Falls
      <4> QED
        BY <1>7, <3>1, <4>1, <4>2
    <3> QED
      BY <3>2, <3>3
  <2> QED
    BY <2>2, <2>3
<1>16. Acyclic(e)
  BY <1>13, <1>15 DEF Acyclic, Falls
<1> QED
  BY <1>16 DEF e, edges

RecordedInv == EdgesTyped(waits_for) /\ Acyclic(waits_for)

\* Between two calls no cycle stands among the edges of the detector, whatever
\* the clients ask for: each new edge closes one cycle at most, which
\* deadlock_detect finds and the abort of its victim breaks.
THEOREM NoRecordedDeadlock == TransSpec => []RecordedDeadlocksBroken
<1>1. TransInit => RecordedInv
  <2> SUFFICES ASSUME TransInit PROVE RecordedInv
    OBVIOUS
  <2>1. DOMAIN waits_for = {}
    BY DEF TransInit
  <2>2. [x \in Txns |-> 0] \in [Txns -> Nat] /\ Falls([x \in Txns |-> 0], waits_for)
    BY <2>1 DEF Falls
  <2> QED
    BY <2>1, <2>2 DEF RecordedInv, EdgesTyped, Acyclic
<1>2. RecordedInv /\ [TransNext]_transVars => RecordedInv'
  <2> SUFFICES ASSUME RecordedInv, [TransNext]_transVars PROVE RecordedInv'
    OBVIOUS
  <2>1. ASSUME NEW t, waits_for' = WithoutEdge(waits_for, t) PROVE RecordedInv'
    BY <2>1, WithoutEdgeAcyclic DEF RecordedInv
  <2>2. ASSUME waits_for' = waits_for PROVE RecordedInv'
    BY <2>2 DEF RecordedInv
  <2>3. ASSUME NEW t \in Txns, NEW r, NEW m, Acquire(t, r, m) PROVE RecordedInv'
    <3>1. CASE Granted(t, r, m)
      BY <2>1, <3>1 DEF Granted
    <3>2. ASSUME NEW u \in Holders(queue[r], t, m), Refused(t, r, m, u)
          PROVE  RecordedInv'
      <4> DEFINE edges == WithEdge(waits_for, t, u)
      <4>1. u \in Txns /\ EdgesTyped(edges)
        BY WithEdgeTyped DEF Holders, RecordedInv
      <4>2. CASE deadlock_detect(edges) = {} /\ waits_for' = edges
        <5>1. Acyclic(edges)
          BY <4>1, <4>2, NoVictimNoCycle
        <5> QED
          BY <4>1, <4>2, <5>1 DEF RecordedInv
      <4>3. ASSUME NEW v \in deadlock_detect(edges), waits_for' = WithoutEdge(edges, v)
            PROVE  RecordedInv'
        <5>1. EdgesTyped(waits_for')
          BY <4>1, <4>3, WithoutEdgeAcyclic
        <5>2. Acyclic(waits_for')
          BY <4>1, <4>3, VictimCutsCycle DEF RecordedInv
        <5> QED
          BY <5>1, <5>2 DEF RecordedInv
      <4> QED
        BY <3>2, <4>2, <4>3 DEF Refused
    <3> QED
      BY <2>3, <3>1, <3>2 DEF Acquire
  <2>4. ASSUME NEW t \in Txns, txn_begin(t) PROVE RecordedInv'
    BY <2>2, <2>4 DEF txn_begin, clientVars
  <2>5. ASSUME NEW t \in Txns, txn_commit(t) \/ txn_abort(t) PROVE RecordedInv'
    BY <2>1, <2>5 DEF txn_commit, txn_abort
  <2>6. ASSUME NEW t \in Txns, Ask(t) \/ Retry(t) PROVE RecordedInv'
    BY <2>3, <2>6 DEF Ask, Retry
  <2>7. CASE UNCHANGED transVars
    BY <2>2, <2>7 DEF transVars, clientVars
  <2> QED
    BY <2>4, <2>5, <2>6, <2>7 DEF TransNext
<1>3. RecordedInv => RecordedDeadlocksBroken
  BY AcyclicMeaning DEF RecordedInv
<1> QED
  BY <1>1, <1>2, <1>3, PTL DEF TransSpec
=============================================================================
