--------------------------- MODULE RecoveryProofs ---------------------------
(***************************************************************************)
(* The tables and the page LSNs of recovery, for any log, any set of       *)
(* records and pages, and any order of analyses, redos, undos, appends and *)
(* restarts.  Analysis starts from the table it finds, which an undo may   *)
(* have changed and the log may have outgrown: what it ends with is found  *)
(* by following its scan, one record after the other.                      *)
(***************************************************************************)
EXTENDS Recovery, Induction

Entry == [last_lsn : Nat, status : {ACTIVE, COMMITTED, ABORTED}]
Known == {rec.txn : rec \in Records}
AttTable == UNION {[T -> Entry] : T \in SUBSET Known}
Data == {Blank} \cup {rec.image : rec \in Records}
PageImage == [lsn : Nat, data : Data]

\* What the first k records say of a transaction and of a page.
Begins(t, k) == {n \in 1 .. k : log[n].txn = t /\ log[n].type = "WAL_BEGIN"}
Ends(t, k) == {n \in 1 .. k : log[n].txn = t /\ log[n].type \in {"WAL_COMMIT", "WAL_ABORT"}}
Mentions(t, k) ==
  {n \in 1 .. k : log[n].txn = t
     /\ log[n].type \in DataTypes \cup {"WAL_BEGIN", "WAL_COMMIT", "WAL_ABORT"}}
Touching(p, k) == {n \in 1 .. k : log[n].type \in DataTypes /\ log[n].page = p}

Outcome(n) == IF log[n].type = "WAL_COMMIT" THEN COMMITTED ELSE ABORTED

\* Entry e says of t what the first k records say; a transaction that is still
\* open there has status open.
EntrySound(e, t, k, open) ==
  /\ e.last_lsn \in Mentions(t, k) /\ \A n \in Mentions(t, k) : n <= e.last_lsn
  /\ \E b \in Begins(t, k) :
       /\ \A n \in Begins(t, k) : n <= b
       /\ \/ e.status = open /\ \A n \in Ends(t, k) : n <= b
          \/ \E c \in Ends(t, k) :
               /\ c > b /\ \A n \in Ends(t, k) : n <= c
               /\ e.status = Outcome(c)

\* Table a after k records of a scan that found the transactions in D.
ScanSound(a, D, k, open) ==
  /\ DOMAIN a = D \cup {t \in Known : Begins(t, k) # {}}
  /\ \A t \in DOMAIN a : Begins(t, k) # {} => EntrySound(a[t], t, k, open)

\* The table of dirty pages after k records.
DirtySound(d, k) ==
  /\ DOMAIN d = {p \in Pages : Touching(p, k) # {}}
  /\ \A p \in DOMAIN d : d[p] \in Touching(p, k) /\ \A n \in Touching(p, k) : d[p] <= n

\* The records that redo looks for on a page.
Marking(p) == {n \in DOMAIN log : log[n].page = p /\ Changes(log[n]) /\ log[n].type # "WAL_DELETE"}

\* What an analysis has read of the log stays true of the tables, whatever is
\* appended behind it.
RecInv ==
  /\ log \in Seq(Records) /\ seen \in 0 .. Len(log) /\ closed \in BOOLEAN
  /\ att \in AttTable /\ ScanSound(att, {}, seen, IF closed THEN ABORTED ELSE ACTIVE)
  /\ DirtySound(dpt, seen)
  /\ page \in [Pages -> PageImage] /\ disk \in [Pages -> PageImage]
  /\ PageLsnCovers

-----------------------------------------------------------------------------
(* Greatest and least *)

\* Max is the member no other exceeds.
LEMMA MaxIs ==
  ASSUME NEW T, T \subseteq Nat, NEW x \in T, \A y \in T : y <= x
  PROVE  Max(T) = x
<1> DEFINE m == Max(T)
<1>1. m \in T /\ \A y \in T : m >= y
  BY DEF Max
<1> HIDE DEF m
<1>2. m \in Nat /\ x \in Nat /\ m <= x /\ x <= m
  BY <1>1
<1>3. m = x
  BY <1>2
<1> QED
  BY <1>3 DEF m

\* Min is the member that exceeds no other.
LEMMA MinIs ==
  ASSUME NEW T, T \subseteq Nat, NEW x \in T, \A y \in T : x <= y
  PROVE  Min(T) = x
<1> DEFINE m == Min(T)
<1>1. m \in T /\ \A y \in T : m <= y
  BY DEF Min
<1> HIDE DEF m
<1>2. m \in Nat /\ x \in Nat /\ m <= x /\ x <= m
  BY <1>1
<1>3. m = x
  BY <1>2
<1> QED
  BY <1>3 DEF m

\* LastOf answers the greatest of finitely many log numbers, 0 if there are none.
LEMMA LastIs ==
  ASSUME NEW k \in Nat, NEW T, T \subseteq 1 .. k
  PROVE  /\ LastOf(T) \in Nat /\ (LastOf(T) = 0 <=> T = {})
         /\ \A n \in T : n <= LastOf(T)
         /\ T # {} => LastOf(T) \in T
<1>1. CASE T = {}
  BY <1>1 DEF LastOf
<1>2. CASE T # {}
  <2> DEFINE up == {k - n : n \in T}
  <2>1. up \subseteq Nat /\ up # {}
    BY <1>2
  <2>2. PICK x \in up : \A y \in up : x <= y
    <3> HIDE DEF up
    <3> QED
      BY <2>1, LeastNatural
  <2>3. PICK m \in T : x = k - m
    OBVIOUS
  <2>4. \A n \in T : n <= m
    <3> SUFFICES ASSUME NEW n \in T PROVE n <= m
      OBVIOUS
    <3>1. x <= k - n
      BY <2>2
    <3>2. n \in Nat /\ m \in Nat
      OBVIOUS
    <3> QED
      BY <2>3, <3>1, <3>2
  <2>5. Max(T) = m /\ m \in Nat /\ m > 0
    <3>1. T \subseteq Nat /\ m \in T /\ \A n \in T : n <= m
      BY <2>4
    <3>2. Max(T) = m
      BY <3>1, MaxIs
    <3> QED
      BY <3>2
  <2> QED
    BY <1>2, <2>4, <2>5 DEF LastOf
<1> QED
  BY <1>1, <1>2

\* Every set of log numbers with a member has a least one.
LEMMA MinExists ==
  ASSUME NEW T, T \subseteq Nat, T # {}
  PROVE  Min(T) \in T /\ \A y \in T : Min(T) <= y
<1>1. PICK x \in T : \A y \in T : x <= y
  BY LeastNatural
<1> QED
  BY <1>1, MinIs

-----------------------------------------------------------------------------
(* Analysis, record by record *)

\* One record more in recovery_analysis: the table says of the log up to it what
\* it said of the log before.
LEMMA ScanStep ==
  ASSUME log \in Seq(Records), NEW n \in 1 .. Len(log), NEW D,
         NEW a \in AttTable, ScanSound(a, D, n - 1, ACTIVE)
  PROVE  AttWith(a, n) \in AttTable /\ ScanSound(AttWith(a, n), D, n, ACTIVE)
<1> DEFINE rec == log[n]
           t == rec.txn
           b == AttWith(a, n)
<1> SUFFICES b \in AttTable /\ ScanSound(b, D, n, ACTIVE)
  OBVIOUS
<1>1. rec \in Records /\ t \in Known /\ n \in Nat /\ n - 1 \in Nat /\ 1 .. n = (1 .. n - 1) \cup {n}
  BY DEF Known
<1>2. DOMAIN a \subseteq Known /\ a \in [DOMAIN a -> Entry]
  BY DEF AttTable
<1>3. \A u : u # t => /\ Begins(u, n) = Begins(u, n - 1) /\ Ends(u, n) = Ends(u, n - 1)
                      /\ Mentions(u, n) = Mentions(u, n - 1)
  BY <1>1 DEF Begins, Ends, Mentions
<1>4. ASSUME NEW T \in SUBSET Known, b \in [T -> Entry],
             \A u \in T : u # t => u \in DOMAIN a /\ b[u] = a[u],
             T = D \cup {u \in Known : Begins(u, n) # {}},
             t \in T /\ Begins(t, n) # {} => EntrySound(b[t], t, n, ACTIVE)
      PROVE  b \in AttTable /\ ScanSound(b, D, n, ACTIVE)
  <2>1. b \in AttTable /\ DOMAIN b = T
    BY <1>4 DEF AttTable
  <2>2. ASSUME NEW u \in T, Begins(u, n) # {}, u # t PROVE EntrySound(b[u], u, n, ACTIVE)
    <3>1. EntrySound(a[u], u, n - 1, ACTIVE) /\ b[u] = a[u]
      BY <1>3, <1>4, <2>2 DEF ScanSound
    <3> QED
      BY <1>3, <2>2, <3>1 DEF EntrySound
  <2> HIDE DEF b
  <2> QED
    BY <1>4, <2>1, <2>2 DEF ScanSound
<1>5. CASE rec.type = "WAL_BEGIN"
  <2> DEFINE e == [last_lsn |-> n, status |-> ACTIVE]
  <2>1. b = [u \in DOMAIN a \cup {t} |-> IF u = t THEN e ELSE a[u]]
    BY <1>5 DEF AttWith, DataTypes
  <2>2. e \in Entry /\ e.last_lsn = n /\ e.status = ACTIVE
    BY <1>1 DEF Entry
  <2>3. n \in Begins(t, n) /\ n \in Mentions(t, n)
    BY <1>1, <1>5 DEF Begins, Mentions
  <2>4. \A k \in Begins(t, n) \cup Mentions(t, n) \cup Ends(t, n) : k <= n
    BY DEF Begins, Mentions, Ends
  <2> HIDE DEF e
  <2>5. b \in [DOMAIN a \cup {t} -> Entry] /\ b[t] = e
        /\ \A u \in DOMAIN a \cup {t} : u # t => u \in DOMAIN a /\ b[u] = a[u]
    BY <1>2, <2>1, <2>2
  <2>6. EntrySound(e, t, n, ACTIVE)
    BY <2>2, <2>3, <2>4 DEF EntrySound
  <2>7. DOMAIN a \cup {t} = D \cup {u \in Known : Begins(u, n) # {}}
    BY <1>1, <1>3, <2>3 DEF ScanSound
  <2> HIDE DEF b
  <2> QED
    BY <1>1, <1>2, <1>4, <2>5, <2>6, <2>7
<1>6. ASSUME rec.type # "WAL_BEGIN"
      PROVE  Begins(t, n) = Begins(t, n - 1)
             /\ DOMAIN a = D \cup {u \in Known : Begins(u, n) # {}}
  <2>1. Begins(t, n) = Begins(t, n - 1)
    BY <1>1, <1>6 DEF Begins
  <2>2. \A u : Begins(u, n) = Begins(u, n - 1)
    BY <1>3, <2>1
  <2> QED
    BY <2>1, <2>2 DEF ScanSound
<1>7. CASE rec.type \in {"WAL_COMMIT", "WAL_ABORT"} /\ t \in DOMAIN a
  <2> DEFINE e == [last_lsn |-> n, status |-> Outcome(n)]
  <2>1. b = [a EXCEPT ![t] = e]
    BY <1>7 DEF AttWith, Outcome, DataTypes
  <2>2. e \in Entry /\ e.last_lsn = n /\ e.status = Outcome(n)
    BY <1>1 DEF Entry, Outcome
  <2>3. n \in Ends(t, n) /\ n \in Mentions(t, n)
    BY <1>1, <1>7 DEF Ends, Mentions
  <2>4. \A k \in Mentions(t, n) \cup Ends(t, n) : k <= n
    BY DEF Mentions, Ends
  <2> HIDE DEF e
  <2>5. b \in [DOMAIN a -> Entry] /\ b[t] = e /\ \A u \in DOMAIN a : u # t => b[u] = a[u]
    BY <1>2, <1>7, <2>1, <2>2
  <2>6. Begins(t, n) = Begins(t, n - 1) /\ DOMAIN a = D \cup {u \in Known : Begins(u, n) # {}}
    BY <1>6, <1>7
  <2>7. ASSUME Begins(t, n) # {} PROVE EntrySound(e, t, n, ACTIVE)
    <3>1. PICK begin \in Begins(t, n) : \A k \in Begins(t, n) : k <= begin
      BY <1>7, <2>6, <2>7 DEF ScanSound, EntrySound
    <3>2. n > begin
      BY <1>1, <2>6, <3>1 DEF Begins
    <3> QED
      BY <2>2, <2>3, <2>4, <3>1, <3>2 DEF EntrySound
  <2> HIDE DEF b
  <2> QED
    BY <1>2, <1>4, <2>5, <2>6, <2>7
<1>8. CASE rec.type \in DataTypes /\ t \in DOMAIN a
  <2> DEFINE e == [a[t] EXCEPT !.last_lsn = n]
  <2>1. b = [a EXCEPT ![t] = e]
    BY <1>8 DEF AttWith, DataTypes
  <2>2. a[t] \in Entry
    BY <1>2, <1>8
  <2>3. e \in Entry /\ e.last_lsn = n /\ e.status = a[t].status
    BY <1>1, <2>2 DEF Entry
  <2>4. n \in Mentions(t, n) /\ Ends(t, n) = Ends(t, n - 1)
    BY <1>1, <1>8 DEF Ends, Mentions, DataTypes
  <2>5. \A k \in Mentions(t, n) : k <= n
    BY DEF Mentions
  <2> HIDE DEF e
  <2>6. b \in [DOMAIN a -> Entry] /\ b[t] = e /\ \A u \in DOMAIN a : u # t => b[u] = a[u]
    BY <1>2, <1>8, <2>1, <2>3
  <2>7. Begins(t, n) = Begins(t, n - 1) /\ DOMAIN a = D \cup {u \in Known : Begins(u, n) # {}}
    BY <1>6, <1>8 DEF DataTypes
  <2>8. ASSUME Begins(t, n) # {} PROVE EntrySound(e, t, n, ACTIVE)
    <3>1. EntrySound(a[t], t, n - 1, ACTIVE)
      BY <1>8, <2>7, <2>8 DEF ScanSound
    <3> QED
      BY <2>3, <2>4, <2>5, <2>7, <3>1 DEF EntrySound
  <2> HIDE DEF b
  <2> QED
    BY <1>2, <1>4, <2>6, <2>7, <2>8
<1>9. CASE rec.type # "WAL_BEGIN" /\ t \notin DOMAIN a
  <2>1. b = a
    BY <1>9 DEF AttWith, DataTypes
  <2>2. DOMAIN a = D \cup {u \in Known : Begins(u, n) # {}}
    BY <1>6, <1>9
  <2> HIDE DEF b
  <2> QED
    BY <1>2, <1>4, <1>9, <2>1, <2>2
<1>10. CASE rec.type \notin DataTypes \cup {"WAL_BEGIN", "WAL_COMMIT", "WAL_ABORT"} /\ t \in DOMAIN a
  <2>1. b = a
    BY <1>10 DEF AttWith
  <2>2. Begins(t, n) = Begins(t, n - 1) /\ DOMAIN a = D \cup {u \in Known : Begins(u, n) # {}}
    BY <1>6, <1>10
  <2>3. Ends(t, n) = Ends(t, n - 1) /\ Mentions(t, n) = Mentions(t, n - 1)
    BY <1>1, <1>10 DEF Ends, Mentions
  <2>4. ASSUME Begins(t, n) # {} PROVE EntrySound(b[t], t, n, ACTIVE)
    <3>1. EntrySound(a[t], t, n - 1, ACTIVE)
      BY <1>10, <2>2, <2>4 DEF ScanSound
    <3> QED
      BY <2>1, <2>2, <2>3, <3>1 DEF EntrySound
  <2> HIDE DEF b
  <2> QED
    BY <1>2, <1>4, <2>1, <2>2, <2>4
<1> QED
  BY <1>5, <1>7, <1>8, <1>9, <1>10

\* The table of active transactions stays one, whatever the record.
LEMMA AttWithType ==
  ASSUME log \in Seq(Records), NEW n \in 1 .. Len(log), NEW a \in AttTable
  PROVE  AttWith(a, n) \in AttTable
<1> DEFINE t == log[n].txn
           Of(status) == [last_lsn |-> n, status |-> status]
<1>1. t \in Known /\ n \in Nat
  BY DEF Known
<1>2. DOMAIN a \in SUBSET Known /\ a \in [DOMAIN a -> Entry]
  BY DEF AttTable
<1>3. Of(ACTIVE) \in Entry /\ Of(COMMITTED) \in Entry /\ Of(ABORTED) \in Entry
  BY <1>1 DEF Entry
<1>4. t \in DOMAIN a => [a[t] EXCEPT !.last_lsn = n] \in Entry
  BY <1>1, <1>2 DEF Entry
<1>5. ASSUME NEW T \in SUBSET Known, NEW b \in [T -> Entry] PROVE b \in AttTable
  BY DEF AttTable
<1>6. CASE log[n].type = "WAL_BEGIN"
  <2> DEFINE b == [u \in DOMAIN a \cup {t} |-> IF u = t THEN Of(ACTIVE) ELSE a[u]]
  <2>1. AttWith(a, n) = b
    BY <1>6 DEF AttWith, DataTypes
  <2>2. b \in [DOMAIN a \cup {t} -> Entry] /\ DOMAIN a \cup {t} \in SUBSET Known
    BY <1>1, <1>2, <1>3
  <2> HIDE DEF b
  <2> QED
    BY <1>5, <2>1, <2>2
<1>7. CASE log[n].type # "WAL_BEGIN"
  <2>1. \/ AttWith(a, n) = a
        \/ /\ t \in DOMAIN a
           /\ \E e \in {Of(COMMITTED), Of(ABORTED), [a[t] EXCEPT !.last_lsn = n]} :
                AttWith(a, n) = [a EXCEPT ![t] = e]
    BY <1>7 DEF AttWith, DataTypes
  <2>2. AttWith(a, n) \in [DOMAIN a -> Entry]
    BY <1>2, <1>3, <1>4, <2>1
  <2> QED
    BY <1>2, <1>5, <2>2
<1> QED
  BY <1>6, <1>7

\* An analysis that starts with a table of the first records ends with the
\* table of all of them.
LEMMA AnalysedSound ==
  ASSUME log \in Seq(Records), NEW a \in AttTable, NEW open,
         NEW k \in 0 .. Len(log), ScanSound(a, {}, k, open)
  PROVE  Analysed(a) \in AttTable /\ ScanSound(Analysed(a), {}, Len(log), ACTIVE)
<1> DEFINE D == DOMAIN a
           L == Len(log)
           step == [x \in AttTable \X Nat |-> IF x[2] \in 1 .. L THEN AttWith(x[1], x[2]) ELSE a]
           after == CHOOSE f : f = [n \in 0 .. L |-> IF n = 0 THEN a ELSE AttWith(f[n - 1], n)]
<1>1. L \in Nat
  OBVIOUS
<1>2. Analysed(a) = after[L]
  BY DEF Analysed
<1>3. step \in [AttTable \X Nat -> AttTable]
  <2> SUFFICES ASSUME NEW x \in AttTable \X Nat
               PROVE  (IF x[2] \in 1 .. L THEN AttWith(x[1], x[2]) ELSE a) \in AttTable
    OBVIOUS
  <2>1. x[1] \in AttTable
    OBVIOUS
  <2> QED
    BY <2>1, AttWithType
<1>4. \E f : f = [n \in 0 .. L |-> IF n = 0 THEN a ELSE AttWith(f[n - 1], n)]
  <2> HIDE DEF step, L
  <2>1. PICK f \in [0 .. L -> AttTable] : Recurs(f, a, step, L)
    BY <1>1, <1>3, RecursionExists
  <2>2. ASSUME NEW n \in 0 .. L, n # 0 PROVE step[<<f[n - 1], n>>] = AttWith(f[n - 1], n)
    <3>1. n - 1 \in 0 .. L /\ n \in 1 .. L /\ n \in Nat
      BY <1>1, <2>2
    <3>2. <<f[n - 1], n>> \in AttTable \X Nat
      BY <3>1
    <3> QED
      BY <3>1, <3>2 DEF step
  <2>3. f = [n \in 0 .. L |-> IF n = 0 THEN a ELSE AttWith(f[n - 1], n)]
    BY <2>1, <2>2 DEF Recurs
  <2> QED
    BY <2>3
<1>5. after = [n \in 0 .. L |-> IF n = 0 THEN a ELSE AttWith(after[n - 1], n)]
  BY <1>4
<1> HIDE DEF after
<1>6. after[0] = a /\ \A n \in 1 .. L : after[n] = AttWith(after[n - 1], n)
  <2> HIDE DEF L
  <2>1. \A n \in 0 .. L : after[n] = IF n = 0 THEN a ELSE AttWith(after[n - 1], n)
    BY <1>5
  <2> QED
    BY <1>1, <2>1
<1> DEFINE Good == {n \in Nat : n <= L => after[n] \in AttTable /\ ScanSound(after[n], D, n, ACTIVE)}
<1>7. 0 \in Good
  <2>1. \A t : Begins(t, 0) = {}
    BY DEF Begins
  <2>2. ScanSound(a, D, 0, ACTIVE)
    BY <2>1 DEF ScanSound
  <2> QED
    BY <1>6, <2>2
<1>8. ASSUME NEW n \in Nat, n \in Good PROVE n + 1 \in Good
  <2> SUFFICES ASSUME n + 1 <= L
               PROVE  after[n + 1] \in AttTable /\ ScanSound(after[n + 1], D, n + 1, ACTIVE)
    OBVIOUS
  <2>1. n + 1 \in 1 .. L /\ (n + 1) - 1 = n /\ n <= L
    BY <1>1
  <2>2. after[n] \in AttTable /\ ScanSound(after[n], D, n, ACTIVE)
    BY <1>8, <2>1
  <2>3. after[n + 1] = AttWith(after[n], n + 1)
    BY <1>6, <2>1
  <2> QED
    BY <2>1, <2>2, <2>3, ScanStep
<1>9. after[L] \in AttTable /\ ScanSound(after[L], D, L, ACTIVE)
  <2>1. Nat \subseteq Good
    <3> HIDE DEF Good
    <3> QED
      BY <1>7, <1>8, NatsBelong
  <2> QED
    BY <1>1, <2>1
<1>10. D \subseteq {t \in Known : Begins(t, L) # {}}
  BY <1>1 DEF ScanSound, Begins
<1> HIDE DEF D
<1>11. ScanSound(after[L], {}, L, ACTIVE)
  BY <1>9, <1>10 DEF ScanSound
<1> QED
  BY <1>2, <1>9, <1>11

-----------------------------------------------------------------------------
(* Dirty pages, redo and undo *)

\* The table of dirty pages built on an older one is that of the whole log.
LEMMA DirtiedSound ==
  ASSUME log \in Seq(Records), NEW k \in 0 .. Len(log), NEW d, DirtySound(d, k)
  PROVE  DirtySound(Dirtied(d), Len(log))
<1> DEFINE L == Len(log)
           D == Dirtied(d)
<1>1. L \in Nat /\ DOMAIN log = 1 .. L /\ k \in Nat /\ k <= L
  OBVIOUS
<1>2. \A p : Touching(p, L) = {n \in DOMAIN log : log[n].type \in DataTypes /\ log[n].page = p}
  BY <1>1 DEF Touching
<1>3. \A p : Touching(p, k) \subseteq Touching(p, L)
             /\ \A n \in Touching(p, L) : n \notin Touching(p, k) => n > k
  BY <1>1 DEF Touching
<1>4. D = [p \in DOMAIN d \cup {q \in Pages : Touching(q, L) # {}} |->
             IF p \in DOMAIN d THEN d[p] ELSE Min(Touching(p, L))]
  BY <1>2 DEF Dirtied
<1> HIDE DEF D, L
<1>5. DOMAIN D = {p \in Pages : Touching(p, L) # {}}
  BY <1>3, <1>4 DEF DirtySound
<1>6. ASSUME NEW p \in DOMAIN D
      PROVE  D[p] \in Touching(p, L) /\ \A n \in Touching(p, L) : D[p] <= n
  <2>1. CASE p \in DOMAIN d
    <3>1. D[p] = d[p] /\ d[p] \in Touching(p, k) /\ \A n \in Touching(p, k) : d[p] <= n
      BY <1>4, <1>6, <2>1 DEF DirtySound
    <3>2. d[p] \in 1 .. k
      BY <3>1 DEF Touching
    <3>3. ASSUME NEW n \in Touching(p, L) PROVE d[p] <= n
      <4>1. n \in Nat
        BY <1>1 DEF Touching
      <4> QED
        BY <1>1, <1>3, <3>1, <3>2, <4>1
    <3> QED
      BY <1>3, <3>1, <3>3
  <2>2. CASE p \notin DOMAIN d
    <3>1. D[p] = Min(Touching(p, L))
      BY <1>4, <1>6, <2>2
    <3>2. Touching(p, L) # {}
      BY <1>5, <1>6
    <3>3. Touching(p, L) \subseteq Nat
      BY <1>1 DEF Touching
    <3> QED
      BY <3>1, <3>2, <3>3, MinExists
  <2> QED
    BY <2>1, <2>2
<1> QED
  BY <1>5, <1>6 DEF DirtySound, D, L

\* A scan of redo sets the LSN of a page to that of a change of the page, and
\* a scan with the table of the whole log misses none.
LEMMA RedoneSound ==
  ASSUME log \in Seq(Records), NEW k \in 0 .. Len(log), NEW d, DirtySound(d, k),
         NEW p \in Pages, page[p].lsn \in Nat
  PROVE  /\ RedoneLsn(d, p) \in Nat
         /\ RedoneLsn(d, p) \in {page[p].lsn} \cup Marking(p)
         /\ k = Len(log) => \A n \in Marking(p) : n <= RedoneLsn(d, p)
<1> DEFINE L == Len(log)
           Next(v, n) == IF p \in DOMAIN d /\ Redoes(d, n, p, v) THEN n ELSE v
           step == [x \in Nat \X Nat |-> Next(x[1], x[2])]
           after == CHOOSE f : f = [n \in 0 .. L |-> IF n = 0 THEN page[p].lsn ELSE Next(f[n - 1], n)]
<1>1. L \in Nat /\ DOMAIN log = 1 .. L /\ k \in Nat /\ k <= L
  OBVIOUS
<1>2. RedoneLsn(d, p) = after[L]
  BY DEF RedoneLsn
<1>3. Marking(p) \subseteq 1 .. L
  BY <1>1 DEF Marking
<1>4. ASSUME NEW v \in Nat, NEW n \in 1 .. L
      PROVE  /\ Next(v, n) \in Nat
             /\ Next(v, n) = v \/ (Next(v, n) = n /\ n \in Marking(p))
             /\ n \in Marking(p) /\ k = L => n <= Next(v, n)
             /\ v <= Next(v, n)
  <2>1. n \in Nat
    BY <1>1
  <2>2. CASE p \in DOMAIN d /\ Redoes(d, n, p, v)
    <3>1. n \in Marking(p)
      BY <1>1, <2>2 DEF Redoes, Marking, Changes, DataTypes
    <3>2. n > v
      BY <2>2 DEF Redoes
    <3> QED
      BY <2>1, <2>2, <3>1, <3>2
  <2>3. CASE ~(p \in DOMAIN d /\ Redoes(d, n, p, v))
    <3> SUFFICES ASSUME n \in Marking(p), k = L, n > v PROVE FALSE
      BY <2>1, <2>3
    <3>1. n \in Touching(p, L)
      BY <1>1 DEF Marking, Touching, Changes
    <3>2. p \in DOMAIN d /\ d[p] <= n
      BY <3>1 DEF DirtySound
    <3> DEFINE T == {d[q] : q \in DOMAIN d}
    <3>3. T \subseteq Nat /\ T # {} /\ d[p] \in T
      <4>1. \A q \in DOMAIN d : d[q] \in 1 .. k
        BY DEF DirtySound, Touching
      <4>2. \A q \in DOMAIN d : d[q] \in Nat
        BY <1>1, <4>1
      <4> QED
        BY <3>2, <4>2
    <3>4. Min(T) <= d[p] /\ Min(T) \in Nat
      BY <3>3, MinExists
    <3>5. n >= Min(T) /\ n >= d[p]
      <4>1. d[p] \in Nat
        BY <3>3
      <4> HIDE DEF T
      <4> QED
        BY <2>1, <3>2, <3>4, <4>1
    <3>6. log[n].type \in {"WAL_UPDATE", "WAL_INSERT"} /\ log[n].page = p /\ log[n].image # NoImage
      BY DEF Marking, Changes, DataTypes
    <3> QED
      BY <2>3, <3>2, <3>5, <3>6 DEF Redoes
  <2> QED
    BY <2>2, <2>3
<1>5. \E f : f = [n \in 0 .. L |-> IF n = 0 THEN page[p].lsn ELSE Next(f[n - 1], n)]
  <2>1. step \in [Nat \X Nat -> Nat]
    OBVIOUS
  <2> HIDE DEF step, L
  <2>2. PICK f \in [0 .. L -> Nat] : Recurs(f, page[p].lsn, step, L)
    BY <1>1, <2>1, RecursionExists
  <2> HIDE DEF Next
  <2>3. ASSUME NEW n \in 0 .. L, n # 0 PROVE step[<<f[n - 1], n>>] = Next(f[n - 1], n)
    <3>1. n - 1 \in 0 .. L /\ n \in Nat
      BY <1>1, <2>3
    <3>2. <<f[n - 1], n>> \in Nat \X Nat
      BY <3>1
    <3> QED
      BY <3>1, <3>2 DEF step
  <2>4. f = [n \in 0 .. L |-> IF n = 0 THEN page[p].lsn ELSE Next(f[n - 1], n)]
    BY <2>2, <2>3 DEF Recurs
  <2> QED
    BY <2>4
<1>6. after = [n \in 0 .. L |-> IF n = 0 THEN page[p].lsn ELSE Next(after[n - 1], n)]
  BY <1>5
<1> HIDE DEF after, Next
<1>7. after[0] = page[p].lsn /\ \A n \in 1 .. L : after[n] = Next(after[n - 1], n)
  <2> HIDE DEF L
  <2>1. \A n \in 0 .. L : after[n] = IF n = 0 THEN page[p].lsn ELSE Next(after[n - 1], n)
    BY <1>6
  <2> QED
    BY <1>1, <2>1
<1> HIDE DEF L
<1> DEFINE G(n) == /\ after[n] \in Nat
                   /\ after[n] \in {page[p].lsn} \cup Marking(p)
                   /\ k = L => \A m \in Marking(p) : m <= n => m <= after[n]
           Good == {n \in Nat : n <= L => G(n)}
<1>8. 0 \in Good
  BY <1>1, <1>3, <1>7
<1>9. ASSUME NEW n \in Nat, n \in Good PROVE n + 1 \in Good
  <2> SUFFICES ASSUME n + 1 <= L PROVE G(n + 1)
    OBVIOUS
  <2>1. n + 1 \in 1 .. L /\ (n + 1) - 1 = n /\ G(n)
    BY <1>1, <1>9
  <2>2. after[n + 1] = Next(after[n], n + 1)
    BY <1>7, <2>1
  <2> DEFINE w == Next(after[n], n + 1)
  <2>3. /\ w \in Nat
        /\ w = after[n] \/ (w = n + 1 /\ n + 1 \in Marking(p))
        /\ n + 1 \in Marking(p) /\ k = L => n + 1 <= w
        /\ after[n] <= w
    BY <1>4, <2>1
  <2> HIDE DEF w
  <2>4. ASSUME k = L, NEW m \in Marking(p), m <= n + 1 PROVE m <= w
    <3>1. m \in Nat
      BY <1>1, <1>3
    <3>2. CASE m = n + 1
      BY <2>3, <2>4, <3>2
    <3>3. CASE m <= n
      BY <2>1, <2>3, <2>4, <3>1, <3>3
    <3> QED
      BY <2>4, <3>1, <3>2, <3>3
  <2>5. w \in {page[p].lsn} \cup Marking(p)
    BY <2>1, <2>3
  <2>6. after[n + 1] = w
    BY <2>2 DEF w
  <2> QED
    BY <2>3, <2>4, <2>5, <2>6
<1>10. G(L)
  <2>1. Nat \subseteq Good
    <3> HIDE DEF Good
    <3> QED
      BY <1>8, <1>9, NatsBelong
  <2> QED
    BY <1>1, <2>1
<1>11. \A m \in Marking(p) : m <= L
  BY <1>1, <1>3
<1> QED
  BY <1>2, <1>10, <1>11 DEF L

\* Undo closes what is open and leaves the rest.
LEMMA UndoneSound ==
  ASSUME NEW a \in AttTable, NEW k, NEW open \in {ACTIVE, ABORTED}, ScanSound(a, {}, k, open)
  PROVE  Undone(a) \in AttTable /\ ScanSound(Undone(a), {}, k, ABORTED)
<1> DEFINE b == Undone(a)
<1>1. DOMAIN a \in SUBSET Known /\ a \in [DOMAIN a -> Entry]
  BY DEF AttTable
<1>2. DOMAIN b = DOMAIN a
  BY DEF Undone
<1>3. ASSUME NEW t \in DOMAIN a
      PROVE  /\ b[t] \in Entry /\ b[t].last_lsn = a[t].last_lsn
             /\ b[t].status = IF a[t].status = ACTIVE THEN ABORTED ELSE a[t].status
  <2>1. a[t] \in Entry
    BY <1>1
  <2>2. b[t] = IF a[t].status = ACTIVE THEN [a[t] EXCEPT !.status = ABORTED] ELSE a[t]
    BY DEF Undone
  <2> HIDE DEF b
  <2> QED
    BY <2>1, <2>2 DEF Entry
<1>4. ASSUME NEW t \in DOMAIN a, EntrySound(a[t], t, k, open)
      PROVE  EntrySound(b[t], t, k, ABORTED)
  <2>1. PICK x \in Begins(t, k) :
           /\ \A n \in Begins(t, k) : n <= x
           /\ \/ a[t].status = open /\ \A n \in Ends(t, k) : n <= x
              \/ \E c \in Ends(t, k) :
                   /\ c > x /\ \A n \in Ends(t, k) : n <= c
                   /\ a[t].status = Outcome(c)
    BY <1>4 DEF EntrySound
  <2>2. a[t].status = open => b[t].status = ABORTED
    BY <1>3
  <2>3. \A c : a[t].status = Outcome(c) => b[t].status = Outcome(c)
    BY <1>3 DEF Outcome, ACTIVE, ABORTED, COMMITTED
  <2>4. b[t].last_lsn = a[t].last_lsn
    BY <1>3
  <2> HIDE DEF b
  <2> QED
    BY <1>4, <2>1, <2>2, <2>3, <2>4 DEF EntrySound
<1>5. b \in AttTable
  <2>1. b = [t \in DOMAIN b |-> b[t]]
    BY DEF Undone
  <2> HIDE DEF b
  <2>2. b \in [DOMAIN a -> Entry]
    BY <1>2, <1>3, <2>1
  <2> QED
    BY <1>1, <2>2 DEF AttTable
<1> HIDE DEF b
<1>6. ScanSound(b, {}, k, ABORTED)
  BY <1>2, <1>4 DEF ScanSound
<1> QED
  BY <1>5, <1>6 DEF b

-----------------------------------------------------------------------------
(* What the invariant says *)

\* PageLsnCovers by the records that mark a page.
LEMMA CoversMeaning ==
  PageLsnCovers <=>
    \A p \in Pages \ foreign :
      /\ page[p].lsn \in Marking(p) \cup {INVALID_LSN}
      /\ settled => \A n \in Marking(p) : n <= page[p].lsn
BY DEF PageLsnCovers, Marking

\* The invariant implies what the runs check.
LEMMA RecInvMeaning == RecInv => TablesMatchLog /\ PageLsnCovers
<1> SUFFICES ASSUME RecInv PROVE TablesMatchLog
  BY DEF RecInv
<1> DEFINE open == IF closed THEN ABORTED ELSE ACTIVE
<1>1. /\ ScanSound(att, {}, seen, open) /\ DirtySound(dpt, seen)
      /\ att \in AttTable /\ seen \in Nat
  BY DEF RecInv
<1>2. ASSUME NEW t
      PROVE  /\ ReadOf(t, {"WAL_BEGIN"}) = Begins(t, seen)
             /\ ReadOf(t, {"WAL_COMMIT", "WAL_ABORT"}) = Ends(t, seen)
             /\ ReadOf(t, DataTypes \cup {"WAL_BEGIN", "WAL_COMMIT", "WAL_ABORT"}) = Mentions(t, seen)
             /\ Begins(t, seen) \subseteq Nat /\ Ends(t, seen) \subseteq Nat \ {0}
             /\ Mentions(t, seen) \subseteq Nat
  BY <1>1 DEF ReadOf, Begins, Ends, Mentions
<1>3. DOMAIN att = {t \in Known : Begins(t, seen) # {}}
  BY <1>1 DEF ScanSound
<1>4. ASSUME NEW t \in Known
      PROVE  IF Begun(t) > Ended(t)
             THEN /\ t \in DOMAIN att
                  /\ att[t].status = open
                  /\ ReadOf(t, {"WAL_CLR"}) = {} => att[t].last_lsn = Max(ReadOf(t, DataTypes \cup {"WAL_BEGIN"}))
             ELSE t \in DOMAIN att =>
                    /\ Begun(t) > 0
                    /\ att[t].status = Outcome(Ended(t))
  <2>1. Ended(t) \in Nat /\ (Ended(t) = 0 <=> Ends(t, seen) = {})
        /\ \A n \in Ends(t, seen) : n <= Ended(t)
    <3>1. Ends(t, seen) \subseteq 1 .. seen /\ Ended(t) = LastOf(Ends(t, seen))
      BY <1>2 DEF Ends, Ended
    <3> QED
      BY <1>1, <3>1, LastIs
  <2>2. CASE Begins(t, seen) = {}
    <3>1. Begun(t) = 0 /\ t \notin DOMAIN att
      BY <1>2, <1>3, <2>2 DEF Begun, LastOf
    <3> QED
      BY <2>1, <3>1
  <2>3. CASE Begins(t, seen) # {}
    <3>1. t \in DOMAIN att /\ EntrySound(att[t], t, seen, open)
      BY <1>1, <1>3, <2>3 DEF ScanSound
    <3>2. PICK b \in Begins(t, seen) :
             /\ \A n \in Begins(t, seen) : n <= b
             /\ \/ att[t].status = open /\ \A n \in Ends(t, seen) : n <= b
                \/ \E c \in Ends(t, seen) :
                     /\ c > b /\ \A n \in Ends(t, seen) : n <= c
                     /\ att[t].status = Outcome(c)
      BY <3>1 DEF EntrySound
    <3>3. Begun(t) = b /\ b \in Nat /\ b > 0
      <4>1. Max(Begins(t, seen)) = b
        BY <1>2, <3>2, MaxIs
      <4>2. b \in 1 .. seen
        BY DEF Begins
      <4> QED
        BY <1>1, <1>2, <2>3, <4>1, <4>2 DEF Begun, LastOf
    <3>4. att[t].last_lsn \in Mentions(t, seen)
          /\ \A n \in Mentions(t, seen) : n <= att[t].last_lsn
      BY <3>1 DEF EntrySound
    <3> HIDE DEF open
    <3>5. CASE att[t].status = open /\ \A n \in Ends(t, seen) : n <= b
      <4>1. b \notin Ends(t, seen)
        BY DEF Begins, Ends
      <4>2. Ended(t) < b
        <5>1. CASE Ends(t, seen) = {}
          BY <2>1, <3>3, <5>1
        <5>2. CASE Ends(t, seen) # {}
          <6>1. Ended(t) \in Ends(t, seen)
            <7>1. Ends(t, seen) \subseteq 1 .. seen /\ Ended(t) = LastOf(Ends(t, seen))
              BY <1>2 DEF Ends, Ended
            <7> QED
              BY <1>1, <5>2, <7>1, LastIs
          <6> QED
            BY <2>1, <3>3, <3>5, <4>1, <6>1
        <5> QED
          BY <5>1, <5>2
      <4>3. att[t].last_lsn = Max(ReadOf(t, DataTypes \cup {"WAL_BEGIN"}))
        <5> DEFINE open_records == ReadOf(t, DataTypes \cup {"WAL_BEGIN"})
        <5>1. open_records \subseteq Nat /\ open_records \subseteq Mentions(t, seen)
              /\ Mentions(t, seen) \subseteq open_records \cup Ends(t, seen)
              /\ Begins(t, seen) \subseteq Mentions(t, seen)
          BY <1>1 DEF ReadOf, Mentions, Ends, Begins
        <5>2. att[t].last_lsn >= b
          BY <3>4, <5>1
        <5>3. att[t].last_lsn \notin Ends(t, seen)
          BY <1>2, <2>1, <3>3, <4>2, <5>2
        <5>4. att[t].last_lsn \in open_records /\ \A n \in open_records : n <= att[t].last_lsn
          BY <3>4, <5>1, <5>3
        <5> HIDE DEF open_records
        <5>5. Max(open_records) = att[t].last_lsn
          BY <5>1, <5>4, MaxIs
        <5> QED
          BY <5>5 DEF open_records
      <4> QED
        BY <2>1, <3>1, <3>3, <3>5, <4>2, <4>3
    <3>6. ASSUME NEW c \in Ends(t, seen), c > b, \A n \in Ends(t, seen) : n <= c,
                 att[t].status = Outcome(c)
          PROVE  Ended(t) = c
      <4>1. Max(Ends(t, seen)) = c
        BY <1>2, <3>6, MaxIs
      <4> QED
        BY <1>2, <3>6, <4>1 DEF Ended, LastOf
    <3>7. CASE \E c \in Ends(t, seen) :
                 /\ c > b /\ \A n \in Ends(t, seen) : n <= c
                 /\ att[t].status = Outcome(c)
      <4>1. PICK c \in Ends(t, seen) : /\ c > b /\ \A n \in Ends(t, seen) : n <= c
                                       /\ att[t].status = Outcome(c)
        BY <3>7
      <4>2. Ended(t) = c
        BY <3>6, <4>1
      <4>3. ~(Begun(t) > Ended(t)) /\ Begun(t) > 0
        BY <2>1, <3>3, <4>1, <4>2
      <4> QED
        BY <4>1, <4>2, <4>3
    <3> QED
      BY <3>2, <3>5, <3>7
  <2> QED
    BY <2>2, <2>3
<1>5. ASSUME NEW p \in Pages
      PROVE  LET touched == {n \in 1 .. seen : log[n].type \in DataTypes /\ log[n].page = p}
             IN IF p \in DOMAIN dpt THEN touched # {} /\ dpt[p] = Min(touched) ELSE touched = {}
  <2>1. {n \in 1 .. seen : log[n].type \in DataTypes /\ log[n].page = p} = Touching(p, seen)
    BY DEF Touching
  <2>2. Touching(p, seen) \subseteq Nat
    BY <1>1 DEF Touching
  <2>3. CASE p \in DOMAIN dpt
    <3>1. dpt[p] \in Touching(p, seen) /\ \A n \in Touching(p, seen) : dpt[p] <= n
      BY <1>1, <2>3 DEF DirtySound
    <3>2. dpt[p] = Min(Touching(p, seen)) /\ Touching(p, seen) # {}
      BY <2>2, <3>1, MinIs
    <3> QED
      BY <2>1, <2>3, <3>2
  <2>4. CASE p \notin DOMAIN dpt
    <3>1. Touching(p, seen) = {}
      BY <1>1, <2>4 DEF DirtySound
    <3> QED
      BY <2>1, <2>4, <3>1
  <2> QED
    BY <2>3, <2>4
<1> QED
  BY <1>4, <1>5 DEF TablesMatchLog, Outcome, Known

-----------------------------------------------------------------------------
(* Every step keeps the invariant *)

\* Tables that stay, and a log that keeps what they were made from.
LEMMA TablesStay ==
  ASSUME RecInv, UNCHANGED <<att, dpt, seen, closed>>,
         \A n \in 1 .. seen : log'[n] = log[n]
  PROVE  /\ att' \in AttTable
         /\ ScanSound(att, {}, seen, IF closed THEN ABORTED ELSE ACTIVE)'
         /\ DirtySound(dpt, seen)'
<1>1. /\ att \in AttTable /\ ScanSound(att, {}, seen, IF closed THEN ABORTED ELSE ACTIVE)
      /\ DirtySound(dpt, seen)
  BY DEF RecInv
<1>2. \A t : /\ Begins(t, seen)' = Begins(t, seen) /\ Ends(t, seen)' = Ends(t, seen)
             /\ Mentions(t, seen)' = Mentions(t, seen)
             /\ Touching(t, seen)' = Touching(t, seen)
  BY DEF Begins, Ends, Mentions, Touching
<1>3. \A c \in 1 .. seen : Outcome(c)' = Outcome(c)
  BY DEF Outcome
<1> DEFINE open == IF closed THEN ABORTED ELSE ACTIVE
<1>4. open' = open
  OBVIOUS
<1>5. ASSUME NEW t \in DOMAIN att, EntrySound(att[t], t, seen, open)
      PROVE  EntrySound(att[t], t, seen, open)'
  <2>1. Ends(t, seen) \subseteq 1 .. seen
    BY DEF Ends
  <2>2. att'[t] = att[t]
    OBVIOUS
  <2> HIDE DEF open
  <2>3. PICK b \in Begins(t, seen) :
           /\ \A n \in Begins(t, seen) : n <= b
           /\ \/ att[t].status = open /\ \A n \in Ends(t, seen) : n <= b
              \/ \E c \in Ends(t, seen) :
                   /\ c > b /\ \A n \in Ends(t, seen) : n <= c
                   /\ att[t].status = Outcome(c)
    BY <1>5 DEF EntrySound
  <2>4. \/ att[t].status = open' /\ \A n \in Ends(t, seen)' : n <= b
        \/ \E c \in Ends(t, seen)' :
             /\ c > b /\ \A n \in Ends(t, seen)' : n <= c
             /\ att[t].status = Outcome(c)'
    BY <1>2, <1>3, <1>4, <2>1, <2>3
  <2>5. b \in Begins(t, seen)' /\ \A n \in Begins(t, seen)' : n <= b
    BY <1>2, <2>3
  <2>6. att[t].last_lsn \in Mentions(t, seen)' /\ \A n \in Mentions(t, seen)' : n <= att[t].last_lsn
    BY <1>2, <1>5 DEF EntrySound
  <2> QED
    BY <2>2, <2>4, <2>5, <2>6 DEF EntrySound
<1> HIDE DEF open
<1>6. ScanSound(att, {}, seen, open)'
  <2>1. ScanSound(att, {}, seen, open)
    BY <1>1 DEF open
  <2>2. DOMAIN att' = {} \cup {t \in Known : Begins(t, seen)' # {}}
    BY <1>2, <2>1 DEF ScanSound
  <2>3. \A t \in DOMAIN att' : Begins(t, seen)' # {} => EntrySound(att[t], t, seen, open)'
    BY <1>2, <1>5, <2>1 DEF ScanSound
  <2> QED
    BY <2>2, <2>3 DEF ScanSound
<1>7. DirtySound(dpt, seen)'
  BY <1>1, <1>2 DEF DirtySound
<1> QED
  BY <1>1, <1>6, <1>7 DEF open

\* Pages after a redo with a table of the first k records: their LSNs are
\* those of changes, except where an earlier process left one.
LEMMA RedoInv ==
  ASSUME RecInv, NEW k \in 0 .. Len(log), NEW d, DirtySound(d, k), NEW missing \in SUBSET Pages,
         page' = Redone(d, missing), foreign' = StillForeign(page'), UNCHANGED log
  PROVE  /\ page' \in [Pages -> PageImage]
         /\ \A p \in Pages \ foreign' : page'[p].lsn \in Marking(p) \cup {INVALID_LSN}
         /\ k = Len(log) /\ missing = {} =>
              \A p \in Pages : \A n \in Marking(p) : n <= page'[p].lsn
<1>1. /\ log \in Seq(Records) /\ page \in [Pages -> PageImage]
      /\ \A p \in Pages \ foreign : page[p].lsn \in Marking(p) \cup {INVALID_LSN}
  BY CoversMeaning DEF RecInv
<1>2. ASSUME NEW p \in Pages
      PROVE  /\ page'[p] \in PageImage
             /\ page'[p].lsn \in {page[p].lsn} \cup Marking(p)
             /\ k = Len(log) /\ missing = {} => \A n \in Marking(p) : n <= page'[p].lsn
  <2>1. page[p] \in PageImage /\ page[p].lsn \in Nat
    BY <1>1 DEF PageImage
  <2> DEFINE v == RedoneLsn(d, p)
  <2>2. /\ v \in Nat /\ v \in {page[p].lsn} \cup Marking(p)
        /\ k = Len(log) => \A n \in Marking(p) : n <= v
    BY <1>1, <2>1, RedoneSound
  <2>3. page'[p] = IF p \in missing THEN page[p] ELSE [page[p] EXCEPT !.lsn = v]
    BY DEF Redone
  <2> HIDE DEF v
  <2>4. CASE p \in missing
    BY <2>1, <2>3, <2>4
  <2>5. CASE p \notin missing
    <3>1. page'[p] \in PageImage /\ page'[p].lsn = v
      BY <2>1, <2>2, <2>3, <2>5 DEF PageImage
    <3> QED
      BY <2>2, <3>1
  <2> QED
    BY <2>4, <2>5
<1>3. page' \in [Pages -> PageImage]
  BY <1>2 DEF Redone
<1>4. ASSUME NEW p \in Pages \ foreign' PROVE page'[p].lsn \in Marking(p) \cup {INVALID_LSN}
  <2>1. p \notin foreign \/ page'[p].lsn # page[p].lsn
    BY DEF StillForeign
  <2> QED
    BY <1>1, <1>2, <2>1
<1> QED
  BY <1>2, <1>3, <1>4

\* The LSN part of the invariant after a step that leaves the log alone.
LEMMA CoversAfter ==
  ASSUME UNCHANGED log,
         \A p \in Pages \ foreign' : page'[p].lsn \in Marking(p) \cup {INVALID_LSN},
         settled' => \A p \in Pages \ foreign' : \A n \in Marking(p) : n <= page'[p].lsn
  PROVE  PageLsnCovers'
<1>1. \A p : Marking(p)' = Marking(p)
  BY DEF Marking
<1>2. (\A p \in Pages \ foreign :
         /\ page[p].lsn \in Marking(p) \cup {INVALID_LSN}
         /\ settled => \A n \in Marking(p) : n <= page[p].lsn)'
  BY <1>1
<1> QED
  BY <1>2, CoversMeaning, PTL

\* recovery_analysis keeps the invariant.
LEMMA AnalysisInv == RecInv /\ recovery_analysis => RecInv'
<1> SUFFICES ASSUME RecInv, recovery_analysis PROVE RecInv'
  OBVIOUS
<1> DEFINE open == IF closed THEN ABORTED ELSE ACTIVE
<1>1. /\ log \in Seq(Records) /\ seen \in 0 .. Len(log) /\ att \in AttTable
      /\ ScanSound(att, {}, seen, open) /\ DirtySound(dpt, seen)
      /\ page \in [Pages -> PageImage] /\ disk \in [Pages -> PageImage]
  BY DEF RecInv
<1>2. /\ att' = Analysed(att) /\ dpt' = Dirtied(dpt) /\ seen' = Len(log)
      /\ closed' = FALSE /\ settled' = FALSE
      /\ UNCHANGED <<log, page, disk, foreign>>
  BY DEF recovery_analysis, walVars
<1> HIDE DEF open
<1>3. att' \in AttTable /\ ScanSound(att', {}, Len(log), ACTIVE)
  BY <1>1, <1>2, AnalysedSound
<1>4. DirtySound(dpt', Len(log))
  BY <1>1, <1>2, DirtiedSound
<1>5. PageLsnCovers'
  <2>1. \A p \in Pages \ foreign : page[p].lsn \in Marking(p) \cup {INVALID_LSN}
    BY CoversMeaning DEF RecInv
  <2> QED
    BY <1>2, <2>1, CoversAfter
<1>6. ScanSound(att, {}, seen, IF closed THEN ABORTED ELSE ACTIVE)'
  BY <1>2, <1>3 DEF ScanSound, EntrySound, Begins, Ends, Mentions, Outcome
<1>7. DirtySound(dpt, seen)'
  BY <1>2, <1>4 DEF DirtySound, Touching
<1>8. log' \in Seq(Records) /\ seen' \in 0 .. Len(log') /\ closed' \in BOOLEAN
  <2>1. Len(log) \in Nat /\ Len(log) \in 0 .. Len(log)
    BY <1>1
  <2> QED
    BY <1>1, <1>2, <2>1
<1> QED
  BY <1>1, <1>2, <1>3, <1>5, <1>6, <1>7, <1>8 DEF RecInv

\* recovery_undo keeps the invariant.
LEMMA UndoInv == RecInv /\ recovery_undo => RecInv'
<1> SUFFICES ASSUME RecInv, recovery_undo PROVE RecInv'
  OBVIOUS
<1> DEFINE open == IF closed THEN ABORTED ELSE ACTIVE
<1>1. /\ log \in Seq(Records) /\ seen \in 0 .. Len(log) /\ att \in AttTable
      /\ ScanSound(att, {}, seen, open) /\ DirtySound(dpt, seen)
      /\ page \in [Pages -> PageImage] /\ disk \in [Pages -> PageImage]
  BY DEF RecInv
<1>2. /\ att' = Undone(att) /\ closed' = TRUE
      /\ UNCHANGED <<log, dpt, page, disk, seen, settled, foreign>>
  BY DEF recovery_undo, walVars
<1>3. open \in {ACTIVE, ABORTED}
  OBVIOUS
<1> HIDE DEF open
<1>4. att' \in AttTable /\ ScanSound(att', {}, seen, ABORTED)
  BY <1>1, <1>2, <1>3, UndoneSound
<1>5. PageLsnCovers'
  <2>1. \A p \in Pages \ foreign : /\ page[p].lsn \in Marking(p) \cup {INVALID_LSN}
                                   /\ settled => \A n \in Marking(p) : n <= page[p].lsn
    BY CoversMeaning DEF RecInv
  <2> QED
    BY <1>2, <2>1, CoversAfter
<1>6. ScanSound(att, {}, seen, IF closed THEN ABORTED ELSE ACTIVE)'
  BY <1>2, <1>4 DEF ScanSound, EntrySound, Begins, Ends, Mentions, Outcome
<1>7. DirtySound(dpt, seen)'
  BY <1>1, <1>2 DEF DirtySound, Touching
<1> QED
  BY <1>1, <1>2, <1>4, <1>5, <1>6, <1>7 DEF RecInv

\* recovery_redo keeps the invariant.
LEMMA RedoStepInv == RecInv /\ recovery_redo => RecInv'
<1> SUFFICES ASSUME RecInv, recovery_redo PROVE RecInv'
  OBVIOUS
<1>1. PICK missing \in SUBSET Pages :
        page' = Redone(dpt, missing) /\ foreign' = StillForeign(page')
  BY DEF recovery_redo
<1>2. settled' = FALSE /\ UNCHANGED <<log, att, dpt, disk, seen, closed>>
  BY DEF recovery_redo, walVars, tableVars
<1>3. /\ log \in Seq(Records) /\ seen \in 0 .. Len(log) /\ closed \in BOOLEAN
      /\ DirtySound(dpt, seen) /\ disk \in [Pages -> PageImage]
  BY DEF RecInv
<1>4. page' \in [Pages -> PageImage]
      /\ \A p \in Pages \ foreign' : page'[p].lsn \in Marking(p) \cup {INVALID_LSN}
  BY <1>1, <1>2, <1>3, RedoInv
<1>5. PageLsnCovers'
  BY <1>2, <1>4, CoversAfter
<1> QED
  BY <1>2, <1>3, <1>4, <1>5, TablesStay DEF RecInv

\* recovery_run, the three phases in a row, keeps the invariant.
LEMMA RunInv == RecInv /\ recovery_run => RecInv'
<1> SUFFICES ASSUME RecInv, recovery_run PROVE RecInv'
  OBVIOUS
<1> DEFINE open == IF closed THEN ABORTED ELSE ACTIVE
<1>1. /\ log \in Seq(Records) /\ seen \in 0 .. Len(log) /\ att \in AttTable
      /\ ScanSound(att, {}, seen, open) /\ DirtySound(dpt, seen)
      /\ page \in [Pages -> PageImage] /\ disk \in [Pages -> PageImage]
  BY DEF RecInv
<1>2. PICK missing \in SUBSET Pages :
        /\ page' = Redone(Dirtied(dpt), missing) /\ foreign' = StillForeign(page')
        /\ settled' = (missing = {})
  BY DEF recovery_run
<1>3. /\ att' = Undone(Analysed(att)) /\ dpt' = Dirtied(dpt)
      /\ seen' = Len(log) /\ closed' = TRUE /\ UNCHANGED <<log, disk>>
  BY DEF recovery_run, walVars
<1> HIDE DEF open
<1>4. Analysed(att) \in AttTable /\ ScanSound(Analysed(att), {}, Len(log), ACTIVE)
  BY <1>1, AnalysedSound
<1>5. att' \in AttTable /\ ScanSound(att', {}, Len(log), ABORTED)
  BY <1>3, <1>4, UndoneSound
<1>6. DirtySound(dpt', Len(log)) /\ Len(log) \in 0 .. Len(log)
  BY <1>1, <1>3, DirtiedSound
<1>7. /\ page' \in [Pages -> PageImage]
      /\ \A p \in Pages \ foreign' : page'[p].lsn \in Marking(p) \cup {INVALID_LSN}
      /\ missing = {} => \A p \in Pages : \A n \in Marking(p) : n <= page'[p].lsn
  BY <1>2, <1>3, <1>6, RedoInv
<1>8. PageLsnCovers'
  BY <1>2, <1>3, <1>7, CoversAfter
<1>9. ScanSound(att, {}, seen, IF closed THEN ABORTED ELSE ACTIVE)'
  BY <1>3, <1>5 DEF ScanSound, EntrySound, Begins, Ends, Mentions, Outcome
<1>10. DirtySound(dpt, seen)'
  BY <1>3, <1>6 DEF DirtySound, Touching
<1> QED
  BY <1>1, <1>3, <1>5, <1>6, <1>7, <1>8, <1>9, <1>10 DEF RecInv

\* A record appended to the log leaves the tables true of the log they were built
\* from.
LEMMA LogInv == ASSUME RecInv, NEW rec \in Records, Log(rec) PROVE RecInv'
<1>1. /\ log \in Seq(Records) /\ seen \in 0 .. Len(log) /\ closed \in BOOLEAN
      /\ page \in [Pages -> PageImage] /\ disk \in [Pages -> PageImage]
  BY DEF RecInv
<1>2. /\ log' = Append(log, rec) /\ settled' = FALSE
      /\ UNCHANGED <<att, dpt, disk, seen, closed, foreign>>
      /\ page' = IF Changes(rec) THEN [page EXCEPT ![rec.page].data = rec.image] ELSE page
  BY DEF Log, wal_append, tableVars
<1>3. log' \in Seq(Records) /\ Len(log') = Len(log) + 1 /\ Len(log) \in Nat
      /\ \A n \in 1 .. Len(log) : log'[n] = log[n]
  BY <1>1, <1>2
<1>4. seen' \in 0 .. Len(log') /\ \A n \in 1 .. seen : log'[n] = log[n]
  BY <1>1, <1>2, <1>3
<1>5. page' \in [Pages -> PageImage] /\ \A p \in Pages : page'[p].lsn = page[p].lsn
  <2>1. CASE ~Changes(rec) \/ rec.page \notin Pages
    BY <1>1, <1>2, <2>1
  <2>2. CASE Changes(rec) /\ rec.page \in Pages
    <3> DEFINE w == [page[rec.page] EXCEPT !.data = rec.image]
    <3>1. page[rec.page] \in PageImage /\ rec.image \in Data
      BY <1>1, <2>2 DEF Data
    <3>2. w \in PageImage /\ w.lsn = page[rec.page].lsn
      BY <3>1 DEF PageImage
    <3>3. page' = [page EXCEPT ![rec.page] = w]
      BY <1>2, <2>2
    <3> HIDE DEF w
    <3> QED
      BY <1>1, <2>2, <3>2, <3>3
  <2> QED
    BY <2>1, <2>2
<1>6. PageLsnCovers'
  <2>1. \A p : Marking(p) \subseteq Marking(p)'
    BY <1>1, <1>3 DEF Marking
  <2>2. (\A p \in Pages \ foreign :
           /\ page[p].lsn \in Marking(p) \cup {INVALID_LSN}
           /\ settled => \A n \in Marking(p) : n <= page[p].lsn)'
    BY <1>2, <1>5, <2>1, CoversMeaning DEF RecInv
  <2> QED
    BY <2>2, CoversMeaning, PTL
<1> QED
  BY <1>1, <1>2, <1>3, <1>4, <1>5, <1>6, TablesStay DEF RecInv

\* A page written out by the pool keeps its LSN.
LEMMA WriteOutInv == ASSUME RecInv, NEW p \in Pages, WriteOut(p) PROVE RecInv'
<1>1. /\ disk' = [disk EXCEPT ![p] = page[p]]
      /\ UNCHANGED <<log, att, dpt, page, seen, closed, settled, foreign>>
  BY DEF WriteOut, walVars, tableVars, historyVars
<1>2. disk' \in [Pages -> PageImage]
  BY <1>1 DEF RecInv
<1>3. PageLsnCovers'
  <2>1. \A q \in Pages \ foreign : /\ page[q].lsn \in Marking(q) \cup {INVALID_LSN}
                                   /\ settled => \A n \in Marking(q) : n <= page[q].lsn
    BY CoversMeaning DEF RecInv
  <2> QED
    BY <1>1, <2>1, CoversAfter
<1> QED
  BY <1>1, <1>2, <1>3, TablesStay DEF RecInv

\* Nothing has been read of an empty log.
LEMMA EmptyLogSound ==
  ASSUME NEW open
  PROVE  /\ [t \in {} |-> 0] \in AttTable /\ ScanSound([t \in {} |-> 0], {}, 0, open)
         /\ DirtySound([p \in {} |-> 0], 0)
<1>1. \A t : Begins(t, 0) = {} /\ Touching(t, 0) = {}
  BY DEF Begins, Touching
<1>2. [t \in {} |-> 0] \in [{} -> Entry] /\ {} \in SUBSET Known
  OBVIOUS
<1> QED
  BY <1>1, <1>2 DEF AttTable, ScanSound, DirtySound

\* A restart with its emptied log: only pages of the process before have LSNs.
LEMMA RestartInv == RecInv /\ Restart => RecInv'
<1> SUFFICES ASSUME RecInv, Restart PROVE RecInv'
  OBVIOUS
<1>1. /\ log' = <<>> /\ att' = [t \in {} |-> 0] /\ dpt' = [p \in {} |-> 0]
      /\ page' = disk /\ disk' = disk
      /\ foreign' = {p \in Pages : disk[p].lsn # INVALID_LSN}
      /\ seen' = 0 /\ closed' = FALSE /\ settled' = FALSE
  BY DEF Restart
<1>2. log' \in Seq(Records) /\ seen' \in 0 .. Len(log') /\ closed' \in BOOLEAN
      /\ page' \in [Pages -> PageImage] /\ disk' \in [Pages -> PageImage]
  <2>1. log' \in Seq(Records)
    BY <1>1
  <2>2. seen' \in 0 .. Len(log')
    BY <1>1
  <2>3. closed' \in BOOLEAN /\ page' \in [Pages -> PageImage] /\ disk' \in [Pages -> PageImage]
    BY <1>1 DEF RecInv
  <2> QED
    BY <2>1, <2>2, <2>3
<1>3. PageLsnCovers'
  BY <1>1 DEF PageLsnCovers
<1>4. /\ att' \in AttTable
      /\ ScanSound(att, {}, seen, IF closed THEN ABORTED ELSE ACTIVE)'
      /\ DirtySound(dpt, seen)'
  <2>1. \A t : Begins(t, seen)' = {} /\ Touching(t, seen)' = {}
    BY <1>1 DEF Begins, Touching
  <2>2. DOMAIN att' = {} /\ DOMAIN dpt' = {}
    BY <1>1
  <2>3. att' \in AttTable
    BY <1>1, EmptyLogSound
  <2>4. ScanSound(att, {}, seen, IF closed THEN ABORTED ELSE ACTIVE)'
    BY <2>1, <2>2 DEF ScanSound
  <2>5. DirtySound(dpt, seen)'
    BY <2>1, <2>2 DEF DirtySound
  <2> QED
    BY <2>3, <2>4, <2>5
<1> QED
  BY <1>2, <1>3, <1>4 DEF RecInv

-----------------------------------------------------------------------------
(* The theorems *)

\* The first process starts with empty tables and an empty log.
LEMMA RecInvInit == RecoveryInit => RecInv
<1> SUFFICES ASSUME RecoveryInit PROVE RecInv
  OBVIOUS
<1>1. /\ log = <<>> /\ seen = 0 /\ closed = FALSE /\ settled = FALSE /\ foreign = {}
      /\ att = [t \in {} |-> 0] /\ dpt = [p \in {} |-> 0] /\ disk = page
      /\ page = [p \in Pages |-> [lsn |-> INVALID_LSN, data |-> Blank]]
  BY DEF RecoveryInit, WalInit
<1>2. page \in [Pages -> PageImage] /\ \A p \in Pages : page[p].lsn = INVALID_LSN
  BY <1>1 DEF PageImage, Data, INVALID_LSN
<1>3. PageLsnCovers
  BY <1>1, <1>2 DEF PageLsnCovers
<1>4. att \in AttTable /\ DirtySound(dpt, seen)
      /\ ScanSound(att, {}, seen, IF closed THEN ABORTED ELSE ACTIVE)
  BY <1>1, EmptyLogSound
<1>5. log \in Seq(Records)
  BY <1>1
<1>6. seen \in 0 .. Len(log) /\ closed \in BOOLEAN
  <2>1. Len(log) = 0 /\ seen = 0
    BY <1>1
  <2>2. closed = FALSE
    BY <1>1
  <2>3. seen \in 0 .. Len(log)
    BY <2>1
  <2>4. closed \in BOOLEAN
    BY <2>2
  <2> QED
    BY <2>3, <2>4
<1> QED
  BY <1>1, <1>2, <1>3, <1>4, <1>5, <1>6 DEF RecInv

\* Every step keeps the invariant.
LEMMA RecInvNext == RecInv /\ [RecoveryNext]_recoveryVars => RecInv'
<1> SUFFICES ASSUME RecInv, [RecoveryNext]_recoveryVars PROVE RecInv'
  OBVIOUS
<1>1. CASE UNCHANGED recoveryVars
  <2>1. UNCHANGED <<log, att, dpt, page, disk, seen, closed, settled, foreign>>
    BY <1>1 DEF recoveryVars, walVars, tableVars, historyVars
  <2>2. PageLsnCovers'
    <3>1. \A q \in Pages \ foreign : /\ page[q].lsn \in Marking(q) \cup {INVALID_LSN}
                                     /\ settled => \A n \in Marking(q) : n <= page[q].lsn
      BY CoversMeaning DEF RecInv
    <3> QED
      BY <2>1, <3>1, CoversAfter
  <2> QED
    BY <2>1, <2>2, TablesStay DEF RecInv
<1>2. CASE \E rec \in Records : Log(rec)
  BY <1>2, LogInv
<1>3. CASE \E p \in Pages : WriteOut(p)
  BY <1>3, WriteOutInv
<1> QED
  BY <1>1, <1>2, <1>3, AnalysisInv, RedoStepInv, UndoInv, RunInv, RestartInv DEF RecoveryNext

\* However analyses, redos, undos, appends, page writes and restarts follow each
\* other, recovery_manager.c keeps its invariant.
THEOREM RecoveryInvariance == RecoverySpec => []RecInv
<1> QED
  BY RecInvInit, RecInvNext, PTL DEF RecoverySpec

\* recovery_analysis and recovery_undo of recovery_manager.c leave in att and
\* dpt what the log says, however they follow each other and the appends.
THEOREM TablesMatch == RecoverySpec => []TablesMatchLog
<1> QED
  BY RecoveryInvariance, RecInvMeaning, PTL

\* recovery_redo marks a page with the number of a change of that page, and a
\* complete recovery_run leaves no change it looks at unmarked.
THEOREM LsnsCover == RecoverySpec => []PageLsnCovers
<1> QED
  BY RecoveryInvariance, RecInvMeaning, PTL
=============================================================================
