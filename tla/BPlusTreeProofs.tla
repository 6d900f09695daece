-------------------------- MODULE BPlusTreeProofs --------------------------
(***************************************************************************)
(* The index, for nodes, trees and keys of any number.  A tree of height h *)
(* has for each level l of 0 .. h a page own[l][k] that answers for the    *)
(* key k.  The keys a page answers for are convex; the children of a node  *)
(* divide them at its keys, and the links of the leaves lead from each     *)
(* page's keys to the next.  A descent finds own[0][k], the one leaf that  *)
(* may have k.  A split divides the keys of one page at each level on its  *)
(* way up, and between two levels a key and a page wait for their parent.  *)
(***************************************************************************)
EXTENDS BPlusTree, Induction, FiniteSetTheorems, SequenceTheorems

-----------------------------------------------------------------------------
(* The least key *)

\* A finite set of numbers has a lower bound.
LEMMA FiniteBounded ==
  ASSUME NEW S, S \subseteq Int, IsFiniteSet(S)
  PROVE  \E a \in Int : \A x \in S : a <= x
<1> DEFINE Bounded(T) == \E a \in Int : \A x \in T : a <= x
           Bad == {T \in SUBSET S : ~Bounded(T)}
<1>1. IsWellFoundedOn(StrictSubsetOrdering(S), SUBSET S)
  BY FS_FiniteSubsetsOfFinite, FS_StrictSubsetOrderingWellFounded
<1>2. CASE Bad = {}
  BY <1>2
<1>3. CASE Bad # {}
  <2>1. Bad \subseteq SUBSET S
    OBVIOUS
  <2> HIDE DEF Bad
  <2>2. PICK T \in Bad : \A U \in Bad : <<U, T>> \notin StrictSubsetOrdering(S)
    BY <1>1, <1>3, <2>1, WFMin
  <2> USE DEF Bad
  <2>3. T # {}
    <3>1. Bounded({})
      BY 0 \in Int
    <3> QED
      BY <3>1
  <2>4. PICK x \in T : TRUE
    BY <2>3
  <2> DEFINE U == T \ {x}
  <2>5. <<U, T>> \in StrictSubsetOrdering(S)
    BY <2>4 DEF StrictSubsetOrdering
  <2>6. PICK a \in Int : \A y \in U : a <= y
    BY <2>2, <2>5
  <2>7. x \in Int /\ \A y \in T : y \in Int
    BY <2>4
  <2> DEFINE c == IF a <= x THEN a ELSE x
  <2>8. c \in Int /\ c <= a /\ c <= x
    BY <2>7
  <2> HIDE DEF c
  <2>9. \A y \in T : c <= y
    BY <2>6, <2>7, <2>8
  <2>10. Bounded(T)
    BY <2>8, <2>9
  <2> QED
    BY <2>10
<1> QED
  BY <1>2, <1>3

Bottom == Min(Keys) - 1

\* It is below all keys.
LEMMA BottomBelow == Bottom \in Int /\ \A k \in Keys : k \in Int /\ Bottom < k
<1>1. PICK a \in Int : \A x \in Keys : a <= x
  BY FiniteBounded, TreeAssumption
<1>2. PICK m \in Keys : \A x \in Keys : m <= x
  <2> DEFINE T == {x - a : x \in Keys}
  <2>1. T \subseteq Nat /\ T # {}
    <3>1. Keys # {} /\ \A x \in Keys : x \in Int
      BY TreeAssumption
    <3>2. \A x \in Keys : x - a \in Nat
      BY <1>1, <3>1
    <3> QED
      BY <3>1, <3>2
  <2>2. PICK n \in T : \A y \in T : n <= y
    <3> HIDE DEF T
    <3> QED
      BY <2>1, LeastNatural
  <2>3. PICK m \in Keys : n = m - a
    BY <2>2
  <2>4. ASSUME NEW x \in Keys PROVE m <= x
    <3>1. x - a \in T /\ x \in Int /\ m \in Int
      BY TreeAssumption
    <3>2. m - a <= x - a
      BY <2>2, <2>3, <3>1
    <3> QED
      BY <3>1, <3>2
  <2> QED
    BY <2>4
<1>3. Min(Keys) \in Keys /\ \A x \in Keys : Min(Keys) <= x
  BY <1>2 DEF Min
<1>4. \A k \in Keys : k \in Int
  BY TreeAssumption
<1> QED
  BY <1>3, <1>4 DEF Bottom

-----------------------------------------------------------------------------
(* Sequences of keys *)

Ascending(keys) == \A i, j \in DOMAIN keys : i < j => keys[i] < keys[j]

\* How many keys a search with <=, and one with <, finds.
UpTo(keys, key) == Cardinality({i \in DOMAIN keys : keys[i] <= key})
Below(keys, key) == Cardinality({i \in DOMAIN keys : keys[i] < key})

\* Those keys are the first ones.
LEMMA PositionUpTo ==
  ASSUME NEW keys \in Seq(Int), Ascending(keys), NEW key \in Int
  PROVE  /\ UpTo(keys, key) \in 0 .. Len(keys)
         /\ \A i \in DOMAIN keys : keys[i] <= key <=> i <= UpTo(keys, key)
<1> DEFINE T == {n \in Nat : n + 1 \in DOMAIN keys => keys[n + 1] > key}
           S == {i \in DOMAIN keys : keys[i] <= key}
<1>1. Len(keys) \in Nat /\ DOMAIN keys = 1 .. Len(keys) /\ \A i \in DOMAIN keys : keys[i] \in Int
  OBVIOUS
<1>2. Len(keys) \in T
  BY <1>1
<1>3. PICK c \in T : \A n \in T : c <= n
  <2>1. T \subseteq Nat /\ T # {}
    BY <1>2
  <2> HIDE DEF T
  <2> QED
    BY <2>1, LeastNatural
<1>4. c \in Nat /\ c <= Len(keys)
  BY <1>2, <1>3
<1>5. ASSUME NEW i \in DOMAIN keys PROVE keys[i] <= key <=> i <= c
  <2>1. CASE i <= c
    <3>1. i - 1 \in Nat /\ i - 1 \notin T
      BY <1>1, <1>3, <1>4, <2>1
    <3>2. ~(keys[i] > key)
      BY <1>1, <3>1
    <3> QED
      BY <1>1, <2>1, <3>2
  <2>2. CASE ~(i <= c)
    <3>1. c + 1 \in DOMAIN keys /\ c + 1 <= i /\ i \in Nat
      BY <1>1, <1>4, <2>2
    <3>2. keys[c + 1] > key
      BY <1>3, <3>1
    <3>3. c + 1 = i \/ keys[c + 1] < keys[i]
      BY <3>1 DEF Ascending
    <3> QED
      BY <1>1, <2>2, <3>1, <3>2, <3>3
  <2> QED
    BY <2>1, <2>2
<1>6. S = 1 .. c
  BY <1>1, <1>4, <1>5
<1>7. Cardinality(1 .. c) = c
  BY <1>4, FS_Interval
<1>8. UpTo(keys, key) = c
  BY <1>6, <1>7 DEF UpTo
<1> HIDE DEF T
<1> QED
  BY <1>1, <1>4, <1>5, <1>8

\* A number of first keys that are all those not above a key is the number found.
LEMMA PositionIs ==
  ASSUME NEW keys \in Seq(Int), NEW key \in Int, NEW c \in 0 .. Len(keys),
         \A i \in DOMAIN keys : keys[i] <= key <=> i <= c
  PROVE  UpTo(keys, key) = c
<1>1. Len(keys) \in Nat /\ DOMAIN keys = 1 .. Len(keys)
  OBVIOUS
<1>2. {i \in DOMAIN keys : keys[i] <= key} = 1 .. c
  BY <1>1
<1>3. Cardinality(1 .. c) = c
  BY FS_Interval
<1> QED
  BY <1>2, <1>3 DEF UpTo

\* A search can end at every place: there is a key for it next to a stored one.
LEMMA EachPlaceFound ==
  ASSUME NEW keys \in Seq(Int), Ascending(keys), Len(keys) >= 1, NEW j \in 1 .. Len(keys) + 1
  PROVE  \E i \in DOMAIN keys : \E k \in {keys[i], keys[i] - 1} : UpTo(keys, k) = j - 1
<1>1. Len(keys) \in Nat /\ DOMAIN keys = 1 .. Len(keys) /\ \A i \in DOMAIN keys : keys[i] \in Int
  OBVIOUS
<1>2. CASE j = 1
  <2>1. 1 \in DOMAIN keys /\ keys[1] \in Int /\ keys[1] - 1 \in Int
    BY <1>1
  <2>2. ASSUME NEW i \in DOMAIN keys PROVE keys[i] <= keys[1] - 1 <=> i <= 0
    <3>1. i \in Int /\ i >= 1 /\ keys[i] \in Int
      BY <1>1
    <3>2. i = 1 \/ keys[1] < keys[i]
      BY <2>1, <3>1 DEF Ascending
    <3> QED
      BY <2>1, <3>1, <3>2
  <2>3. UpTo(keys, keys[1] - 1) = 0
    <3>1. 0 \in 0 .. Len(keys)
      BY <1>1
    <3> QED
      BY <2>1, <2>2, <3>1, PositionIs
  <2> QED
    BY <1>2, <2>1, <2>3
<1>3. CASE j # 1
  <2>1. j - 1 \in DOMAIN keys /\ keys[j - 1] \in Int /\ j - 1 \in 0 .. Len(keys) /\ j - 1 \in Int
    BY <1>1, <1>3
  <2>2. ASSUME NEW i \in DOMAIN keys PROVE keys[i] <= keys[j - 1] <=> i <= j - 1
    <3>1. i \in Int /\ keys[i] \in Int
      BY <1>1
    <3>2. (i < j - 1 => keys[i] < keys[j - 1]) /\ (j - 1 < i => keys[j - 1] < keys[i])
      BY <2>1 DEF Ascending
    <3> QED
      BY <2>1, <3>1, <3>2
  <2>3. UpTo(keys, keys[j - 1]) = j - 1
    BY <2>1, <2>2, PositionIs
  <2> QED
    BY <2>1, <2>3
<1> QED
  BY <1>2, <1>3

LEMMA PositionBelow ==
  ASSUME NEW keys \in Seq(Int), Ascending(keys), NEW key \in Int
  PROVE  /\ Below(keys, key) \in 0 .. Len(keys)
         /\ \A i \in DOMAIN keys : keys[i] < key <=> i <= Below(keys, key)
<1>1. \A i \in DOMAIN keys : keys[i] \in Int
  OBVIOUS
<1>2. \A i \in DOMAIN keys : keys[i] < key <=> keys[i] <= key - 1
  BY <1>1
<1>3. Below(keys, key) = UpTo(keys, key - 1)
  BY <1>2 DEF Below, UpTo
<1>4. key - 1 \in Int
  OBVIOUS
<1> QED
  BY <1>2, <1>3, <1>4, PositionUpTo

\* Inserting at a place moves what is behind it up by one.
IsPlaced(S, r, s, i, e) ==
  /\ r \in Seq(S) /\ Len(r) = Len(s) + 1 /\ DOMAIN r = 1 .. Len(s) + 1 /\ r[i] = e
  /\ \A k \in 1 .. Len(s) + 1 : (k < i => r[k] = s[k]) /\ (k > i => r[k] = s[k - 1])

LEMMA InsertedAt ==
  ASSUME NEW S, NEW s \in Seq(S), NEW i \in 1 .. Len(s) + 1, NEW e \in S
  PROVE  IsPlaced(S, InsertAt(s, i, e), s, i, e)
<1> DEFINE a == SubSeq(s, 1, i - 1)
           b == SubSeq(s, i, Len(s))
           m == a \o <<e>>
           r == m \o b
<1>1. Len(s) \in Nat /\ i \in Nat /\ i >= 1 /\ i <= Len(s) + 1 /\ DOMAIN s = 1 .. Len(s)
      /\ \A k \in 1 .. Len(s) : s[k] \in S
  OBVIOUS
<1>2. a \in Seq(S) /\ Len(a) = i - 1 /\ \A k \in 1 .. i - 1 : a[k] = s[k]
  <2>1. 1 \in Int /\ i - 1 \in Int /\ \A k \in 1 .. i - 1 : s[k] \in S
    BY <1>1
  <2>2. /\ SubSeq(s, 1, i - 1) \in Seq(S)
        /\ Len(SubSeq(s, 1, i - 1)) = IF 1 <= i - 1 THEN (i - 1) - 1 + 1 ELSE 0
        /\ \A k \in 1 .. (i - 1) - 1 + 1 : SubSeq(s, 1, i - 1)[k] = s[1 + k - 1]
    BY <2>1, SubSeqProperties
  <2> QED
    BY <1>1, <2>2
<1>3. b \in Seq(S) /\ Len(b) = Len(s) - i + 1 /\ \A k \in 1 .. Len(s) - i + 1 : b[k] = s[i + k - 1]
  <2>1. i \in Int /\ Len(s) \in Int /\ \A k \in i .. Len(s) : s[k] \in S
    BY <1>1
  <2>2. /\ SubSeq(s, i, Len(s)) \in Seq(S)
        /\ Len(SubSeq(s, i, Len(s))) = IF i <= Len(s) THEN Len(s) - i + 1 ELSE 0
        /\ \A k \in 1 .. Len(s) - i + 1 : SubSeq(s, i, Len(s))[k] = s[i + k - 1]
    BY <2>1, SubSeqProperties
  <2> QED
    BY <1>1, <2>2
<1> HIDE DEF a, b
<1>4. /\ m \in Seq(S) /\ Len(m) = i
      /\ \A k \in 1 .. i : m[k] = IF k < i THEN s[k] ELSE e
  <2>1. <<e>> \in Seq(S) /\ Len(<<e>>) = 1 /\ <<e>>[1] = e
    OBVIOUS
  <2>2. m \in Seq(S) /\ Len(m) = Len(a) + 1
        /\ \A k \in 1 .. Len(a) + 1 : m[k] = IF k <= Len(a) THEN a[k] ELSE <<e>>[k - Len(a)]
    BY <1>2, <2>1, ConcatProperties
  <2> HIDE DEF m
  <2> QED
    BY <1>1, <1>2, <2>1, <2>2
<1> HIDE DEF m
<1>5. /\ r \in Seq(S) /\ Len(r) = Len(m) + Len(b)
      /\ \A k \in 1 .. Len(m) + Len(b) : r[k] = IF k <= Len(m) THEN m[k] ELSE b[k - Len(m)]
  BY <1>3, <1>4, ConcatProperties
<1> HIDE DEF r
<1>6. ASSUME NEW k \in 1 .. Len(s) + 1
      PROVE  (k < i => r[k] = s[k]) /\ (k = i => r[k] = e) /\ (k > i => r[k] = s[k - 1])
  <2>1. CASE k <= i
    BY <1>1, <1>3, <1>4, <1>5, <2>1
  <2>2. CASE k > i
    <3>1. k - i \in 1 .. Len(s) - i + 1 /\ k \in 1 .. Len(m) + Len(b) /\ ~(k <= Len(m)) /\ Len(m) = i
      BY <1>1, <1>3, <1>4, <2>2
    <3>2. r[k] = b[k - i]
      BY <1>5, <3>1
    <3>3. b[k - i] = s[i + (k - i) - 1] /\ i + (k - i) - 1 = k - 1
      BY <1>1, <1>3, <3>1
    <3> QED
      BY <1>1, <2>2, <3>2, <3>3
  <2> QED
    BY <1>1, <2>1, <2>2
<1>7. r \in Seq(S) /\ Len(r) = Len(s) + 1 /\ DOMAIN r = 1 .. Len(s) + 1
  BY <1>1, <1>3, <1>4, <1>5
<1>8. InsertAt(s, i, e) = r
  BY DEF InsertAt, r, m, a, b
<1> QED
  BY <1>1, <1>6, <1>7, <1>8 DEF IsPlaced

\* r is s with e after the first c elements.
IsInserted(r, s, c, e) ==
  /\ Len(r) = Len(s) + 1 /\ DOMAIN r = 1 .. Len(s) + 1 /\ r[c + 1] = e
  /\ \A k \in 1 .. Len(s) + 1 : (k < c + 1 => r[k] = s[k]) /\ (k > c + 1 => r[k] = s[k - 1])

LEMMA InsertedAfter ==
  ASSUME NEW S, NEW s \in Seq(S), NEW c \in 0 .. Len(s), NEW e \in S
  PROVE  InsertAt(s, c + 1, e) \in Seq(S) /\ IsInserted(InsertAt(s, c + 1, e), s, c, e)
<1> DEFINE d == c + 1
<1>1. d \in 1 .. Len(s) + 1
  OBVIOUS
<1> HIDE DEF d
<1> DEFINE r == InsertAt(s, d, e)
<1>2. IsPlaced(S, r, s, d, e)
  BY <1>1, InsertedAt
<1> HIDE DEF r
<1>3. IsInserted(r, s, c, e)
  BY <1>2 DEF IsPlaced, IsInserted, d
<1> QED
  BY <1>2, <1>3 DEF IsPlaced, r, d

\* Removing at a place moves what is behind it down by one.
LEMMA RemovedAt ==
  ASSUME NEW S, NEW s \in Seq(S), NEW i \in 1 .. Len(s)
  PROVE  /\ RemoveAt(s, i) \in Seq(S) /\ Len(RemoveAt(s, i)) = Len(s) - 1
         /\ DOMAIN RemoveAt(s, i) = 1 .. Len(s) - 1
         /\ \A k \in 1 .. Len(s) - 1 : RemoveAt(s, i)[k] = IF k < i THEN s[k] ELSE s[k + 1]
<1> DEFINE a == SubSeq(s, 1, i - 1)
           b == SubSeq(s, i + 1, Len(s))
           r == a \o b
<1>1. Len(s) \in Nat /\ i \in Nat /\ i >= 1 /\ i <= Len(s) /\ DOMAIN s = 1 .. Len(s)
      /\ \A k \in 1 .. Len(s) : s[k] \in S
  OBVIOUS
<1>2. a \in Seq(S) /\ Len(a) = i - 1 /\ \A k \in 1 .. i - 1 : a[k] = s[k]
  <2>1. 1 \in Int /\ i - 1 \in Int /\ \A k \in 1 .. i - 1 : s[k] \in S
    BY <1>1
  <2>2. /\ SubSeq(s, 1, i - 1) \in Seq(S)
        /\ Len(SubSeq(s, 1, i - 1)) = IF 1 <= i - 1 THEN (i - 1) - 1 + 1 ELSE 0
        /\ \A k \in 1 .. (i - 1) - 1 + 1 : SubSeq(s, 1, i - 1)[k] = s[1 + k - 1]
    BY <2>1, SubSeqProperties
  <2> QED
    BY <1>1, <2>2
<1>3. b \in Seq(S) /\ Len(b) = Len(s) - i /\ \A k \in 1 .. Len(s) - i : b[k] = s[i + k]
  <2>1. i + 1 \in Int /\ Len(s) \in Int /\ \A k \in i + 1 .. Len(s) : s[k] \in S
    BY <1>1
  <2>2. /\ SubSeq(s, i + 1, Len(s)) \in Seq(S)
        /\ Len(SubSeq(s, i + 1, Len(s))) = IF i + 1 <= Len(s) THEN Len(s) - (i + 1) + 1 ELSE 0
        /\ \A k \in 1 .. Len(s) - (i + 1) + 1 : SubSeq(s, i + 1, Len(s))[k] = s[(i + 1) + k - 1]
    BY <2>1, SubSeqProperties
  <2>3. Len(s) - (i + 1) + 1 = Len(s) - i /\ \A k \in 1 .. Len(s) - i : (i + 1) + k - 1 = i + k
    BY <1>1
  <2>4. (IF i + 1 <= Len(s) THEN Len(s) - (i + 1) + 1 ELSE 0) = Len(s) - i
    <3>1. \A j, n \in Nat : j <= n => (IF j + 1 <= n THEN n - (j + 1) + 1 ELSE 0) = n - j
      OBVIOUS
    <3>2. i \in Nat /\ Len(s) \in Nat /\ i <= Len(s)
      OBVIOUS
    <3> QED
      BY <3>1, <3>2
  <2> QED
    BY <2>2, <2>3, <2>4
<1> HIDE DEF a, b
<1>4. /\ r \in Seq(S) /\ Len(r) = Len(a) + Len(b)
      /\ \A k \in 1 .. Len(a) + Len(b) : r[k] = IF k <= Len(a) THEN a[k] ELSE b[k - Len(a)]
  BY <1>2, <1>3, ConcatProperties
<1> HIDE DEF r
<1>5. ASSUME NEW k \in 1 .. Len(s) - 1
      PROVE  r[k] = IF k < i THEN s[k] ELSE s[k + 1]
  <2>1. CASE k < i
    BY <1>1, <1>2, <1>3, <1>4, <2>1
  <2>2. CASE k >= i
    <3>1. k - (i - 1) \in 1 .. Len(s) - i /\ k \in 1 .. Len(a) + Len(b) /\ ~(k <= Len(a))
      BY <1>1, <1>2, <1>3, <2>2
    <3>2. r[k] = b[k - (i - 1)]
      BY <1>2, <1>4, <3>1
    <3>3. b[k - (i - 1)] = s[i + (k - (i - 1))] /\ i + (k - (i - 1)) = k + 1
      BY <1>1, <1>3, <3>1
    <3> QED
      BY <1>1, <2>2, <3>2, <3>3
  <2> QED
    BY <1>1, <2>1, <2>2
<1>6. r \in Seq(S) /\ Len(r) = Len(s) - 1 /\ DOMAIN r = 1 .. Len(s) - 1
  BY <1>1, <1>2, <1>3, <1>4
<1>7. RemoveAt(s, i) = r
  BY DEF RemoveAt, r, a, b
<1> QED
  BY <1>5, <1>6, <1>7

\* r has the n elements of s that come after the first o.
IsPart(r, s, o, n) == Len(r) = n /\ DOMAIN r = 1 .. n /\ \A k \in 1 .. n : r[k] = s[o + k]

LEMMA FirstPart ==
  ASSUME NEW S, NEW s \in Seq(S), NEW m \in 0 .. Len(s)
  PROVE  SubSeq(s, 1, m) \in Seq(S) /\ IsPart(SubSeq(s, 1, m), s, 0, m)
<1> DEFINE r == SubSeq(s, 1, m)
<1>1. m \in Nat /\ 1 \in Int /\ m \in Int /\ \A k \in 1 .. m : s[k] \in S
  OBVIOUS
<1>2. /\ r \in Seq(S) /\ Len(r) = IF 1 <= m THEN m - 1 + 1 ELSE 0
      /\ \A k \in 1 .. m - 1 + 1 : r[k] = s[1 + k - 1]
  BY <1>1, SubSeqProperties
<1> HIDE DEF r
<1>3. r \in Seq(S) /\ Len(r) = m /\ DOMAIN r = 1 .. m
  BY <1>1, <1>2
<1>4. ASSUME NEW k \in 1 .. m PROVE r[k] = s[0 + k]
  <2>1. k \in 1 .. m - 1 + 1 /\ 1 + k - 1 = 0 + k
    BY <1>1
  <2> QED
    BY <1>2, <2>1
<1>5. IsPart(r, s, 0, m)
  BY <1>3, <1>4 DEF IsPart
<1> QED
  BY <1>3, <1>5 DEF r

LEMMA RestPart ==
  ASSUME NEW S, NEW s \in Seq(S), NEW o \in 0 .. Len(s), NEW n, n = o + 1
  PROVE  SubSeq(s, n, Len(s)) \in Seq(S) /\ IsPart(SubSeq(s, n, Len(s)), s, o, Len(s) - o)
<1> DEFINE r == SubSeq(s, n, Len(s))
<1>1. /\ n \in Int /\ n >= 1 /\ n <= Len(s) + 1 /\ Len(s) \in Int /\ o \in Nat
      /\ \A k \in n .. Len(s) : s[k] \in S
  OBVIOUS
<1>2. /\ r \in Seq(S) /\ Len(r) = IF n <= Len(s) THEN Len(s) - n + 1 ELSE 0
      /\ \A k \in 1 .. Len(s) - n + 1 : r[k] = s[n + k - 1]
  BY <1>1, SubSeqProperties
<1> HIDE DEF r
<1>3. r \in Seq(S) /\ Len(r) = Len(s) - o /\ DOMAIN r = 1 .. Len(s) - o
  BY <1>1, <1>2
<1>4. ASSUME NEW k \in 1 .. Len(s) - o PROVE r[k] = s[o + k]
  <2>1. k \in 1 .. Len(s) - n + 1 /\ n + k - 1 = o + k
    BY <1>1
  <2> QED
    BY <1>2, <2>1
<1>5. IsPart(r, s, o, Len(s) - o)
  BY <1>3, <1>4 DEF IsPart
<1> QED
  BY <1>3, <1>5 DEF r

-----------------------------------------------------------------------------
(* Trees.  own[l][k] is the page of level l that has k in its range: leaves  *)
(* are at level 0, the root is at level h, lvl[p] is the level of page p.    *)
(* see[l] is own[l] as the level above knows it: the two differ at the one   *)
(* level where a split waits for its parent.                                 *)

LeafNode == [leaf : {TRUE}, keys : Seq(Keys), rids : Seq(Rids), next : Int]
InternalNode == [leaf : {FALSE}, keys : Seq(Keys), child : Seq(Nat)]

Convex(f) == \A a, b, c \in Int : a <= b /\ b <= c /\ f[a] = f[c] => f[b] = f[a]

\* A leaf with at most room keys, all in the range of p.
LeafOn(n, p, f, room) ==
  /\ n \in LeafNode
  /\ Len(n.rids) = Len(n.keys) /\ Len(n.keys) <= room
  /\ Ascending(n.keys)
  /\ \A i \in DOMAIN n.keys : f[n.keys[i]] = p

\* The keys of an internal node lie inside the range of p and are where the
\* page below changes, and a descent follows the page below.
InternalOn(n, p, f, below, room) ==
  /\ n \in InternalNode
  /\ Len(n.keys) >= 1 /\ Len(n.keys) <= room /\ Len(n.child) = Len(n.keys) + 1
  /\ Ascending(n.keys)
  /\ \A i \in DOMAIN n.keys :
       f[n.keys[i]] = p /\ f[n.keys[i] - 1] = p /\ below[n.keys[i]] # below[n.keys[i] - 1]
  /\ \A k \in Int : f[k] = p => Child(n, k) = below[k]

\* The links lead from the page of a key to that of the next key.
Linking(ns, f, leaf) ==
  /\ \A k \in Int : f[k + 1] # f[k] => ns[f[k]].next = f[k + 1]
  /\ \A p \in leaf :
       ns[p].next = INVALID_PAGE_ID
       \/ \E k \in Int : f[k] = p /\ f[k + 1] # p /\ ns[p].next = f[k + 1]
  /\ \A k \in Int : k <= Bottom => f[k] = f[Bottom]

Levelled(D, h, lvl, own) ==
  /\ h \in Nat /\ lvl \in [Nat -> Nat] /\ own \in [Nat -> [Int -> Nat]]
  /\ \A l \in 0 .. h : Convex(own[l]) /\ \A k \in Int : own[l][k] \in D /\ lvl[own[l][k]] = l
  /\ \A p \in D : lvl[p] \in 0 .. h /\ \E k \in Int : own[lvl[p]][k] = p

\* What one page below has in its range, one page above has.
Nested(h, own, see) ==
  \A l \in 1 .. h : \A a, b \in Int : see[l - 1][a] = see[l - 1][b] => own[l][a] = own[l][b]

NodesOn(ns, lvl, own, see) ==
  /\ ns \in Seq(LeafNode \cup InternalNode)
  /\ \A p \in DOMAIN ns :
       /\ lvl[p] = 0 => LeafOn(ns[p], p, own[0], leaf_max_keys)
       /\ lvl[p] # 0 =>
            InternalOn(ns[p], p, own[lvl[p]], see[lvl[p] - 1], internal_max_keys)

Leaves(ns, lvl) == {p \in DOMAIN ns : lvl[p] = 0}

TreeOn(ns, h, lvl, own, see) ==
  /\ Levelled(DOMAIN ns, h, lvl, own)
  /\ Nested(h, own, see)
  /\ NodesOn(ns, lvl, own, see)
  /\ Linking(ns, own[0], Leaves(ns, lvl))

\* The tree with the given root: no split waits, and the root has all keys.
Tree(ns, root, h, lvl, own) ==
  /\ TreeOn(ns, h, lvl, own, own)
  /\ h < MaxLevels
  /\ \A k \in Int : own[h][k] = root

\* The range of q is divided at s: the upper part goes to r.
Divided(f, q, s, r) == [k \in Int |-> IF f[k] = q /\ k >= s THEN r ELSE f[k]]

\* What a division does to the ranges of a level.
Divides(g, f, q, s, r) ==
  /\ g \in [Int -> Nat] /\ Convex(g)
  /\ \A a, b \in Int : g[a] = g[b] => f[a] = f[b]
  /\ g[s - 1] = q /\ g[s] = r /\ q # r
  /\ \A k \in Int : /\ f[k] # q => g[k] = f[k]
                    /\ f[k] = q /\ k < s => g[k] = q
                    /\ f[k] = q /\ k >= s => g[k] = r

LEMMA Division ==
  ASSUME NEW f \in [Int -> Nat], Convex(f), NEW q, NEW s \in Int, NEW r \in Nat,
         f[s] = q, f[s - 1] = q, \A k \in Int : f[k] # r
  PROVE  Divides(Divided(f, q, s, r), f, q, s, r)
<1> DEFINE g == Divided(f, q, s, r)
<1>1. g \in [Int -> Nat] /\ s - 1 \in Int /\ q # r /\ q \in Nat
  BY DEF Divided
<1>2. ASSUME NEW k \in Int
      PROVE  /\ f[k] # q => g[k] = f[k]
             /\ f[k] = q /\ k < s => g[k] = q
             /\ f[k] = q /\ k >= s => g[k] = r
  BY <1>2 DEF Divided
<1>3. g[s - 1] = q /\ g[s] = r
  BY <1>1, <1>2
<1> HIDE DEF g
<1>4. ASSUME NEW k \in Int PROVE g[k] = r <=> f[k] = q /\ k >= s
  BY <1>1, <1>2
<1>5. ASSUME NEW a \in Int, NEW b \in Int, g[a] = g[b] PROVE f[a] = f[b]
  BY <1>1, <1>2, <1>4, <1>5
<1>6. ASSUME NEW a \in Int, NEW b \in Int, NEW c \in Int, a <= b, b <= c, g[a] = g[c]
      PROVE  g[b] = g[a]
  <2>1. f[a] = f[c] /\ f[b] = f[a]
    BY <1>5, <1>6 DEF Convex
  <2>2. CASE f[a] # q
    BY <1>2, <2>1, <2>2
  <2>3. CASE f[a] = q /\ a >= s
    BY <1>2, <1>6, <2>1, <2>3
  <2>4. CASE f[a] = q /\ a < s
    <3>1. g[a] = q /\ c < s /\ b < s
      BY <1>1, <1>2, <1>4, <1>6, <2>1, <2>4
    <3> QED
      BY <1>2, <2>1, <2>4, <3>1
  <2> QED
    BY <2>2, <2>3, <2>4
<1>7. Convex(g)
  BY <1>6 DEF Convex
<1>8. Divides(g, f, q, s, r)
  BY <1>1, <1>2, <1>3, <1>5, <1>7 DEF Divides
<1> QED
  BY <1>8 DEF g

-----------------------------------------------------------------------------
(* Descents *)

\* A function that satisfies the equation is the iteration.
LEMMA IteratedIs ==
  ASSUME NEW a, NEW step, NEW k \in Nat,
         NEW f, f = [n \in 0 .. k |-> IF n = 0 THEN a ELSE step[f[n - 1]]]
  PROVE  Iterated(step, a, k) = f
<1> DEFINE g == CHOOSE g : g = [n \in 0 .. k |-> IF n = 0 THEN a ELSE step[g[n - 1]]]
<1>1. Iterated(step, a, k) = g
  BY DEF Iterated
<1>2. g = [n \in 0 .. k |-> IF n = 0 THEN a ELSE step[g[n - 1]]]
  OBVIOUS
<1> HIDE DEF g
<1> DEFINE Good == {n \in Nat : n <= k => g[n] = f[n]}
<1>3. \A n \in 0 .. k : /\ f[n] = IF n = 0 THEN a ELSE step[f[n - 1]]
                        /\ g[n] = IF n = 0 THEN a ELSE step[g[n - 1]]
  BY <1>2
<1>4. 0 \in Good
  <2>1. 0 \in 0 .. k
    OBVIOUS
  <2> QED
    BY <1>3, <2>1
<1>5. ASSUME NEW n \in Nat, n \in Good PROVE n + 1 \in Good
  <2> SUFFICES ASSUME n + 1 <= k PROVE g[n + 1] = f[n + 1]
    OBVIOUS
  <2>1. n + 1 \in 0 .. k /\ (n + 1) - 1 = n /\ n + 1 # 0 /\ g[n] = f[n]
    BY <1>5
  <2> QED
    BY <1>3, <2>1
<1>6. \A n \in 0 .. k : g[n] = f[n]
  <2>1. Nat \subseteq Good
    <3> HIDE DEF Good
    <3> QED
      BY <1>4, <1>5, NatsBelong
  <2>2. ASSUME NEW n \in 0 .. k PROVE g[n] = f[n]
    <3>1. n \in Nat /\ n <= k
      OBVIOUS
    <3>2. n \in Good
      BY <2>1, <3>1
    <3> QED
      BY <3>1, <3>2
  <2> QED
    BY <2>2
<1>7. g = f
  <2>1. f = [n \in 0 .. k |-> f[n]]
    OBVIOUS
  <2>2. g = [n \in 0 .. k |-> g[n]]
    BY <1>2
  <2> QED
    BY <1>6, <2>1, <2>2
<1> QED
  BY <1>1, <1>7

LEMMA KeySeq ==
  ASSUME NEW s \in Seq(Keys)
  PROVE  /\ s \in Seq(Int) /\ Len(s) \in Nat /\ DOMAIN s = 1 .. Len(s)
         /\ \A i \in DOMAIN s : s[i] \in Keys /\ s[i] \in Int
<1>1. Len(s) \in Nat /\ DOMAIN s = 1 .. Len(s) /\ \A i \in DOMAIN s : s[i] \in Keys
  OBVIOUS
<1>2. \A i \in DOMAIN s : s[i] \in Int
  BY <1>1, TreeAssumption
<1>3. s \in Seq(Int)
  BY <1>1, <1>2
<1> QED
  BY <1>1, <1>2, <1>3

LEMMA TreeHeight ==
  ASSUME NEW ns, NEW h, NEW lvl, NEW own, NEW see, TreeOn(ns, h, lvl, own, see)
  PROVE  h \in Nat /\ 0 \in 0 .. h /\ h \in 0 .. h
<1>1. h \in Nat
  BY DEF TreeOn, Levelled
<1> QED
  BY <1>1

\* What a tree says of one page.
LEMMA NodeFacts ==
  ASSUME NEW ns, NEW h, NEW lvl, NEW own, NEW see, TreeOn(ns, h, lvl, own, see),
         NEW p \in DOMAIN ns
  PROVE  /\ p \in 1 .. Len(ns) /\ lvl[p] \in 0 .. h
         /\ \E k \in Int : own[lvl[p]][k] = p
         /\ lvl[p] = 0 =>
              ns[p] \in LeafNode /\ ns[p].leaf /\ LeafOn(ns[p], p, own[0], leaf_max_keys)
         /\ lvl[p] # 0 =>
              /\ ns[p] \in InternalNode /\ ~ns[p].leaf
              /\ InternalOn(ns[p], p, own[lvl[p]], see[lvl[p] - 1], internal_max_keys)
<1>1. ns \in Seq(LeafNode \cup InternalNode)
  BY DEF TreeOn, NodesOn
<1>2. p \in 1 .. Len(ns)
  <2> HIDE DEF LeafNode, InternalNode
  <2> QED
    BY <1>1
<1>3. lvl[p] \in 0 .. h /\ \E k \in Int : own[lvl[p]][k] = p
  BY DEF TreeOn, Levelled
<1>4. CASE lvl[p] = 0
  <2>1. LeafOn(ns[p], p, own[0], leaf_max_keys)
    BY <1>4 DEF TreeOn, NodesOn
  <2>2. ns[p] \in LeafNode
    BY <2>1 DEF LeafOn
  <2>3. ns[p].leaf
    BY <2>2 DEF LeafNode
  <2> QED
    BY <1>2, <1>3, <1>4, <2>1, <2>2, <2>3
<1>5. CASE lvl[p] # 0
  <2>1. InternalOn(ns[p], p, own[lvl[p]], see[lvl[p] - 1], internal_max_keys)
    BY <1>5 DEF TreeOn, NodesOn
  <2>2. ns[p] \in InternalNode
    BY <2>1 DEF InternalOn
  <2>3. ~ns[p].leaf
    BY <2>2 DEF InternalNode
  <2> QED
    BY <1>2, <1>3, <1>5, <2>1, <2>2, <2>3
<1> QED
  BY <1>4, <1>5

\* The page of a level that has a key.
LEMMA OwnFacts ==
  ASSUME NEW ns, NEW h, NEW lvl, NEW own, NEW see, TreeOn(ns, h, lvl, own, see),
         NEW l \in 0 .. h, NEW k \in Int
  PROVE  /\ own[l] \in [Int -> Nat] /\ Convex(own[l])
         /\ own[l][k] \in DOMAIN ns /\ own[l][k] \in Nat /\ lvl[own[l][k]] = l
<1>1. Levelled(DOMAIN ns, h, lvl, own)
  BY DEF TreeOn
<1>2. l \in Nat /\ own[l] \in [Int -> Nat]
  <2>1. h \in Nat /\ own \in [Nat -> [Int -> Nat]]
    BY <1>1 DEF Levelled
  <2>2. l \in Nat
    BY <2>1
  <2> QED
    BY <2>1, <2>2
<1>3. Convex(own[l]) /\ own[l][k] \in DOMAIN ns /\ lvl[own[l][k]] = l
  BY <1>1 DEF Levelled
<1> QED
  BY <1>2, <1>3

\* The n-th page of a descent is the page n levels below the root that has the
\* key, and from the leaf on it repeats.
LEMMA PathFacts ==
  ASSUME NEW h, NEW lvl, NEW own, Tree(nodes, root_page_id, h, lvl, own), NEW key \in Int
  PROVE  /\ h \in Nat /\ h <= MaxLevels - 1
         /\ Path(key) = [n \in 0 .. MaxLevels - 1 |-> own[IF n <= h THEN h - n ELSE 0][key]]
         /\ LeafFor(key) = own[0][key] /\ own[0][key] \in Pages /\ lvl[own[0][key]] = 0
         /\ Height(key) = h
<1> DEFINE at(n) == IF n <= h THEN h - n ELSE 0
           f == [n \in 0 .. MaxLevels - 1 |-> own[at(n)][key]]
<1>1. /\ TreeOn(nodes, h, lvl, own, own) /\ h \in Nat /\ h < MaxLevels
      /\ MaxLevels - 1 \in Nat /\ MaxLevels \in Nat
      /\ own[h][key] = root_page_id
  <2>1. MaxLevels \in Nat /\ MaxLevels - 1 \in Nat
    BY TreeAssumption
  <2>2. h \in Nat
    BY DEF Tree, TreeOn, Levelled
  <2> QED
    BY <2>1, <2>2 DEF Tree
<1>2. ASSUME NEW n \in 0 .. MaxLevels - 1
      PROVE  at(n) \in 0 .. h /\ f[n] = own[at(n)][key] /\ f[n] \in Pages /\ lvl[f[n]] = at(n)
  <2>1. at(n) \in 0 .. h
    BY <1>1
  <2> HIDE DEF at
  <2> QED
    BY <1>1, <2>1, OwnFacts DEF Pages
<1>3. ASSUME NEW n \in 0 .. MaxLevels - 1, n # 0 PROVE f[n] = Down(key)[f[n - 1]]
  <2>1. n - 1 \in 0 .. MaxLevels - 1
    BY <1>1, <1>3
  <2> DEFINE p == f[n - 1]
  <2>2. p \in Pages /\ lvl[p] = at(n - 1) /\ p = own[at(n - 1)][key] /\ f[n] = own[at(n)][key]
    BY <1>2, <2>1
  <2> HIDE DEF f, p
  <2>3. Down(key)[p] = IF nodes[p].leaf THEN p ELSE Child(nodes[p], key)
    BY <2>2 DEF Down
  <2>4. CASE n - 1 < h
    <3>1. at(n - 1) # 0 /\ at(n - 1) - 1 = at(n)
      BY <1>1, <2>1, <2>4
    <3> HIDE DEF at
    <3>2. ~nodes[p].leaf /\ InternalOn(nodes[p], p, own[at(n - 1)], own[at(n)], internal_max_keys)
      BY <1>1, <2>2, <3>1, NodeFacts DEF Pages
    <3>3. Child(nodes[p], key) = own[at(n)][key]
      BY <2>2, <3>2 DEF InternalOn
    <3> QED
      BY <2>2, <2>3, <3>2, <3>3 DEF p
  <2>5. CASE ~(n - 1 < h)
    <3>1. at(n - 1) = 0 /\ at(n) = 0
      BY <1>1, <2>1, <2>5
    <3> HIDE DEF at
    <3>2. nodes[p].leaf
      BY <1>1, <2>2, <3>1, NodeFacts DEF Pages
    <3> QED
      BY <2>2, <2>3, <3>1, <3>2 DEF p
  <2> QED
    BY <2>4, <2>5
<1>4. f[0] = root_page_id
  BY <1>1
<1>5. Path(key) = f
  <2>1. f = [n \in 0 .. MaxLevels - 1 |-> IF n = 0 THEN root_page_id ELSE Down(key)[f[n - 1]]]
    <3>1. \A n \in 0 .. MaxLevels - 1 :
            f[n] = IF n = 0 THEN root_page_id ELSE Down(key)[f[n - 1]]
      BY <1>3, <1>4
    <3>2. f = [n \in 0 .. MaxLevels - 1 |-> f[n]]
      OBVIOUS
    <3> HIDE DEF f
    <3> QED
      BY <3>1, <3>2
  <2> HIDE DEF f
  <2> QED
    BY <1>1, <2>1, IteratedIs, SMTT(30) DEF Path
<1>6. LeafFor(key) = own[0][key] /\ own[0][key] \in Pages /\ lvl[own[0][key]] = 0
  <2>1. MaxLevels - 1 \in 0 .. MaxLevels - 1 /\ at(MaxLevels - 1) = 0
    BY <1>1
  <2> HIDE DEF f, at
  <2> QED
    BY <1>2, <1>5, <2>1 DEF LeafFor
<1>7. Height(key) = h
  <2>1. ASSUME NEW n \in 0 .. MaxLevels - 1 PROVE ~nodes[f[n]].leaf <=> n < h
    <3>1. CASE n < h
      <4>1. at(n) # 0
        BY <1>1, <3>1
      <4> HIDE DEF f, at
      <4> QED
        BY <1>1, <1>2, <3>1, <4>1, NodeFacts DEF Pages
    <3>2. CASE ~(n < h)
      <4>1. at(n) = 0
        BY <1>1, <3>2
      <4> HIDE DEF f, at
      <4> QED
        BY <1>1, <1>2, <3>2, <4>1, NodeFacts DEF Pages
    <3> QED
      BY <3>1, <3>2
  <2>2. DOMAIN f = 0 .. MaxLevels - 1
    OBVIOUS
  <2> HIDE DEF f
  <2>3. {n \in DOMAIN f : ~nodes[f[n]].leaf} = 0 .. h - 1
    BY <1>1, <2>1, <2>2
  <2>4. Cardinality(0 .. h - 1) = h
    <3>1. 0 \in Int /\ h - 1 \in Int
      BY <1>1
    <3> QED
      BY <1>1, <3>1, FS_Interval
  <2> QED
    BY <1>5, <2>3, <2>4 DEF Height
<1> QED
  BY <1>1, <1>5, <1>6, <1>7

-----------------------------------------------------------------------------
(* The chain of leaves *)

\* A page whose range ends: what comes after its last key is not its own.
LEMMA EndOfRange ==
  ASSUME NEW f \in [Int -> Nat], Convex(f), NEW e \in Int, f[e + 1] # f[e]
  PROVE  /\ \A a \in Int : f[a] = f[e] => a <= e
         /\ \A b \in Int : f[b] = f[e + 1] => b >= e + 1
<1>1. ASSUME NEW a \in Int, f[a] = f[e], ~(a <= e) PROVE FALSE
  <2>1. e <= e + 1 /\ e + 1 <= a /\ e + 1 \in Int
    BY <1>1
  <2> QED
    BY <1>1, <2>1 DEF Convex
<1>2. ASSUME NEW b \in Int, f[b] = f[e + 1], ~(b >= e + 1) PROVE FALSE
  <2>1. b <= e /\ e <= e + 1 /\ e + 1 \in Int
    BY <1>2
  <2> QED
    BY <1>2, <2>1 DEF Convex
<1> QED
  BY <1>1, <1>2

\* The chain has every leaf, in the order of their keys, and ends.
LEMMA ChainFacts ==
  ASSUME NEW h, NEW lvl, NEW own, Tree(nodes, root_page_id, h, lvl, own)
  PROVE  LET c == LeafChain
             N == Len(nodes)
             leaf == Leaves(nodes, lvl) IN
         /\ N \in Nat /\ DOMAIN c = 0 .. N /\ c[N] = INVALID_PAGE_ID
         /\ \A n \in 0 .. N : c[n] \in leaf \cup {INVALID_PAGE_ID}
         /\ \A m, n \in 0 .. N : m < n /\ c[m] # INVALID_PAGE_ID /\ c[n] # INVALID_PAGE_ID =>
              \A a, b \in Int : own[0][a] = c[m] /\ own[0][b] = c[n] => a < b
         /\ \A k \in Int : \E n \in 0 .. N : c[n] = own[0][k]
<1> DEFINE f == own[0]
           leaf == Leaves(nodes, lvl)
           S == Pages \cup {INVALID_PAGE_ID}
           N == Len(nodes)
           c == LeafChain
           No == INVALID_PAGE_ID
<1>1. /\ TreeOn(nodes, h, lvl, own, own) /\ nodes \in Seq(LeafNode \cup InternalNode)
      /\ N \in Nat /\ Pages = 1 .. N /\ Bottom \in Int /\ 0 \in 0 .. h
  <2>1. TreeOn(nodes, h, lvl, own, own) /\ nodes \in Seq(LeafNode \cup InternalNode) /\ h \in Nat
    BY DEF Tree, TreeOn, NodesOn, Levelled
  <2>2. Len(nodes) \in Nat /\ DOMAIN nodes = 1 .. Len(nodes)
    <3> HIDE DEF LeafNode, InternalNode
    <3> QED
      BY <2>1
  <2> QED
    BY <2>1, <2>2, BottomBelow DEF Pages
<1>2. /\ f \in [Int -> Nat] /\ Convex(f) /\ Linking(nodes, f, leaf)
      /\ \A k \in Int : f[k] \in leaf /\ f[k] # No /\ f[k] \in Pages
      /\ leaf = {p \in Pages : lvl[p] = 0} /\ \A p \in leaf : nodes[p].leaf /\ \E k \in Int : f[k] = p
  <2>1. f \in [Int -> Nat] /\ Convex(f)
    BY <1>1, BottomBelow, OwnFacts
  <2>2. ASSUME NEW k \in Int PROVE f[k] \in leaf /\ f[k] # No /\ f[k] \in Pages
    <3>1. f[k] \in DOMAIN nodes /\ f[k] \in Nat /\ lvl[f[k]] = 0
      BY <1>1, OwnFacts
    <3> QED
      BY <3>1 DEF Leaves, INVALID_PAGE_ID, Pages
  <2>3. ASSUME NEW p \in leaf PROVE nodes[p].leaf /\ \E k \in Int : f[k] = p
    <3>1. p \in DOMAIN nodes /\ lvl[p] = 0
      BY DEF Leaves
    <3> QED
      BY <1>1, <3>1, NodeFacts
  <2> QED
    BY <1>1, <2>1, <2>2, <2>3 DEF TreeOn, Leaves, Pages
<1>3. NextLeaf \in [S -> S] /\ NextLeaf[No] = No
      /\ \A p \in leaf : p # No /\ NextLeaf[p] = nodes[p].next /\ NextLeaf[p] \in leaf \cup {No}
  <2>1. DOMAIN NextLeaf = S /\ NextLeaf[No] = No
    BY DEF NextLeaf
  <2>2. ASSUME NEW p \in leaf
        PROVE  p \in Pages /\ p # No /\ NextLeaf[p] = nodes[p].next /\ NextLeaf[p] \in leaf \cup {No}
    <3>1. p \in Pages /\ p # No /\ nodes[p].leaf
      BY <1>2
    <3>2. NextLeaf[p] = nodes[p].next
      BY <3>1 DEF NextLeaf
    <3>3. nodes[p].next = No \/ \E k \in Int : nodes[p].next = f[k + 1]
      BY <1>2 DEF Linking
    <3>4. \A k \in Int : k + 1 \in Int
      OBVIOUS
    <3> QED
      BY <1>2, <3>1, <3>2, <3>3, <3>4
  <2>3. ASSUME NEW p \in S PROVE NextLeaf[p] \in S
    <3>1. CASE p \in leaf
      BY <1>2, <2>2, <3>1
    <3>2. CASE p \in Pages /\ p \notin leaf
      <4>1. p \in DOMAIN nodes /\ lvl[p] # 0
        BY <1>2, <3>2 DEF Pages
      <4>2. ~nodes[p].leaf
        BY <1>1, <4>1, NodeFacts
      <4> QED
        BY <3>2, <4>2 DEF NextLeaf
    <3>3. CASE p = No
      BY <2>1, <3>3
    <3> QED
      BY <3>1, <3>2, <3>3
  <2>4. NextLeaf = [p \in S |-> NextLeaf[p]]
    BY DEF NextLeaf
  <2> QED
    BY <2>1, <2>2, <2>3, <2>4
<1>4. LeafFor(Bottom) = f[Bottom] /\ f[Bottom] \in S
  <2>1. LeafFor(Bottom) = own[0][Bottom]
    BY <1>1, PathFacts
  <2> QED
    BY <1>1, <1>2, <2>1
<1>5. /\ DOMAIN c = 0 .. N /\ c[0] = f[Bottom]
      /\ \A n \in 1 .. N : c[n] = NextLeaf[c[n - 1]]
  <2> DEFINE a == f[Bottom]
             step == [z \in S \X Nat |-> NextLeaf[z[1]]]
  <2>1. a \in S /\ step \in [S \X Nat -> S]
    <3> HIDE DEF S
    <3> QED
      BY <1>3, <1>4
  <2> HIDE DEF step, a, S
  <2>2. PICK g \in [0 .. N -> S] : Recurs(g, a, step, N)
    BY <1>1, <2>1, RecursionExists
  <2>3. ASSUME NEW n \in 0 .. N, n # 0 PROVE step[<<g[n - 1], n>>] = NextLeaf[g[n - 1]]
    <3>1. n - 1 \in 0 .. N /\ n \in Nat
      BY <1>1, <2>3
    <3>2. <<g[n - 1], n>> \in S \X Nat
      BY <3>1
    <3> QED
      BY <3>2 DEF step
  <2>4. g = [n \in 0 .. N |-> IF n = 0 THEN a ELSE NextLeaf[g[n - 1]]]
    BY <2>2, <2>3 DEF Recurs
  <2>5. c = g
    <3>1. Iterated(NextLeaf, a, N) = g
      BY <1>1, <2>4, IteratedIs
    <3> QED
      BY <1>4, <3>1 DEF LeafChain, Bottom, a
  <2>6. \A n \in 0 .. N : g[n] = IF n = 0 THEN a ELSE NextLeaf[g[n - 1]]
    BY <2>4
  <2>7. 0 \in 0 .. N /\ \A n \in 1 .. N : n \in 0 .. N /\ n # 0
    BY <1>1
  <2> QED
    BY <2>4, <2>5, <2>6, <2>7 DEF a
<1> HIDE DEF c, S, N, leaf, f
<1> DEFINE Ordered(n) ==
      /\ c[n] \in leaf \cup {No}
      /\ c[n] # No => \A m \in 0 .. n - 1 :
           c[m] # No /\ \A a, b \in Int : f[a] = c[m] /\ f[b] = c[n] => a < b
<1>6. \A n \in 0 .. N : Ordered(n)
  <2> DEFINE Good == {n \in Nat : n <= N => Ordered(n)}
  <2>1. 0 \in Good
    <3>1. c[0] \in leaf
      BY <1>1, <1>2, <1>5
    <3>2. 0 .. 0 - 1 = {}
      OBVIOUS
    <3> QED
      BY <3>1, <3>2
  <2>2. ASSUME NEW n \in Nat, n \in Good PROVE n + 1 \in Good
    <3> SUFFICES ASSUME n + 1 <= N PROVE Ordered(n + 1)
      OBVIOUS
    <3>1. Ordered(n) /\ n + 1 \in 1 .. N /\ (n + 1) - 1 = n
      BY <1>1, <2>2
    <3>2. c[n + 1] = NextLeaf[c[n]]
      BY <1>5, <3>1
    <3>3. CASE c[n] = No \/ c[n + 1] = No
      BY <1>3, <3>2, <3>3
    <3>4. CASE c[n] # No /\ c[n + 1] # No
      <4>1. c[n] \in leaf /\ c[n + 1] = nodes[c[n]].next /\ c[n + 1] \in leaf
        BY <1>3, <3>1, <3>2, <3>4
      <4>2. PICK e \in Int : f[e] = c[n] /\ f[e + 1] # c[n] /\ c[n + 1] = f[e + 1]
        BY <1>2, <3>4, <4>1 DEF Linking
      <4>3. /\ \A a \in Int : f[a] = c[n] => a <= e
            /\ \A b \in Int : f[b] = c[n + 1] => b >= e + 1
        <5>1. f[e + 1] # f[e]
          BY <4>2
        <5>2. /\ \A a \in Int : f[a] = f[e] => a <= e
              /\ \A b \in Int : f[b] = f[e + 1] => b >= e + 1
          BY <1>2, <5>1, EndOfRange
        <5> QED
          BY <4>2, <5>2
      <4>4. ASSUME NEW m \in 0 .. (n + 1) - 1
            PROVE  c[m] # No /\ \A a, b \in Int : f[a] = c[m] /\ f[b] = c[n + 1] => a < b
        <5>1. CASE m = n
          BY <3>4, <4>3, <5>1
        <5>2. CASE m # n
          <6>1. m \in 0 .. n - 1
            BY <5>2
          <6>2. c[m] # No /\ \A a \in Int : f[a] = c[m] => a < e
            BY <3>1, <3>4, <4>2, <6>1
          <6> QED
            BY <4>3, <6>2
        <5> QED
          BY <5>1, <5>2
      <4> QED
        BY <4>1, <4>4
    <3> QED
      BY <3>3, <3>4
  <2>3. Nat \subseteq Good
    <3> HIDE DEF Good
    <3> QED
      BY <2>1, <2>2, NatsBelong
  <2>4. ASSUME NEW n \in 0 .. N PROVE Ordered(n)
    <3>1. n \in Nat /\ n <= N
      BY <1>1
    <3>2. n \in Good
      BY <2>3, <3>1
    <3> QED
      BY <3>1, <3>2
  <2> QED
    BY <2>4
<1>7. \A m, n \in 0 .. N : m < n /\ c[m] # No /\ c[n] # No =>
         \A a, b \in Int : f[a] = c[m] /\ f[b] = c[n] => a < b
  <2>1. ASSUME NEW m \in 0 .. N, NEW n \in 0 .. N, m < n, c[n] # No PROVE m \in 0 .. n - 1
    BY <1>1, <2>1
  <2> QED
    BY <1>6, <2>1
<1>8. c[N] = No
  <2> SUFFICES ASSUME c[N] # No PROVE FALSE
    OBVIOUS
  <2>1. ASSUME NEW n \in 0 .. N PROVE c[n] # No /\ c[n] \in leaf /\ c[n] \in Pages
    <3>1. n = N \/ n \in 0 .. N - 1
      BY <1>1
    <3>2. N \in 0 .. N
      BY <1>1
    <3>3. c[n] # No
      BY <1>6, <3>1, <3>2
    <3> QED
      BY <1>2, <1>6, <3>3
  <2> DEFINE g == [n \in 0 .. N |-> c[n]]
  <2>2. g \in [0 .. N -> Pages]
    BY <2>1
  <2>3. /\ IsFiniteSet(0 .. N) /\ Cardinality(0 .. N) = N + 1
        /\ IsFiniteSet(Pages) /\ Cardinality(Pages) = N
    <3>1. 0 \in Int /\ 1 \in Int /\ N \in Int /\ ~(0 > N)
      BY <1>1
    <3>2. IsFiniteSet(0 .. N) /\ Cardinality(0 .. N) = N - 0 + 1
      BY <3>1, FS_Interval
    <3>3. IsFiniteSet(1 .. N) /\ Cardinality(1 .. N) = IF 1 > N THEN 0 ELSE N - 1 + 1
      BY <3>1, FS_Interval
    <3> QED
      BY <1>1, <3>2, <3>3
  <2>4. \E x, y \in 0 .. N : x # y /\ g[x] = g[y]
    <3>1. Cardinality(Pages) < Cardinality(0 .. N)
      BY <1>1, <2>3
    <3> HIDE DEF g
    <3> QED
      BY <2>2, <2>3, <3>1, FS_PigeonHole, ZenonT(30)
  <2>5. PICK x \in 0 .. N, y \in 0 .. N : x # y /\ c[x] = c[y]
    BY <2>4
  <2>6. PICK a \in Int : f[a] = c[x]
    BY <1>2, <2>1
  <2>7. x < y \/ y < x
    BY <2>5
  <2>8. a < a
    BY <1>7, <2>1, <2>5, <2>6, <2>7
  <2> QED
    BY <2>8
<1>9. ASSUME NEW k \in Int PROVE \E n \in 0 .. N : c[n] = f[k]
  <2> DEFINE In(i) == \E n \in 0 .. N : c[n] = f[i]
             Good == {j \in Nat : In(Bottom + j)}
  <2>1. \A i \in Int : i <= Bottom => In(i)
    <3>1. 0 \in 0 .. N
      BY <1>1
    <3> QED
      BY <1>2, <1>5, <3>1 DEF Linking
  <2>2. 0 \in Good
    <3>1. Bottom + 0 \in Int /\ Bottom + 0 <= Bottom
      BY <1>1
    <3> HIDE DEF In
    <3> QED
      BY <2>1, <3>1
  <2>3. ASSUME NEW j \in Nat, j \in Good PROVE j + 1 \in Good
    <3> DEFINE i == Bottom + j
    <3>1. i \in Int /\ Bottom + (j + 1) = i + 1
      BY <1>1
    <3>2. In(i)
      BY <2>3
    <3> HIDE DEF i
    <3>3. PICK n \in 0 .. N : c[n] = f[i]
      BY <3>2
    <3>4. In(i + 1)
      <4>1. CASE f[i + 1] = f[i]
        BY <3>3, <4>1
      <4>2. CASE f[i + 1] # f[i]
        <5>1. nodes[f[i]].next = f[i + 1]
          BY <1>2, <3>1, <4>2 DEF Linking
        <5>2. f[i] \in leaf /\ f[i] # No
          BY <1>2, <3>1
        <5>3. n + 1 \in 1 .. N /\ (n + 1) - 1 = n
          BY <1>1, <1>8, <3>3, <5>2
        <5>4. c[n + 1] = f[i + 1]
          BY <1>3, <1>5, <3>3, <5>1, <5>2, <5>3
        <5>5. n + 1 \in 0 .. N
          BY <5>3
        <5> QED
          BY <5>4, <5>5
      <4> QED
        BY <4>1, <4>2
    <3> HIDE DEF In
    <3> QED
      BY <3>1, <3>4
  <2>4. Nat \subseteq Good
    <3> HIDE DEF Good
    <3> QED
      BY <2>2, <2>3, NatsBelong
  <2> HIDE DEF In
  <2>5. CASE k <= Bottom
    <3>1. In(k)
      BY <2>1, <2>5
    <3> QED
      BY <3>1 DEF In
  <2>6. CASE ~(k <= Bottom)
    <3>1. k - Bottom \in Nat /\ Bottom + (k - Bottom) = k
      BY <1>1, <2>6
    <3>2. k - Bottom \in Good
      BY <2>4, <3>1
    <3>3. In(k)
      BY <3>1, <3>2
    <3> QED
      BY <3>3 DEF In
  <2> QED
    BY <2>5, <2>6
<1> QED
  BY <1>1, <1>5, <1>6, <1>7, <1>8, <1>9 DEF c, N, leaf, f

-----------------------------------------------------------------------------
(* What a tree guarantees to lookups and ranges *)

\* A descent for a key that a leaf holds ends at that leaf.
LEMMA HeldIsFound ==
  ASSUME NEW h, NEW lvl, NEW own, Tree(nodes, root_page_id, h, lvl, own),
         NEW p \in Pages, nodes[p].leaf, NEW i \in DOMAIN nodes[p].keys
  PROVE  /\ nodes[p].keys[i] \in Keys /\ nodes[p].keys[i] \in Int
         /\ own[0][nodes[p].keys[i]] = p /\ LeafFor(nodes[p].keys[i]) = p
<1>1. LeafOn(nodes[p], p, own[0], leaf_max_keys) /\ nodes[p] \in LeafNode
  <2>1. TreeOn(nodes, h, lvl, own, own) /\ p \in DOMAIN nodes
    BY DEF Tree, Pages
  <2> QED
    BY <2>1, NodeFacts
<1>2. nodes[p].keys \in Seq(Keys)
  BY <1>1 DEF LeafNode
<1>3. nodes[p].keys[i] \in Keys /\ nodes[p].keys[i] \in Int
  <2>1. nodes[p].keys[i] \in Keys
    BY <1>2
  <2> QED
    BY <2>1, TreeAssumption
<1>4. own[0][nodes[p].keys[i]] = p
  BY <1>1 DEF LeafOn
<1> QED
  BY <1>3, <1>4, PathFacts

\* The entries are those of the leaves.
LEMMA EntriesOfLeaves ==
  ASSUME NEW h, NEW lvl, NEW own, Tree(nodes, root_page_id, h, lvl, own)
  PROVE  /\ \A e : e \in Entries <=>
              \E p \in Pages : nodes[p].leaf /\ \E i \in DOMAIN nodes[p].keys :
                e = <<nodes[p].keys[i], nodes[p].rids[i]>>
         /\ \A k : k \in Present <=>
              \E p \in Pages : nodes[p].leaf /\ \E i \in DOMAIN nodes[p].keys : k = nodes[p].keys[i]
<1>1. ASSUME NEW e
      PROVE  e \in Entries <=>
               \E p \in Pages : nodes[p].leaf /\ \E i \in DOMAIN nodes[p].keys :
                 e = <<nodes[p].keys[i], nodes[p].rids[i]>>
  <2>1. ASSUME e \in Entries
        PROVE  \E p \in Pages : nodes[p].leaf /\ \E i \in DOMAIN nodes[p].keys :
                 e = <<nodes[p].keys[i], nodes[p].rids[i]>>
    <3>1. PICK key \in Keys : e \in Found(key, LeafFor(key))
      BY <2>1 DEF Entries
    <3>2. LeafFor(key) \in Pages /\ nodes[LeafFor(key)].leaf
      <4>1. key \in Int /\ TreeOn(nodes, h, lvl, own, own)
        BY TreeAssumption DEF Tree
      <4>2. LeafFor(key) \in DOMAIN nodes /\ lvl[LeafFor(key)] = 0
        BY <4>1, PathFacts DEF Pages
      <4> QED
        BY <4>1, <4>2, NodeFacts DEF Pages
    <3> QED
      BY <3>1, <3>2 DEF Found
  <2>2. ASSUME NEW p \in Pages, nodes[p].leaf, NEW i \in DOMAIN nodes[p].keys,
               e = <<nodes[p].keys[i], nodes[p].rids[i]>>
        PROVE  e \in Entries
    <3>1. nodes[p].keys[i] \in Keys /\ LeafFor(nodes[p].keys[i]) = p
      BY <2>2, HeldIsFound
    <3>2. e \in Found(nodes[p].keys[i], p)
      BY <2>2 DEF Found
    <3> QED
      BY <3>1, <3>2 DEF Entries
  <2> QED
    BY <2>1, <2>2
<1>2. ASSUME NEW k
      PROVE  k \in Present <=>
               \E p \in Pages : nodes[p].leaf /\ \E i \in DOMAIN nodes[p].keys : k = nodes[p].keys[i]
  <2>1. ASSUME k \in Present
        PROVE  \E p \in Pages : nodes[p].leaf /\ \E i \in DOMAIN nodes[p].keys : k = nodes[p].keys[i]
    <3>1. PICK e \in Entries : k = e[1]
      BY <2>1 DEF Present
    <3>2. PICK p \in Pages : nodes[p].leaf /\ \E i \in DOMAIN nodes[p].keys :
                 e = <<nodes[p].keys[i], nodes[p].rids[i]>>
      BY <1>1, <3>1
    <3> QED
      BY <3>1, <3>2
  <2>2. ASSUME NEW p \in Pages, nodes[p].leaf, NEW i \in DOMAIN nodes[p].keys,
               k = nodes[p].keys[i]
        PROVE  k \in Present
    <3>1. <<nodes[p].keys[i], nodes[p].rids[i]>> \in Entries
      BY <1>1, <2>2
    <3>2. k = <<nodes[p].keys[i], nodes[p].rids[i]>>[1]
      BY <2>2
    <3> QED
      BY <3>1, <3>2 DEF Present
  <2> QED
    BY <2>1, <2>2
<1> QED
  BY <1>1, <1>2

\* The children of an internal node are pages.
LEMMA ChildrenArePages ==
  ASSUME NEW n, NEW p, NEW f \in [Int -> Nat], NEW below, NEW room \in Nat, NEW D,
         InternalOn(n, p, f, below, room), \A k \in Int : below[k] \in D
  PROVE  n.child \in Seq(D)
<1>1. /\ n.keys \in Seq(Int) /\ n.child \in Seq(Nat) /\ Len(n.keys) \in Nat
      /\ Len(n.keys) >= 1 /\ Len(n.child) = Len(n.keys) + 1
      /\ DOMAIN n.keys = 1 .. Len(n.keys) /\ \A i \in DOMAIN n.keys : n.keys[i] \in Int
  <2>1. n \in InternalNode /\ Len(n.keys) >= 1 /\ Len(n.child) = Len(n.keys) + 1
    BY DEF InternalOn
  <2>2. n.keys \in Seq(Keys) /\ n.child \in Seq(Nat)
    BY <2>1 DEF InternalNode
  <2> QED
    BY <2>1, <2>2, KeySeq
<1>2. ASSUME NEW j \in 1 .. Len(n.child) PROVE n.child[j] \in D
  <2>1. j \in 1 .. Len(n.keys) + 1 /\ Ascending(n.keys)
    BY <1>1 DEF InternalOn
  <2>2. PICK i \in DOMAIN n.keys : \E k \in {n.keys[i], n.keys[i] - 1} : UpTo(n.keys, k) = j - 1
    BY <1>1, <2>1, EachPlaceFound
  <2> PICK k \in {n.keys[i], n.keys[i] - 1} : UpTo(n.keys, k) = j - 1
    BY <2>2
  <2>3. k \in Int /\ f[k] = p
    <3> \A x \in Int : x - 1 \in Int
      OBVIOUS
    <3>1. n.keys[i] \in Int /\ n.keys[i] - 1 \in Int
      BY <1>1
    <3>2. f[n.keys[i]] = p /\ f[n.keys[i] - 1] = p
      BY DEF InternalOn
    <3> QED
      BY <3>1, <3>2
  <2>4. Child(n, k) = n.child[(j - 1) + 1] /\ (j - 1) + 1 = j
    BY DEF Child, internal_find_position, UpTo
  <2> QED
    BY <2>3, <2>4 DEF InternalOn
<1> DEFINE c == n.child
<1>3. c \in Seq(Nat) /\ \A j \in 1 .. Len(c) : c[j] \in D
  BY <1>1, <1>2
<1> HIDE DEF c
<1>4. c \in Seq(D)
  <2>1. Len(c) \in Nat /\ c = [j \in 1 .. Len(c) |-> c[j]]
    BY <1>3, SMTT(30)
  <2>2. [j \in 1 .. Len(c) |-> c[j]] \in Seq(D)
    BY <1>3, <2>1
  <2> QED
    BY <2>1, <2>2
<1> QED
  BY <1>4 DEF c

LEMMA TreeIsTyped ==
  ASSUME NEW h, NEW lvl, NEW own, Tree(nodes, root_page_id, h, lvl, own), leaked \subseteq Pages
  PROVE  TreeTypeOK
<1>1. TreeOn(nodes, h, lvl, own, own) /\ h \in Nat /\ 0 \in 0 .. h
  <2>1. TreeOn(nodes, h, lvl, own, own)
    BY DEF Tree
  <2> QED
    BY <2>1, TreeHeight
<1>2. root_page_id \in Pages
  <2>1. 0 \in Int /\ h \in 0 .. h
    BY <1>1
  <2>2. own[h][0] \in DOMAIN nodes /\ own[h][0] = root_page_id
    BY <1>1, <2>1, OwnFacts DEF Tree
  <2> QED
    BY <2>2 DEF Pages
<1>3. ASSUME NEW p \in Pages
      PROVE  LET n == nodes[p] IN
             IF n.leaf
             THEN /\ n.keys \in Seq(Keys) /\ Len(n.keys) <= leaf_max_keys
                  /\ n.rids \in Seq(Rids) /\ Len(n.rids) = Len(n.keys)
                  /\ n.next \in Pages \cup {INVALID_PAGE_ID}
             ELSE /\ n.keys \in Seq(Keys) /\ Len(n.keys) \in 1 .. internal_max_keys
                  /\ n.child \in Seq(Pages) /\ Len(n.child) = Len(n.keys) + 1
  <2> DEFINE n == nodes[p]
  <2>1. p \in DOMAIN nodes /\ lvl[p] \in 0 .. h
    BY <1>1, NodeFacts DEF Pages
  <2>2. CASE lvl[p] = 0
    <3>1. n.leaf /\ n \in LeafNode /\ LeafOn(n, p, own[0], leaf_max_keys)
      BY <1>1, <2>1, <2>2, NodeFacts
    <3>2. n.next \in Pages \cup {INVALID_PAGE_ID}
      <4>1. p \in Leaves(nodes, lvl) /\ Linking(nodes, own[0], Leaves(nodes, lvl))
        BY <1>1, <2>1, <2>2 DEF Leaves, TreeOn
      <4>2. n.next = INVALID_PAGE_ID \/ \E k \in Int : n.next = own[0][k + 1]
        BY <4>1 DEF Linking
      <4>3. ASSUME NEW k \in Int PROVE own[0][k + 1] \in Pages
        <5>1. k + 1 \in Int
          OBVIOUS
        <5> QED
          BY <1>1, <5>1, OwnFacts DEF Pages
      <4> QED
        BY <4>2, <4>3
    <3>3. n.keys \in Seq(Keys) /\ n.rids \in Seq(Rids)
      BY <3>1 DEF LeafNode
    <3> QED
      BY <3>1, <3>2, <3>3 DEF LeafOn
  <2>3. CASE lvl[p] # 0
    <3>1. /\ ~n.leaf /\ n \in InternalNode
          /\ InternalOn(n, p, own[lvl[p]], own[lvl[p] - 1], internal_max_keys)
      BY <1>1, <2>1, <2>3, NodeFacts
    <3>2. lvl[p] - 1 \in 0 .. h
      BY <1>1, <2>1, <2>3
    <3>3. own[lvl[p]] \in [Int -> Nat] /\ \A k \in Int : own[lvl[p] - 1][k] \in Pages
      BY <1>1, <2>1, <3>2, OwnFacts DEF Pages
    <3>4. n.child \in Seq(Pages)
      <4>1. internal_max_keys \in Nat
        BY TreeAssumption
      <4> QED
        BY <3>1, <3>3, <4>1, ChildrenArePages
    <3>5. n.keys \in Seq(Keys) /\ Len(n.keys) \in Nat
      <4>1. n.keys \in Seq(Keys)
        BY <3>1 DEF InternalNode
      <4> QED
        BY <4>1, KeySeq
    <3>6. Len(n.keys) \in 1 .. internal_max_keys
      BY <3>1, <3>5, TreeAssumption DEF InternalOn
    <3> QED
      BY <3>1, <3>4, <3>5, <3>6 DEF InternalOn
  <2> QED
    BY <2>2, <2>3
<1> QED
  BY <1>2, <1>3 DEF TreeTypeOK

LEMMA TreeAgrees ==
  ASSUME NEW h, NEW lvl, NEW own, Tree(nodes, root_page_id, h, lvl, own)
  PROVE  SearchAgrees
<1> DEFINE c == LeafChain
           N == Len(nodes)
           No == INVALID_PAGE_ID
           leaf == Leaves(nodes, lvl)
           Onto == {n \in DOMAIN c : c[n] # No}
           KeysOf(n) == ToSet(nodes[c[n]].keys)
<1>1. leaf = {p \in Pages : nodes[p].leaf}
  <2>1. TreeOn(nodes, h, lvl, own, own)
    BY DEF Tree
  <2>2. \A p \in DOMAIN nodes : nodes[p].leaf <=> lvl[p] = 0
    BY <2>1, NodeFacts
  <2> QED
    BY <2>2 DEF Leaves, Pages
<1>2. /\ N \in Nat /\ DOMAIN c = 0 .. N /\ c[N] = No
      /\ \A n \in 0 .. N : c[n] \in leaf \cup {No}
      /\ \A m, n \in 0 .. N : m < n /\ c[m] # No /\ c[n] # No =>
           \A a, b \in Int : own[0][a] = c[m] /\ own[0][b] = c[n] => a < b
      /\ \A k \in Int : \E n \in 0 .. N : c[n] = own[0][k]
  BY ChainFacts
<1>3. \A k \in Int : own[0][k] \in leaf /\ own[0][k] # No /\ LeafFor(k) = own[0][k]
  <2>1. TreeOn(nodes, h, lvl, own, own) /\ 0 \in 0 .. h
    <3>1. TreeOn(nodes, h, lvl, own, own)
      BY DEF Tree
    <3> QED
      BY <3>1, TreeHeight
  <2>2. ASSUME NEW k \in Int PROVE own[0][k] \in leaf /\ own[0][k] # No
    <3>1. own[0][k] \in DOMAIN nodes /\ own[0][k] \in Nat /\ lvl[own[0][k]] = 0
      BY <2>1, OwnFacts
    <3> QED
      BY <1>1, <3>1 DEF Leaves, INVALID_PAGE_ID
  <2> QED
    BY <2>2, PathFacts
<1>4. \A p \in leaf : \E k \in Int : own[0][k] = p
  <2>1. TreeOn(nodes, h, lvl, own, own)
    BY DEF Tree
  <2>2. \A p \in leaf : p \in DOMAIN nodes /\ lvl[p] = 0
    BY <1>1 DEF Leaves
  <2> QED
    BY <2>1, <2>2, NodeFacts
<1>5. ASSUME NEW p \in leaf, NEW k
      PROVE  k \in ToSet(nodes[p].keys) <=> \E i \in DOMAIN nodes[p].keys : k = nodes[p].keys[i]
  BY DEF ToSet
<1>6. ASSUME NEW p \in leaf, NEW k \in ToSet(nodes[p].keys)
      PROVE  k \in Int /\ own[0][k] = p
  <2>1. PICK i \in DOMAIN nodes[p].keys : k = nodes[p].keys[i]
    BY <1>5
  <2>2. p \in Pages /\ nodes[p].leaf
    BY <1>1
  <2> QED
    BY <2>1, <2>2, HeldIsFound
<1>7. ASSUME NEW n \in Onto PROVE n \in 0 .. N /\ c[n] \in leaf /\ c[n] # No
  BY <1>2
<1>8. ASSUME NEW k PROVE k \in Present <=> \E p \in leaf : k \in ToSet(nodes[p].keys)
  <2>1. k \in Present <=> \E p \in Pages : nodes[p].leaf
                             /\ \E i \in DOMAIN nodes[p].keys : k = nodes[p].keys[i]
    BY EntriesOfLeaves
  <2> QED
    BY <1>1, <1>5, <2>1
<1>9. \A p \in leaf : \A i, j \in DOMAIN nodes[p].keys : i < j => nodes[p].keys[i] < nodes[p].keys[j]
  <2>1. TreeOn(nodes, h, lvl, own, own)
    BY DEF Tree
  <2>2. ASSUME NEW p \in leaf PROVE Ascending(nodes[p].keys)
    <3>1. p \in DOMAIN nodes /\ lvl[p] = 0
      BY <1>1 DEF Leaves
    <3>2. LeafOn(nodes[p], p, own[0], leaf_max_keys)
      BY <2>1, <3>1, NodeFacts
    <3> QED
      BY <3>2 DEF LeafOn
  <2> QED
    BY <2>2 DEF Ascending
<1> HIDE DEF c, N, leaf
<1>10. Onto # DOMAIN c
  BY <1>2
<1>11. {c[n] : n \in Onto} = leaf
  <2>1. ASSUME NEW p \in leaf PROVE \E n \in Onto : c[n] = p
    <3>1. PICK k \in Int : own[0][k] = p
      BY <1>4
    <3>2. PICK n \in 0 .. N : c[n] = own[0][k]
      BY <1>2
    <3> QED
      BY <1>2, <1>3, <3>1, <3>2
  <2> HIDE DEF Onto
  <2> QED
    BY <1>7, <2>1
<1>12. \A m, n \in Onto : m < n => \A k \in KeysOf(m), l \in KeysOf(n) : k < l
  <2> HIDE DEF Onto
  <2>1. ASSUME NEW m \in Onto, NEW n \in Onto, m < n, NEW k \in KeysOf(m), NEW l \in KeysOf(n)
        PROVE  k < l
    <3>1. m \in 0 .. N /\ n \in 0 .. N /\ c[m] \in leaf /\ c[n] \in leaf /\ c[m] # No /\ c[n] # No
      BY <1>7
    <3>2. k \in Int /\ own[0][k] = c[m] /\ l \in Int /\ own[0][l] = c[n]
      BY <1>6, <3>1
    <3> QED
      BY <1>2, <2>1, <3>1, <3>2
  <2> QED
    BY <2>1
<1>13. UNION {KeysOf(n) : n \in Onto} = Present
  <2> HIDE DEF Onto
  <2>1. ASSUME NEW k PROVE k \in UNION {KeysOf(n) : n \in Onto} <=> k \in Present
    <3>1. k \in UNION {KeysOf(n) : n \in Onto} <=> \E n \in Onto : k \in ToSet(nodes[c[n]].keys)
      OBVIOUS
    <3>2. (\E n \in Onto : k \in ToSet(nodes[c[n]].keys)) <=> \E p \in leaf : k \in ToSet(nodes[p].keys)
      BY <1>7, <1>11
    <3> QED
      BY <1>8, <3>1, <3>2
  <2> QED
    BY <2>1
<1>14. ASSUME NEW key \in Keys
       PROVE  \E n \in Onto : /\ c[n] = LeafFor(key)
                              /\ \A m \in Onto : m < n => \A k \in KeysOf(m) : k < key
  <2>1. key \in Int
    BY TreeAssumption
  <2>2. PICK n \in 0 .. N : c[n] = own[0][key]
    BY <1>2, <2>1
  <2>3. n \in Onto /\ c[n] = LeafFor(key) /\ c[n] # No
    BY <1>2, <1>3, <2>1, <2>2
  <2> HIDE DEF Onto
  <2>4. ASSUME NEW m \in Onto, m < n, NEW k \in KeysOf(m) PROVE k < key
    <3>1. m \in 0 .. N /\ c[m] \in leaf /\ c[m] # No
      BY <1>7
    <3>2. k \in Int /\ own[0][k] = c[m]
      BY <1>6, <3>1
    <3> QED
      BY <1>2, <2>1, <2>2, <2>3, <2>4, <3>1, <3>2
  <2> QED
    BY <2>3, <2>4
<1> QED
  <2> HIDE DEF Onto
  <2>1. Onto = {n \in DOMAIN c : c[n] # No}
    BY DEF Onto
  <2> QED
    BY <1>1, <1>9, <1>10, <1>11, <1>12, <1>13, <1>14, <2>1 DEF SearchAgrees, c

-----------------------------------------------------------------------------
(* Keys inserted, removed and divided *)

LEMMA AscendingInserted ==
  ASSUME NEW keys \in Seq(Int), Ascending(keys), NEW c \in 0 .. Len(keys), NEW key \in Int,
         \A i \in DOMAIN keys : (i <= c => keys[i] < key) /\ (i > c => keys[i] > key)
  PROVE  /\ Ascending(InsertAt(keys, c + 1, key))
         /\ \A k \in Int :
              /\ k < key => UpTo(keys, k) <= c /\ UpTo(InsertAt(keys, c + 1, key), k) = UpTo(keys, k)
              /\ k >= key => /\ UpTo(keys, k) >= c
                             /\ UpTo(InsertAt(keys, c + 1, key), k) = UpTo(keys, k) + 1
<1> DEFINE N == Len(keys)
           r == InsertAt(keys, c + 1, key)
<1>1. /\ N \in Nat /\ c \in Nat /\ c <= N /\ DOMAIN keys = 1 .. N
      /\ \A i \in 1 .. N : keys[i] \in Int
  OBVIOUS
<1>2. /\ r \in Seq(Int) /\ Len(r) = N + 1 /\ DOMAIN r = 1 .. N + 1
      /\ \A i \in 1 .. N + 1 : /\ i < c + 1 => r[i] = keys[i]
                               /\ i = c + 1 => r[i] = key
                               /\ i > c + 1 => r[i] = keys[i - 1]
  <2>1. r \in Seq(Int) /\ IsInserted(r, keys, c, key)
    BY InsertedAfter
  <2> HIDE DEF r
  <2> QED
    BY <2>1 DEF IsInserted
<1> HIDE DEF r
<1>3. \A i \in 1 .. N : (i <= c => keys[i] < key) /\ (i > c => keys[i] > key)
  BY <1>1
<1>4. \A i, j \in 1 .. N : i < j => keys[i] < keys[j]
  BY <1>1 DEF Ascending
<1>5. /\ \A i \in 1 .. c : i \in 1 .. N /\ r[i] = keys[i]
      /\ r[c + 1] = key
      /\ \A i \in c + 2 .. N + 1 : i - 1 \in 1 .. N /\ i - 1 > c /\ r[i] = keys[i - 1]
      /\ \A i \in 1 .. N + 1 : i \in 1 .. c \/ i = c + 1 \/ i \in c + 2 .. N + 1
  <2>1. \A i \in 1 .. c : i \in 1 .. N + 1 /\ i \in 1 .. N /\ i < c + 1
    BY <1>1
  <2>2. c + 1 \in 1 .. N + 1 /\ ~(c + 1 < c + 1)
    BY <1>1
  <2>3. \A i \in c + 2 .. N + 1 : i \in 1 .. N + 1 /\ i - 1 \in 1 .. N /\ i - 1 > c /\ i > c + 1
    BY <1>1
  <2>4. \A i \in 1 .. N + 1 : i \in 1 .. c \/ i = c + 1 \/ i \in c + 2 .. N + 1
    BY <1>1
  <2> QED
    BY <1>2, <2>1, <2>2, <2>3, <2>4
<1>6. ASSUME NEW i \in 1 .. N + 1, NEW j \in 1 .. N + 1, i < j PROVE r[i] < r[j]
  <2>1. CASE i \in 1 .. c
    <3>1. i \in 1 .. N /\ r[i] = keys[i] /\ keys[i] < key
      BY <1>1, <1>3, <1>5, <2>1
    <3>2. CASE j \in 1 .. c
      BY <1>4, <1>5, <1>6, <3>1, <3>2
    <3>3. CASE j = c + 1
      BY <1>5, <3>1, <3>3
    <3>4. CASE j \in c + 2 .. N + 1
      <4>1. j - 1 \in 1 .. N /\ r[j] = keys[j - 1] /\ key < keys[j - 1]
        BY <1>3, <1>5, <3>4
      <4>2. keys[i] \in Int /\ keys[j - 1] \in Int
        BY <1>1, <3>1, <4>1
      <4> QED
        BY <3>1, <4>1, <4>2
    <3> QED
      BY <1>5, <3>2, <3>3, <3>4
  <2>2. CASE i = c + 1
    <3>1. j \in c + 2 .. N + 1
      BY <1>1, <1>6, <2>2
    <3> QED
      BY <1>3, <1>5, <2>2, <3>1
  <2>3. CASE i \in c + 2 .. N + 1
    <3>1. j \in c + 2 .. N + 1 /\ i - 1 < j - 1
      BY <1>1, <1>6, <2>3
    <3> QED
      BY <1>4, <1>5, <2>3, <3>1
  <2> QED
    BY <1>5, <2>1, <2>2, <2>3
<1>7. ASSUME NEW k \in Int
      PROVE  /\ k < key => UpTo(keys, k) <= c /\ UpTo(r, k) = UpTo(keys, k)
             /\ k >= key => UpTo(keys, k) >= c /\ UpTo(r, k) = UpTo(keys, k) + 1
  <2> DEFINE u == UpTo(keys, k)
  <2>1. u \in 0 .. N /\ \A i \in 1 .. N : keys[i] <= k <=> i <= u
    BY <1>1, PositionUpTo
  <2> HIDE DEF u
  <2>2. CASE k < key
    <3>1. u <= c
      <4> SUFFICES ASSUME u > c PROVE FALSE
        BY <1>1, <2>1
      <4>1. u \in 1 .. N /\ keys[u] \in Int
        BY <1>1, <2>1
      <4> QED
        BY <1>3, <2>1, <2>2, <4>1
    <3>2. u \in 0 .. N + 1
      BY <1>1, <2>1
    <3>3. ASSUME NEW i \in 1 .. N + 1 PROVE r[i] <= k <=> i <= u
      <4>1. CASE i \in 1 .. c
        BY <1>5, <2>1, <4>1
      <4>2. CASE i = c + 1
        BY <1>1, <1>5, <2>1, <2>2, <3>1, <4>2
      <4>3. CASE i \in c + 2 .. N + 1
        <5>1. i - 1 \in 1 .. N /\ r[i] = keys[i - 1] /\ keys[i - 1] > key /\ keys[i - 1] \in Int
          BY <1>1, <1>3, <1>5, <4>3
        <5> QED
          BY <1>1, <2>1, <2>2, <3>1, <4>3, <5>1
      <4> QED
        BY <1>5, <4>1, <4>2, <4>3
    <3>4. UpTo(r, k) = u
      BY <1>2, <3>2, <3>3, PositionIs
    <3> QED
      BY <2>2, <3>1, <3>4 DEF u
  <2>3. CASE k >= key
    <3>1. u >= c
      <4>1. CASE c = 0
        BY <2>1, <4>1
      <4>2. CASE c # 0
        <5>1. c \in 1 .. N /\ keys[c] < key /\ keys[c] \in Int
          BY <1>1, <1>3, <4>2
        <5>2. keys[c] <= k
          BY <2>3, <5>1
        <5> QED
          BY <1>1, <2>1, <5>1, <5>2
      <4> QED
        BY <4>1, <4>2
    <3>2. u + 1 \in 0 .. N + 1
      BY <1>1, <2>1
    <3>3. ASSUME NEW i \in 1 .. N + 1 PROVE r[i] <= k <=> i <= u + 1
      <4>1. CASE i \in 1 .. c
        <5>1. r[i] = keys[i] /\ keys[i] < key /\ keys[i] \in Int
          BY <1>1, <1>3, <1>5, <4>1
        <5> QED
          BY <1>1, <2>1, <2>3, <3>1, <4>1, <5>1
      <4>2. CASE i = c + 1
        BY <1>1, <1>5, <2>1, <2>3, <3>1, <4>2
      <4>3. CASE i \in c + 2 .. N + 1
        <5>1. i - 1 \in 1 .. N /\ r[i] = keys[i - 1]
          BY <1>5, <4>3
        <5>2. i - 1 <= u <=> i <= u + 1
          BY <1>1, <2>1
        <5> QED
          BY <2>1, <5>1, <5>2
      <4> QED
        BY <1>5, <4>1, <4>2, <4>3
    <3>4. UpTo(r, k) = u + 1
      BY <1>2, <3>2, <3>3, PositionIs
    <3> QED
      BY <2>3, <3>1, <3>4 DEF u
  <2> QED
    BY <2>2, <2>3
<1> QED
  BY <1>2, <1>6, <1>7 DEF r, Ascending

LEMMA AscendingRemoved ==
  ASSUME NEW keys \in Seq(Int), Ascending(keys), NEW i \in 1 .. Len(keys)
  PROVE  Ascending(RemoveAt(keys, i))
<1> DEFINE N == Len(keys)
           r == RemoveAt(keys, i)
<1>1. N \in Nat /\ DOMAIN keys = 1 .. N /\ i \in Nat
  OBVIOUS
<1>2. DOMAIN r = 1 .. N - 1 /\ \A k \in 1 .. N - 1 : r[k] = IF k < i THEN keys[k] ELSE keys[k + 1]
  BY RemovedAt
<1> HIDE DEF r
<1>3. ASSUME NEW a \in 1 .. N - 1, NEW b \in 1 .. N - 1, a < b PROVE r[a] < r[b]
  <2> DEFINE x == IF a < i THEN a ELSE a + 1
             y == IF b < i THEN b ELSE b + 1
  <2>1. x \in 1 .. N /\ y \in 1 .. N /\ x < y
    BY <1>1, <1>3
  <2>2. r[a] = keys[x] /\ r[b] = keys[y]
    BY <1>2
  <2> HIDE DEF x, y
  <2> QED
    BY <1>1, <2>1, <2>2 DEF Ascending
<1> QED
  BY <1>2, <1>3 DEF Ascending, r

\* The keys before place m + 1 and those after it.
LEMMA AscendingDivided ==
  ASSUME NEW keys \in Seq(Int), Ascending(keys), NEW m \in 0 .. Len(keys), m < Len(keys),
         NEW n \in {m + 1, m + 2}
  PROVE  /\ Ascending(SubSeq(keys, 1, m)) /\ Ascending(SubSeq(keys, n, Len(keys)))
         /\ \A k \in Int :
              /\ k < keys[m + 1] => UpTo(SubSeq(keys, 1, m), k) = UpTo(keys, k)
              /\ k >= keys[m + 1] => /\ UpTo(keys, k) >= m + 1
                                     /\ UpTo(SubSeq(keys, m + 2, Len(keys)), k) = UpTo(keys, k) - (m + 1)
<1> DEFINE N == Len(keys)
<1>1. /\ N \in Nat /\ m \in Nat /\ m < N /\ DOMAIN keys = 1 .. N
      /\ \A i \in 1 .. N : keys[i] \in Int
  OBVIOUS
<1>2. \A i, j \in 1 .. N : i < j => keys[i] < keys[j]
  BY <1>1 DEF Ascending
<1> HIDE DEF N
<1> DEFINE a == SubSeq(keys, 1, m)
           b == SubSeq(keys, n, Len(keys))
           d == SubSeq(keys, m + 2, Len(keys))
<1>3. a \in Seq(Int) /\ IsPart(a, keys, 0, m)
  BY FirstPart
<1>4. b \in Seq(Int) /\ IsPart(b, keys, n - 1, N - (n - 1))
  <2>1. n - 1 \in 0 .. Len(keys) /\ n = (n - 1) + 1
    BY <1>1 DEF N
  <2> QED
    BY <2>1, RestPart DEF N
<1>5. d \in Seq(Int) /\ IsPart(d, keys, m + 1, N - (m + 1))
  <2>1. m + 1 \in 0 .. Len(keys) /\ m + 2 = (m + 1) + 1
    BY <1>1 DEF N
  <2> QED
    BY <2>1, RestPart DEF N
<1> HIDE DEF a, b, d
<1>6. Ascending(a)
  <2>1. \A i \in 1 .. m : i \in 1 .. N /\ 0 + i = i
    BY <1>1
  <2> QED
    BY <1>2, <1>3, <2>1 DEF Ascending, IsPart
<1>7. Ascending(b)
  <2>1. ASSUME NEW i \in DOMAIN b, NEW j \in DOMAIN b, i < j PROVE b[i] < b[j]
    <3>1. i \in 1 .. N - (n - 1) /\ j \in 1 .. N - (n - 1)
      BY <1>4 DEF IsPart
    <3>2. (n - 1) + i \in 1 .. N /\ (n - 1) + j \in 1 .. N /\ (n - 1) + i < (n - 1) + j
      BY <1>1, <2>1, <3>1
    <3> QED
      BY <1>2, <1>4, <3>1, <3>2 DEF IsPart
  <2> QED
    BY <2>1 DEF Ascending
<1>8. ASSUME NEW k \in Int
      PROVE  /\ k < keys[m + 1] => UpTo(a, k) = UpTo(keys, k)
             /\ k >= keys[m + 1] => UpTo(keys, k) >= m + 1 /\ UpTo(d, k) = UpTo(keys, k) - (m + 1)
  <2> DEFINE u == UpTo(keys, k)
  <2>1. u \in 0 .. N /\ \A i \in 1 .. N : keys[i] <= k <=> i <= u
    BY <1>1, PositionUpTo DEF N
  <2> HIDE DEF u
  <2>2. m + 1 \in 1 .. N /\ keys[m + 1] \in Int
    BY <1>1
  <2>3. CASE k < keys[m + 1]
    <3>1. u \in 0 .. m
      BY <1>1, <2>1, <2>2, <2>3
    <3>2. \A i \in DOMAIN a : a[i] <= k <=> i <= u
      <4>1. \A i \in 1 .. m : i \in 1 .. N /\ 0 + i = i
        BY <1>1
      <4> QED
        BY <1>3, <2>1, <4>1 DEF IsPart
    <3>3. UpTo(a, k) = u
      BY <1>3, <3>1, <3>2, PositionIs DEF IsPart
    <3> QED
      BY <2>2, <2>3, <3>3 DEF u
  <2>4. CASE k >= keys[m + 1]
    <3>1. u >= m + 1 /\ u - (m + 1) \in 0 .. N - (m + 1)
      BY <1>1, <2>1, <2>2, <2>4
    <3>2. ASSUME NEW i \in DOMAIN d PROVE d[i] <= k <=> i <= u - (m + 1)
      <4>1. i \in 1 .. N - (m + 1) /\ d[i] = keys[(m + 1) + i]
        BY <1>5 DEF IsPart
      <4>2. (m + 1) + i \in 1 .. N /\ ((m + 1) + i <= u <=> i <= u - (m + 1))
        BY <1>1, <2>1, <4>1
      <4> QED
        BY <2>1, <4>1, <4>2
    <3>3. UpTo(d, k) = u - (m + 1)
      BY <1>5, <3>1, <3>2, PositionIs DEF IsPart
    <3> QED
      BY <2>2, <2>4, <3>1, <3>3 DEF u
  <2> QED
    BY <2>2, <2>3, <2>4
<1> QED
  BY <1>6, <1>7, <1>8 DEF a, b, d, N

-----------------------------------------------------------------------------
(* Leaves *)

Holds(n, e) == \E i \in DOMAIN n.keys : e = <<n.keys[i], n.rids[i]>>

LEMMA LeafShape ==
  ASSUME NEW n, NEW p, NEW f, NEW room, LeafOn(n, p, f, room)
  PROVE  /\ n.keys \in Seq(Keys) /\ n.keys \in Seq(Int) /\ n.rids \in Seq(Rids) /\ n.next \in Int
         /\ Len(n.keys) \in Nat /\ Len(n.rids) = Len(n.keys) /\ Len(n.keys) <= room
         /\ DOMAIN n.keys = 1 .. Len(n.keys) /\ DOMAIN n.rids = 1 .. Len(n.keys)
         /\ Ascending(n.keys)
         /\ \A i \in DOMAIN n.keys :
              n.keys[i] \in Keys /\ n.keys[i] \in Int /\ n.rids[i] \in Rids /\ f[n.keys[i]] = p
<1>1. n \in LeafNode
  BY DEF LeafOn
<1>2. n.keys \in Seq(Keys) /\ n.rids \in Seq(Rids) /\ n.next \in Int
  BY <1>1 DEF LeafNode
<1>3. /\ Len(n.rids) = Len(n.keys) /\ Len(n.keys) <= room /\ Ascending(n.keys)
      /\ \A i \in DOMAIN n.keys : f[n.keys[i]] = p
  BY DEF LeafOn
<1>4. /\ n.keys \in Seq(Int) /\ Len(n.keys) \in Nat /\ DOMAIN n.keys = 1 .. Len(n.keys)
      /\ \A i \in DOMAIN n.keys : n.keys[i] \in Keys /\ n.keys[i] \in Int
  BY <1>2, KeySeq
<1>5. DOMAIN n.rids = 1 .. Len(n.rids) /\ \A i \in DOMAIN n.rids : n.rids[i] \in Rids
  BY <1>2
<1> QED
  BY <1>2, <1>3, <1>4, <1>5

\* A leaf put together from keys and row ids.
LEMMA LeafMade ==
  ASSUME NEW p, NEW f, NEW room, NEW keys \in Seq(Keys), NEW rids \in Seq(Rids), NEW next \in Int,
         Len(rids) = Len(keys), Len(keys) <= room, Ascending(keys),
         \A i \in DOMAIN keys : f[keys[i]] = p
  PROVE  LeafOn(Leaf(keys, rids, next), p, f, room)
<1> DEFINE m == Leaf(keys, rids, next)
<1>1. m.keys = keys /\ m.rids = rids /\ m.next = next
  BY DEF Leaf
<1>2. m \in LeafNode
  BY DEF Leaf, LeafNode
<1> HIDE DEF m
<1>3. LeafOn(m, p, f, room)
  BY <1>1, <1>2 DEF LeafOn
<1> QED
  BY <1>3 DEF m

\* Where a key is looked for: the keys before are less, and the one there, or
\* else none, is the key.
LEMMA LeafPosition ==
  ASSUME NEW n, NEW p, NEW f, NEW room, LeafOn(n, p, f, room), NEW key \in Int
  PROVE  LET c == leaf_find_position(n, key) IN
         /\ c \in 0 .. Len(n.keys)
         /\ \A i \in DOMAIN n.keys : (i <= c => n.keys[i] < key) /\ (i > c + 1 => n.keys[i] > key)
         /\ Has(n, key) => c + 1 \in DOMAIN n.keys /\ n.keys[c + 1] = key
         /\ ~Has(n, key) => \A i \in DOMAIN n.keys : i > c => n.keys[i] > key
<1> DEFINE c == leaf_find_position(n, key)
           keys == n.keys
<1>1. /\ keys \in Seq(Int) /\ Len(keys) \in Nat /\ DOMAIN keys = 1 .. Len(keys) /\ Ascending(keys)
      /\ \A i \in DOMAIN keys : keys[i] \in Int
  BY LeafShape
<1>2. c = Below(keys, key)
  BY DEF leaf_find_position, Below
<1>3. Has(n, key) <=> c < Len(keys) /\ keys[c + 1] = key
  BY DEF Has
<1> HIDE DEF c, keys
<1>4. c \in 0 .. Len(keys) /\ \A i \in DOMAIN keys : keys[i] < key <=> i <= c
  BY <1>1, <1>2, PositionBelow
<1>5. ASSUME NEW i \in DOMAIN keys, i > c + 1 PROVE keys[i] > key
  <2>1. c + 1 \in DOMAIN keys /\ ~(c + 1 <= c)
    BY <1>1, <1>4, <1>5
  <2>2. keys[c + 1] < keys[i] /\ ~(keys[c + 1] < key)
    BY <1>1, <1>4, <1>5, <2>1 DEF Ascending
  <2> QED
    BY <1>1, <2>1, <2>2
<1>6. ASSUME Has(n, key) PROVE c + 1 \in DOMAIN keys /\ keys[c + 1] = key
  BY <1>1, <1>3, <1>4, <1>6
<1>7. ASSUME ~Has(n, key), NEW i \in DOMAIN keys, i > c PROVE keys[i] > key
  <2>1. CASE i > c + 1
    BY <1>5, <2>1
  <2>2. CASE i = c + 1
    <3>1. c < Len(keys) /\ ~(i <= c)
      BY <1>1, <1>4, <2>2
    <3>2. keys[i] # key /\ ~(keys[i] < key)
      BY <1>3, <1>4, <1>7, <2>2, <3>1
    <3> QED
      BY <1>1, <3>2
  <2> QED
    BY <1>1, <1>4, <1>7, <2>1, <2>2
<1> QED
  BY <1>4, <1>5, <1>6, <1>7 DEF c, keys

\* leaf_insert of a key that is not there.
LEMMA LeafInserted ==
  ASSUME NEW n, NEW p, NEW f, NEW room \in Nat, LeafOn(n, p, f, room),
         NEW key \in Keys, f[key] = p, ~Has(n, key), NEW rid \in Rids
  PROVE  LET m == leaf_insert(n, leaf_find_position(n, key), key, rid) IN
         /\ \A r \in Nat : Len(n.keys) < r => LeafOn(m, p, f, r)
         /\ Len(m.keys) = Len(n.keys) + 1 /\ m.next = n.next
         /\ \A i \in DOMAIN n.keys : n.keys[i] # key
         /\ \A e : Holds(m, e) <=> e = <<key, rid>> \/ Holds(n, e)
<1> DEFINE c == leaf_find_position(n, key)
           keys == n.keys
           rids == n.rids
           N == Len(keys)
           K == InsertAt(keys, c + 1, key)
           R == InsertAt(rids, c + 1, rid)
           m == leaf_insert(n, c, key, rid)
<1>1. /\ keys \in Seq(Keys) /\ keys \in Seq(Int) /\ rids \in Seq(Rids) /\ n.next \in Int
      /\ N \in Nat /\ Len(rids) = N /\ DOMAIN keys = 1 .. N /\ DOMAIN rids = 1 .. N /\ Ascending(keys)
      /\ \A i \in DOMAIN keys : keys[i] \in Int /\ f[keys[i]] = p
  BY LeafShape
<1>2. key \in Int
  BY TreeAssumption
<1>3. /\ c \in 0 .. N
      /\ \A i \in DOMAIN keys : (i <= c => keys[i] < key) /\ (i > c => keys[i] > key)
  BY <1>2, LeafPosition
<1> HIDE DEF c, keys, rids
<1>4. c + 1 \in 1 .. N + 1
  BY <1>1, <1>3
<1>5. /\ K \in Seq(Keys) /\ Len(K) = N + 1 /\ DOMAIN K = 1 .. N + 1 /\ K[c + 1] = key
      /\ \A k \in 1 .. N + 1 : (k < c + 1 => K[k] = keys[k]) /\ (k > c + 1 => K[k] = keys[k - 1])
  <2>1. K \in Seq(Keys) /\ IsInserted(K, keys, c, key)
    BY <1>1, <1>3, InsertedAfter
  <2> HIDE DEF K
  <2> QED
    BY <2>1 DEF IsInserted
<1>6. /\ R \in Seq(Rids) /\ Len(R) = N + 1 /\ R[c + 1] = rid
      /\ \A k \in 1 .. N + 1 : (k < c + 1 => R[k] = rids[k]) /\ (k > c + 1 => R[k] = rids[k - 1])
  <2>1. c \in 0 .. Len(rids)
    BY <1>1, <1>3
  <2>2. R \in Seq(Rids) /\ IsInserted(R, rids, c, rid)
    BY <1>1, <2>1, InsertedAfter
  <2> HIDE DEF R
  <2> QED
    BY <1>1, <2>2 DEF IsInserted
<1>7. Ascending(K)
  BY <1>1, <1>2, <1>3, AscendingInserted
<1>8. m = Leaf(K, R, n.next)
  BY DEF leaf_insert, keys, rids
<1> HIDE DEF K, R, m, N
<1>9. \A i \in 1 .. N + 1 : \/ i < c + 1 /\ i \in 1 .. N
                            \/ i = c + 1
                            \/ i > c + 1 /\ i - 1 \in 1 .. N
  BY <1>1, <1>3
<1>10. ASSUME NEW i \in DOMAIN K PROVE f[K[i]] = p
  <2>1. K[i] = key \/ \E j \in DOMAIN keys : K[i] = keys[j]
    BY <1>1, <1>5, <1>9
  <2> QED
    BY <1>1, <2>1
<1>11. ASSUME NEW r \in Nat, N < r
       PROVE  LeafOn(m, p, f, r) /\ m.keys = K /\ m.rids = R /\ m.next = n.next
  <2>1. Len(K) <= r /\ Len(R) = Len(K) /\ n.next \in Int
    BY <1>1, <1>5, <1>6, <1>11
  <2>2. LeafOn(Leaf(K, R, n.next), p, f, r)
    BY <1>5, <1>6, <1>7, <1>10, <2>1, LeafMade
  <2> QED
    BY <1>8, <2>2 DEF Leaf
<1>12. m.keys = K /\ m.rids = R /\ m.next = n.next
  <2>1. N < N + 1 /\ N + 1 \in Nat
    BY <1>1
  <2> QED
    BY <1>11, <2>1
<1>13. \A i \in DOMAIN keys : keys[i] # key
  BY <1>1, <1>2, <1>3
<1>14. ASSUME NEW e PROVE Holds(m, e) <=> e = <<key, rid>> \/ Holds(n, e)
  <2>1. ASSUME NEW i \in 1 .. N + 1, e = <<K[i], R[i]>>
        PROVE  e = <<key, rid>> \/ \E j \in 1 .. N : e = <<keys[j], rids[j]>>
    BY <1>5, <1>6, <1>9, <2>1
  <2>2. ASSUME e = <<key, rid>> PROVE \E i \in 1 .. N + 1 : e = <<K[i], R[i]>>
    <3>1. c + 1 \in 1 .. N + 1
      BY <1>4 DEF N
    <3> QED
      BY <1>5, <1>6, <2>2, <3>1
  <2>3. ASSUME NEW j \in 1 .. N, e = <<keys[j], rids[j]>> PROVE \E i \in 1 .. N + 1 : e = <<K[i], R[i]>>
    <3>1. CASE j < c + 1
      <4>1. j \in 1 .. N + 1
        BY <1>1
      <4> QED
        BY <1>5, <1>6, <2>3, <3>1, <4>1
    <3>2. CASE ~(j < c + 1)
      <4>1. j + 1 \in 1 .. N + 1 /\ j + 1 > c + 1 /\ (j + 1) - 1 = j
        BY <1>1, <1>3, <3>2
      <4> QED
        BY <1>5, <1>6, <2>3, <4>1
    <3> QED
      BY <3>1, <3>2
  <2> QED
    BY <1>1, <1>5, <1>12, <2>1, <2>2, <2>3 DEF Holds, keys, rids
<1> QED
  BY <1>5, <1>11, <1>12, <1>13, <1>14 DEF m, c, keys, N

\* leaf_remove of a key that is there.
LEMMA LeafRemoved ==
  ASSUME NEW n, NEW p, NEW f, NEW room \in Nat, LeafOn(n, p, f, room), NEW key \in Keys, Has(n, key)
  PROVE  LET m == leaf_remove(n, leaf_find_position(n, key)) IN
         /\ LeafOn(m, p, f, room) /\ m.next = n.next
         /\ \A e : Holds(m, e) <=> Holds(n, e) /\ e[1] # key
<1> DEFINE c == leaf_find_position(n, key)
           keys == n.keys
           rids == n.rids
           N == Len(keys)
           K == RemoveAt(keys, c + 1)
           R == RemoveAt(rids, c + 1)
           m == leaf_remove(n, c)
<1>1. /\ keys \in Seq(Keys) /\ keys \in Seq(Int) /\ rids \in Seq(Rids) /\ n.next \in Int
      /\ N \in Nat /\ Len(rids) = N /\ DOMAIN keys = 1 .. N /\ DOMAIN rids = 1 .. N /\ Ascending(keys)
      /\ N <= room /\ \A i \in DOMAIN keys : keys[i] \in Int /\ f[keys[i]] = p
  BY LeafShape
<1>2. key \in Int
  BY TreeAssumption
<1>3. /\ c \in 0 .. N /\ c + 1 \in DOMAIN keys /\ keys[c + 1] = key
      /\ \A i \in DOMAIN keys : (i <= c => keys[i] < key) /\ (i > c + 1 => keys[i] > key)
  BY <1>2, LeafPosition
<1> HIDE DEF c, keys, rids
<1>4. c + 1 \in 1 .. N /\ c + 1 \in 1 .. Len(rids)
  BY <1>1, <1>3
<1>5. /\ K \in Seq(Keys) /\ Len(K) = N - 1 /\ DOMAIN K = 1 .. N - 1
      /\ \A k \in 1 .. N - 1 : K[k] = IF k < c + 1 THEN keys[k] ELSE keys[k + 1]
  BY <1>1, <1>4, RemovedAt
<1>6. /\ R \in Seq(Rids) /\ Len(R) = N - 1
      /\ \A k \in 1 .. N - 1 : R[k] = IF k < c + 1 THEN rids[k] ELSE rids[k + 1]
  BY <1>1, <1>4, RemovedAt
<1>7. Ascending(K)
  BY <1>1, <1>4, AscendingRemoved
<1>8. m = Leaf(K, R, n.next)
  BY DEF leaf_remove, keys, rids
<1> HIDE DEF K, R, m, N
<1>9. ASSUME NEW i \in 1 .. N - 1
      PROVE  \E j \in 1 .. N : j # c + 1 /\ K[i] = keys[j] /\ R[i] = rids[j]
  <2> DEFINE j == IF i < c + 1 THEN i ELSE i + 1
  <2>1. j \in 1 .. N /\ j # c + 1
    BY <1>1, <1>3
  <2>2. K[i] = keys[j] /\ R[i] = rids[j]
    BY <1>5, <1>6
  <2> QED
    BY <2>1, <2>2
<1>10. ASSUME NEW i \in DOMAIN K PROVE f[K[i]] = p
  <2>1. \E j \in DOMAIN keys : K[i] = keys[j]
    BY <1>1, <1>5, <1>9
  <2> QED
    BY <1>1, <2>1
<1>11. LeafOn(m, p, f, room) /\ m.keys = K /\ m.rids = R /\ m.next = n.next
  <2>1. Len(K) <= room /\ Len(R) = Len(K) /\ n.next \in Int
    BY <1>1, <1>5, <1>6
  <2>2. LeafOn(Leaf(K, R, n.next), p, f, room)
    BY <1>5, <1>6, <1>7, <1>10, <2>1, LeafMade
  <2> QED
    BY <1>8, <2>2 DEF Leaf
<1>12. ASSUME NEW e PROVE Holds(m, e) <=> Holds(n, e) /\ e[1] # key
  <2>1. ASSUME NEW i \in 1 .. N - 1, e = <<K[i], R[i]>>
        PROVE  e[1] # key /\ \E j \in 1 .. N : e = <<keys[j], rids[j]>>
    <3>1. PICK j \in 1 .. N : j # c + 1 /\ K[i] = keys[j] /\ R[i] = rids[j]
      BY <1>9
    <3>2. j <= c \/ j > c + 1
      BY <1>3, <3>1
    <3>3. keys[j] # key
      BY <1>1, <1>2, <1>3, <3>2
    <3> QED
      BY <2>1, <3>1, <3>3
  <2>2. ASSUME NEW j \in 1 .. N, e = <<keys[j], rids[j]>>, e[1] # key
        PROVE  \E i \in 1 .. N - 1 : e = <<K[i], R[i]>>
    <3>1. j # c + 1
      BY <1>3, <2>2
    <3>2. CASE j < c + 1
      <4>1. j \in 1 .. N - 1
        BY <1>1, <1>4, <3>2
      <4> QED
        BY <1>5, <1>6, <2>2, <3>2, <4>1
    <3>3. CASE j > c + 1
      <4>1. j - 1 \in 1 .. N - 1 /\ ~(j - 1 < c + 1) /\ (j - 1) + 1 = j
        BY <1>1, <1>3, <3>3
      <4> QED
        BY <1>5, <1>6, <2>2, <4>1
    <3> QED
      BY <1>3, <3>1, <3>2, <3>3
  <2> QED
    BY <1>1, <1>5, <1>11, <2>1, <2>2 DEF Holds, keys, rids
<1> QED
  BY <1>11, <1>12 DEF m, c

\* leaf_set_rid of a key that is there.
LEMMA LeafRidSet ==
  ASSUME NEW n, NEW p, NEW f, NEW room \in Nat, LeafOn(n, p, f, room), NEW key \in Keys, Has(n, key),
         NEW rid \in Rids
  PROVE  LET m == leaf_set_rid(n, leaf_find_position(n, key), rid) IN
         /\ LeafOn(m, p, f, room) /\ m.keys = n.keys /\ m.next = n.next
         /\ \A e : Holds(m, e) <=> e = <<key, rid>> \/ (Holds(n, e) /\ e[1] # key)
<1> DEFINE c == leaf_find_position(n, key)
           keys == n.keys
           rids == n.rids
           R == [rids EXCEPT ![c + 1] = rid]
           m == leaf_set_rid(n, c, rid)
<1>1. /\ keys \in Seq(Keys) /\ rids \in Seq(Rids) /\ n.next \in Int
      /\ Len(keys) \in Nat /\ Len(rids) = Len(keys)
      /\ DOMAIN keys = 1 .. Len(keys) /\ DOMAIN rids = 1 .. Len(keys) /\ Ascending(keys)
      /\ Len(keys) <= room /\ \A i \in DOMAIN keys : keys[i] \in Int /\ f[keys[i]] = p
  BY LeafShape
<1>2. key \in Int
  BY TreeAssumption
<1>3. /\ c \in 0 .. Len(keys) /\ c + 1 \in DOMAIN keys /\ keys[c + 1] = key
      /\ \A i \in DOMAIN keys : (i <= c => keys[i] < key) /\ (i > c + 1 => keys[i] > key)
  BY <1>2, LeafPosition
<1> HIDE DEF c, keys, rids
<1>4. R \in Seq(Rids) /\ Len(R) = Len(keys) /\ \A i \in DOMAIN keys : R[i] = IF i = c + 1 THEN rid ELSE rids[i]
  BY <1>1, <1>3, ExceptSeq
<1>5. m = Leaf(keys, R, n.next)
  BY DEF leaf_set_rid, keys, rids
<1> HIDE DEF R, m
<1>6. LeafOn(m, p, f, room) /\ m.keys = keys /\ m.rids = R /\ m.next = n.next
  <2>1. LeafOn(Leaf(keys, R, n.next), p, f, room)
    BY <1>1, <1>4, LeafMade
  <2> QED
    BY <1>5, <2>1 DEF Leaf
<1>7. \A i \in DOMAIN keys : keys[i] = key <=> i = c + 1
  <2>1. \A i \in DOMAIN keys : i <= c \/ i = c + 1 \/ i > c + 1
    BY <1>1, <1>3
  <2> QED
    BY <1>1, <1>2, <1>3, <2>1
<1>8. ASSUME NEW e PROVE Holds(m, e) <=> e = <<key, rid>> \/ (Holds(n, e) /\ e[1] # key)
  <2>1. Holds(m, e) <=> \E i \in DOMAIN keys : e = <<keys[i], R[i]>>
    BY <1>6 DEF Holds
  <2>2. Holds(n, e) <=> \E i \in DOMAIN keys : e = <<keys[i], rids[i]>>
    BY DEF Holds, keys, rids
  <2> QED
    BY <1>3, <1>4, <1>7, <2>1, <2>2
<1> QED
  BY <1>6, <1>8 DEF m, c, keys

\* A number is halved.
LEMMA Middle ==
  ASSUME NEW n \in Nat, n >= 2
  PROVE  n \div 2 \in Nat /\ n \div 2 >= 1 /\ n \div 2 + 1 <= n
OBVIOUS

\* split_leaf: the entries go to the two halves, and the first key of the upper
\* one divides the range.
LeafDivided(n, a, b, p, f, s, r) ==
  /\ s \in Keys /\ f[s] = p /\ f[s - 1] = p
  /\ LeafOn(a, p, Divided(f, p, s, r), leaf_max_keys) /\ a.next = r
  /\ LeafOn(b, r, Divided(f, p, s, r), leaf_max_keys) /\ b.next = n.next
  /\ \A e : Holds(n, e) <=> Holds(a, e) \/ Holds(b, e)

LEMMA LeafHalves ==
  ASSUME NEW n, NEW p, NEW f \in [Int -> Nat], Convex(f), LeafOn(n, p, f, leaf_max_keys + 1),
         Len(n.keys) = leaf_max_keys + 1, NEW r \in Nat, \A k \in Int : f[k] # r
  PROVE  LeafDivided(n, LeftLeaf(n, r), RightLeaf(n), p, f, RightLeaf(n).keys[1], r)
<1> DEFINE keys == n.keys
           rids == n.rids
           N == Len(keys)
           mid == N \div 2
           K1 == SubSeq(keys, 1, mid)
           R1 == SubSeq(rids, 1, mid)
           K2 == SubSeq(keys, mid + 1, Len(keys))
           R2 == SubSeq(rids, mid + 1, Len(rids))
           s == keys[mid + 1]
           g == Divided(f, p, s, r)
<1>1. /\ keys \in Seq(Keys) /\ keys \in Seq(Int) /\ rids \in Seq(Rids) /\ n.next \in Int
      /\ N \in Nat /\ Len(rids) = N /\ DOMAIN keys = 1 .. N /\ DOMAIN rids = 1 .. N /\ Ascending(keys)
      /\ \A i \in DOMAIN keys : keys[i] \in Keys /\ keys[i] \in Int /\ f[keys[i]] = p
  BY LeafShape, SMTT(30)
<1>2. mid \in Nat /\ mid >= 1 /\ mid + 1 <= N /\ mid <= leaf_max_keys /\ N - mid <= leaf_max_keys
  <2>1. leaf_max_keys \in Nat /\ leaf_max_keys >= 1 /\ N = leaf_max_keys + 1
    BY TreeAssumption
  <2>2. mid \in Nat /\ mid >= 1 /\ mid + 1 <= N
    <3> HIDE DEF N
    <3>1. N \in Nat /\ N >= 2
      BY <1>1, <2>1
    <3> QED
      BY <3>1, Middle
  <2> HIDE DEF mid, N
  <2> QED
    BY <1>1, <2>1, <2>2
<1>3. LeftLeaf(n, r) = Leaf(K1, R1, r) /\ RightLeaf(n) = Leaf(K2, R2, n.next)
  BY DEF LeftLeaf, RightLeaf, Linked
<1> HIDE DEF keys, rids, mid
<1>4. mid \in 0 .. Len(keys) /\ mid \in 0 .. Len(rids) /\ mid + 1 \in Int /\ mid + 1 = mid + 1
  BY <1>1, <1>2
<1>5. /\ K1 \in Seq(Keys) /\ Len(K1) = mid /\ DOMAIN K1 = 1 .. mid
      /\ \A k \in 1 .. mid : K1[k] = keys[k]
  <2>1. K1 \in Seq(Keys) /\ IsPart(K1, keys, 0, mid)
    BY <1>1, <1>4, FirstPart
  <2> HIDE DEF K1
  <2>2. \A k \in 1 .. mid : 0 + k = k
    OBVIOUS
  <2> QED
    BY <2>1, <2>2 DEF IsPart
<1>6. K2 \in Seq(Keys) /\ IsPart(K2, keys, mid, N - mid)
  BY <1>1, <1>4, RestPart
<1>7. R1 \in Seq(Rids) /\ Len(R1) = mid /\ \A k \in 1 .. mid : R1[k] = rids[k]
  <2>1. R1 \in Seq(Rids) /\ IsPart(R1, rids, 0, mid)
    BY <1>1, <1>4, FirstPart
  <2> HIDE DEF R1
  <2>2. \A k \in 1 .. mid : 0 + k = k
    OBVIOUS
  <2> QED
    BY <2>1, <2>2 DEF IsPart
<1>8. R2 \in Seq(Rids) /\ IsPart(R2, rids, mid, N - mid)
  <2>1. R2 \in Seq(Rids) /\ IsPart(R2, rids, mid, Len(rids) - mid)
    BY <1>1, <1>4, RestPart
  <2> HIDE DEF R2
  <2> QED
    BY <1>1, <2>1
<1>9. Ascending(K1) /\ Ascending(K2)
  <2>1. mid < Len(keys) /\ mid + 1 \in {mid + 1, mid + 2}
    BY <1>1, <1>2
  <2> QED
    BY <1>1, <1>4, <2>1, AscendingDivided
<1> HIDE DEF K1, K2, R1, R2, N
<1>10. /\ \A k \in 1 .. N - mid : mid + k \in 1 .. N
       /\ \A k \in 1 .. mid : k \in 1 .. N /\ k < mid + 1
       /\ 1 \in 1 .. N - mid /\ mid + 1 \in 1 .. N /\ mid \in 1 .. N
  <2>1. N \in Nat /\ mid \in Nat /\ mid >= 1 /\ mid + 1 <= N
    BY <1>1, <1>2
  <2>2. 1 \in 1 .. N - mid /\ mid + 1 \in 1 .. N /\ mid \in 1 .. N
    BY <2>1
  <2>3. \A k \in 1 .. mid : k \in 1 .. N /\ k < mid + 1
    BY <2>1
  <2>4. \A k \in 1 .. N - mid : mid + k \in 1 .. N
    BY <2>1
  <2> QED
    BY <2>2, <2>3, <2>4
<1>11. /\ Len(K2) = N - mid /\ DOMAIN K2 = 1 .. N - mid /\ Len(R2) = N - mid
       /\ \A k \in 1 .. N - mid : K2[k] = keys[mid + k] /\ R2[k] = rids[mid + k]
  BY <1>6, <1>8 DEF IsPart
<1>12. RightLeaf(n).keys[1] = s
  BY <1>3, <1>10, <1>11 DEF Leaf
<1>13. s \in Keys /\ s \in Int /\ f[s] = p /\ f[s - 1] = p
  <2>1. s \in Keys /\ s \in Int /\ f[s] = p
    BY <1>1, <1>10
  <2>2. keys[mid] \in Int /\ f[keys[mid]] = p /\ keys[mid] < s
    <3>1. mid < mid + 1 /\ mid \in DOMAIN keys /\ mid + 1 \in DOMAIN keys
      BY <1>1, <1>2, <1>10
    <3> QED
      BY <1>1, <3>1 DEF Ascending
  <2> HIDE DEF s
  <2>3. s - 1 \in Int /\ keys[mid] <= s - 1 /\ s - 1 <= s
    <3>1. \A x, y \in Int : x < y => y - 1 \in Int /\ x <= y - 1 /\ y - 1 <= y
      OBVIOUS
    <3> QED
      BY <2>1, <2>2, <3>1
  <2> QED
    BY <2>1, <2>2, <2>3 DEF Convex
<1> HIDE DEF s
<1>14. \A k \in Int : /\ f[k] = p /\ k < s => g[k] = p
                      /\ f[k] = p /\ k >= s => g[k] = r
  BY <1>13 DEF Divided
<1> HIDE DEF g
<1>15. ASSUME NEW k \in 1 .. mid PROVE g[K1[k]] = p
  <2>1. K1[k] = keys[k] /\ k \in 1 .. N /\ k < mid + 1
    BY <1>5, <1>10
  <2>2. keys[k] < s /\ keys[k] \in Int /\ f[keys[k]] = p
    BY <1>1, <1>10, <2>1 DEF Ascending, s
  <2> QED
    BY <1>14, <2>1, <2>2
<1>16. ASSUME NEW k \in 1 .. N - mid PROVE g[K2[k]] = r
  <2>1. K2[k] = keys[mid + k] /\ mid + k \in 1 .. N /\ (mid + 1 < mid + k \/ mid + 1 = mid + k)
    BY <1>2, <1>10, <1>11
  <2>2. keys[mid + k] \in Int /\ f[keys[mid + k]] = p /\ (s < keys[mid + k] \/ s = keys[mid + k])
    BY <1>1, <1>10, <2>1 DEF Ascending, s
  <2>3. keys[mid + k] >= s
    <3>1. \A x, y \in Int : x < y \/ x = y => y >= x
      OBVIOUS
    <3> QED
      BY <1>13, <2>2, <3>1
  <2> QED
    BY <1>14, <2>1, <2>2, <2>3
<1>17. LeafOn(LeftLeaf(n, r), p, g, leaf_max_keys)
  <2>1. LeafOn(Leaf(K1, R1, r), p, g, leaf_max_keys)
    <3>1. r \in Int /\ Len(R1) = Len(K1) /\ Len(K1) <= leaf_max_keys
      BY <1>2, <1>5, <1>7
    <3> QED
      BY <1>5, <1>7, <1>9, <1>15, <3>1, LeafMade
  <2> QED
    BY <1>3, <2>1
<1>18. LeafOn(RightLeaf(n), r, g, leaf_max_keys)
  <2>1. LeafOn(Leaf(K2, R2, n.next), r, g, leaf_max_keys)
    <3>1. Len(R2) = Len(K2) /\ Len(K2) <= leaf_max_keys
      BY <1>2, <1>11
    <3> QED
      BY <1>1, <1>6, <1>8, <1>9, <1>11, <1>16, <3>1, LeafMade
  <2> QED
    BY <1>3, <2>1
<1>19. LeftLeaf(n, r).next = r /\ RightLeaf(n).next = n.next
  BY <1>3 DEF Leaf
<1>20. ASSUME NEW e PROVE Holds(n, e) <=> Holds(LeftLeaf(n, r), e) \/ Holds(RightLeaf(n), e)
  <2>1. Holds(n, e) <=> \E i \in 1 .. N : e = <<keys[i], rids[i]>>
    BY <1>1 DEF Holds, keys, rids
  <2>2. Holds(LeftLeaf(n, r), e) <=> \E i \in 1 .. mid : e = <<K1[i], R1[i]>>
    <3>1. LeftLeaf(n, r).keys = K1 /\ LeftLeaf(n, r).rids = R1
      BY <1>3 DEF Leaf
    <3> QED
      BY <1>5, <3>1 DEF Holds
  <2>3. Holds(RightLeaf(n), e) <=> \E i \in 1 .. N - mid : e = <<K2[i], R2[i]>>
    <3>1. RightLeaf(n).keys = K2 /\ RightLeaf(n).rids = R2
      BY <1>3 DEF Leaf
    <3> QED
      BY <1>11, <3>1 DEF Holds
  <2>4. ASSUME NEW i \in 1 .. N, e = <<keys[i], rids[i]>>
        PROVE  Holds(LeftLeaf(n, r), e) \/ Holds(RightLeaf(n), e)
    <3>1. CASE i <= mid
      <4>1. i \in 1 .. mid
        BY <1>2, <3>1
      <4> QED
        BY <1>5, <1>7, <2>2, <2>4, <4>1
    <3>2. CASE ~(i <= mid)
      <4>1. i - mid \in 1 .. N - mid /\ mid + (i - mid) = i
        BY <1>1, <1>2, <3>2
      <4> QED
        BY <1>11, <2>3, <2>4, <4>1
    <3> QED
      BY <3>1, <3>2
  <2>5. ASSUME NEW i \in 1 .. mid, e = <<K1[i], R1[i]>> PROVE Holds(n, e)
    BY <1>5, <1>7, <1>10, <2>1, <2>5
  <2>6. ASSUME NEW i \in 1 .. N - mid, e = <<K2[i], R2[i]>> PROVE Holds(n, e)
    BY <1>10, <1>11, <2>1, <2>6
  <2> QED
    BY <2>1, <2>2, <2>3, <2>4, <2>5, <2>6
<1> QED
  BY <1>12, <1>13, <1>17, <1>18, <1>19, <1>20 DEF g, LeafDivided

-----------------------------------------------------------------------------
(* Internal nodes *)

LEMMA InternalShape ==
  ASSUME NEW n, NEW p, NEW f, NEW below, NEW room, InternalOn(n, p, f, below, room)
  PROVE  /\ n.keys \in Seq(Keys) /\ n.keys \in Seq(Int) /\ n.child \in Seq(Nat)
         /\ Len(n.keys) \in Nat /\ Len(n.child) = Len(n.keys) + 1
         /\ Len(n.keys) >= 1 /\ Len(n.keys) <= room
         /\ DOMAIN n.keys = 1 .. Len(n.keys) /\ Ascending(n.keys)
         /\ \A i \in DOMAIN n.keys : n.keys[i] \in Keys /\ n.keys[i] \in Int
<1>1. n \in InternalNode
  BY DEF InternalOn
<1>2. n.keys \in Seq(Keys) /\ n.child \in Seq(Nat)
  BY <1>1 DEF InternalNode
<1>3. /\ Len(n.keys) >= 1 /\ Len(n.keys) <= room /\ Len(n.child) = Len(n.keys) + 1
      /\ Ascending(n.keys)
  BY DEF InternalOn
<1> QED
  BY <1>2, <1>3, KeySeq

\* An internal node put together from keys and children.
LEMMA InternalMade ==
  ASSUME NEW p, NEW f, NEW below, NEW room, NEW keys \in Seq(Keys), NEW child \in Seq(Nat),
         Len(keys) >= 1, Len(keys) <= room, Len(child) = Len(keys) + 1, Ascending(keys),
         \A i \in DOMAIN keys :
           f[keys[i]] = p /\ f[keys[i] - 1] = p /\ below[keys[i]] # below[keys[i] - 1],
         \A k \in Int : f[k] = p => child[UpTo(keys, k) + 1] = below[k]
  PROVE  InternalOn(Internal(keys, child), p, f, below, room)
<1> DEFINE m == Internal(keys, child)
<1>1. m.keys = keys /\ m.child = child
  BY DEF Internal
<1>2. m \in InternalNode
  BY DEF Internal, InternalNode
<1> HIDE DEF m
<1>3. \A k \in Int : Child(m, k) = child[UpTo(keys, k) + 1]
  BY <1>1 DEF Child, internal_find_position, UpTo
<1>4. InternalOn(m, p, f, below, room)
  BY <1>1, <1>2, <1>3 DEF InternalOn
<1> QED
  BY <1>4 DEF m

\* internal_insert of the key s and the page r to the right of it, after the
\* page below that a descent for key follows was divided at s.
Wider(w, n, p, f, below) ==
  /\ Len(w.keys) = Len(n.keys) + 1
  /\ \A m \in Nat : Len(n.keys) < m => InternalOn(w, p, f, below, m)

LEMMA Widened ==
  ASSUME NEW n, NEW p, NEW f, NEW see \in [Int -> Nat], Convex(see),
         NEW room, InternalOn(n, p, f, see, room),
         \A a, b \in Int : see[a] = see[b] => f[a] = f[b],
         NEW key \in Int, f[key] = p,
         NEW s \in Keys, see[s] = see[key], see[s - 1] = see[key],
         NEW r \in Nat, \A k \in Int : see[k] # r
  PROVE  Wider(internal_insert(n, internal_find_position(n, key), s, r), n, p, f,
               Divided(see, see[key], s, r))
<1> DEFINE keys == n.keys
           child == n.child
           N == Len(keys)
           c == internal_find_position(n, key)
           q == see[key]
           g == Divided(see, q, s, r)
           K == InsertAt(keys, c + 1, s)
           C == InsertAt(child, c + 2, r)
           w == internal_insert(n, c, s, r)
<1>1. /\ keys \in Seq(Keys) /\ keys \in Seq(Int) /\ child \in Seq(Nat) /\ N \in Nat /\ N >= 1
      /\ Len(child) = N + 1 /\ DOMAIN keys = 1 .. N /\ Ascending(keys)
      /\ \A i \in DOMAIN keys : keys[i] \in Int
  BY InternalShape
<1>2. /\ \A i \in DOMAIN keys : f[keys[i]] = p /\ f[keys[i] - 1] = p /\ see[keys[i]] # see[keys[i] - 1]
      /\ \A k \in Int : f[k] = p => child[UpTo(keys, k) + 1] = see[k]
  BY DEF InternalOn, Child, internal_find_position, UpTo
<1>3. s \in Int /\ s - 1 \in Int /\ f[s] = p /\ f[s - 1] = p
  <2>1. s \in Int
    BY TreeAssumption
  <2>2. s - 1 \in Int
    BY <2>1
  <2> QED
    BY <2>1, <2>2
<1>4. c = UpTo(keys, key)
  BY DEF internal_find_position, UpTo
<1>5. w = Internal(K, C)
  BY DEF internal_insert
<1> HIDE DEF keys, child, c
<1>6. c \in 0 .. N /\ \A i \in DOMAIN keys : keys[i] <= key <=> i <= c
  BY <1>1, <1>4, PositionUpTo
<1>7. /\ \A a, b \in Int : g[a] = g[b] => see[a] = see[b]
      /\ g[s - 1] = q /\ g[s] = r /\ q # r
      /\ \A k \in Int : /\ see[k] # q => g[k] = see[k]
                        /\ see[k] = q /\ k < s => g[k] = q
                        /\ see[k] = q /\ k >= s => g[k] = r
  <2>1. q = see[key] /\ see[s] = q /\ see[s - 1] = q /\ \A k \in Int : see[k] # r
    BY DEF q
  <2> HIDE DEF q
  <2>2. Divides(Divided(see, q, s, r), see, q, s, r)
    BY <1>3, <2>1, Division
  <2>3. g = Divided(see, q, s, r)
    BY DEF g, q
  <2> HIDE DEF g
  <2> QED
    BY <2>2, <2>3 DEF Divides
<1> HIDE DEF g, q, N
<1>8. \A i \in DOMAIN keys : \A a, b \in Int : a < keys[i] /\ keys[i] <= b => ~(see[a] = q /\ see[b] = q)
  <2> SUFFICES ASSUME NEW i \in DOMAIN keys, NEW a \in Int, NEW b \in Int,
                      a < keys[i], keys[i] <= b, see[a] = q, see[b] = q
               PROVE  FALSE
    OBVIOUS
  <2>1. keys[i] \in Int /\ keys[i] - 1 \in Int /\ a <= keys[i] - 1 /\ keys[i] - 1 <= b /\ a <= keys[i]
    <3>1. \A x, y, z \in Int : x < y /\ y <= z => y - 1 \in Int /\ x <= y - 1 /\ y - 1 <= z /\ x <= y
      OBVIOUS
    <3> QED
      BY <1>1, <3>1
  <2>2. see[keys[i] - 1] = q /\ see[keys[i]] = q
    BY <2>1 DEF Convex
  <2> QED
    BY <1>2, <2>2
<1>9. ASSUME NEW i \in DOMAIN keys PROVE (i <= c => keys[i] < s) /\ (i > c => keys[i] > s)
  <2>1. keys[i] \in Int /\ see[s - 1] = q /\ see[s] = q /\ see[key] = q
    BY <1>1 DEF q
  <2>2. ASSUME i <= c, ~(keys[i] < s) PROVE FALSE
    <3>1. s - 1 < keys[i] /\ keys[i] <= key
      BY <1>3, <1>6, <2>1, <2>2
    <3> QED
      BY <1>3, <1>8, <2>1, <3>1
  <2>3. ASSUME i > c, ~(keys[i] > s) PROVE FALSE
    <3>1. ~(i <= c)
      BY <1>1, <1>6, <2>3
    <3>2. key < keys[i] /\ keys[i] <= s
      BY <1>3, <1>6, <2>1, <2>3, <3>1
    <3> QED
      BY <1>3, <1>8, <2>1, <3>2
  <2> QED
    BY <2>2, <2>3
<1>10. /\ K \in Seq(Keys) /\ Len(K) = N + 1 /\ DOMAIN K = 1 .. N + 1 /\ K[c + 1] = s
       /\ \A k \in 1 .. N + 1 : (k < c + 1 => K[k] = keys[k]) /\ (k > c + 1 => K[k] = keys[k - 1])
  <2>1. c \in 0 .. Len(keys)
    BY <1>6 DEF N
  <2>2. K \in Seq(Keys) /\ IsInserted(K, keys, c, s)
    BY <1>1, <2>1, InsertedAfter
  <2> HIDE DEF K
  <2> QED
    BY <2>2 DEF IsInserted, N
<1>11. /\ C \in Seq(Nat) /\ Len(C) = N + 2 /\ C[c + 2] = r
       /\ \A k \in 1 .. N + 2 : (k < c + 2 => C[k] = child[k]) /\ (k > c + 2 => C[k] = child[k - 1])
  <2>1. c + 1 \in 0 .. Len(child) /\ c + 2 = (c + 1) + 1
    BY <1>1, <1>6
  <2>2. InsertAt(child, (c + 1) + 1, r) \in Seq(Nat)
        /\ IsInserted(InsertAt(child, (c + 1) + 1, r), child, c + 1, r)
    BY <1>1, <2>1, InsertedAfter
  <2>3. C \in Seq(Nat) /\ IsInserted(C, child, c + 1, r)
    BY <2>1, <2>2
  <2> HIDE DEF C
  <2>4. Len(child) + 1 = N + 2
    BY <1>1
  <2> QED
    BY <2>1, <2>3, <2>4 DEF IsInserted
<1>12. /\ Ascending(K)
       /\ \A k \in Int : /\ k < s => UpTo(keys, k) <= c /\ UpTo(K, k) = UpTo(keys, k)
                         /\ k >= s => UpTo(keys, k) >= c /\ UpTo(K, k) = UpTo(keys, k) + 1
  <2>1. c \in 0 .. Len(keys)
    BY <1>6 DEF N
  <2> QED
    BY <1>1, <1>3, <1>9, <2>1, AscendingInserted
<1> HIDE DEF K, C
<1>13. ASSUME NEW i \in DOMAIN K
       PROVE  f[K[i]] = p /\ f[K[i] - 1] = p /\ g[K[i]] # g[K[i] - 1]
  <2>1. i \in 1 .. N + 1 /\ N \in Nat /\ c \in 0 .. N
    BY <1>1, <1>6, <1>10
  <2>2. CASE i = c + 1
    BY <1>3, <1>7, <1>10, <2>2
  <2>3. CASE i # c + 1
    <3>1. (i < c + 1 /\ i \in 1 .. N) \/ (i > c + 1 /\ i - 1 \in 1 .. N)
      BY <2>1, <2>3
    <3>2. \E j \in DOMAIN keys : K[i] = keys[j]
      BY <1>1, <1>10, <2>1, <3>1
    <3>3. PICK j \in DOMAIN keys : K[i] = keys[j]
      BY <3>2
    <3>4. keys[j] \in Int /\ keys[j] - 1 \in Int
      <4>1. keys[j] \in Int
        BY <1>1
      <4> QED
        BY <4>1
    <3> QED
      BY <1>2, <1>7, <3>3, <3>4
  <2> QED
    BY <2>2, <2>3
<1>14. ASSUME NEW k \in Int, f[k] = p PROVE C[UpTo(K, k) + 1] = g[k]
  <2> DEFINE u == UpTo(keys, k)
  <2>1. u \in 0 .. N /\ child[u + 1] = see[k] /\ \A i \in DOMAIN keys : keys[i] <= k <=> i <= u
    BY <1>1, <1>2, <1>14, PositionUpTo DEF N
  <2>2. /\ k < s => u <= c /\ UpTo(K, k) = u
        /\ k >= s => u >= c /\ UpTo(K, k) = u + 1
    BY <1>12
  <2> HIDE DEF u
  <2>3. CASE k < s
    <3>1. u + 1 \in 1 .. N + 2 /\ u + 1 < c + 2
      BY <1>1, <1>6, <2>1, <2>2, <2>3
    <3>2. C[u + 1] = see[k]
      BY <1>11, <2>1, <3>1
    <3>3. g[k] = see[k]
      BY <1>7, <2>3
    <3> QED
      BY <2>2, <2>3, <3>2, <3>3
  <2>4. CASE k >= s
    <3>1. UpTo(K, k) + 1 = u + 2 /\ u >= c /\ u \in Int /\ c \in Int
      BY <1>6, <2>1, <2>2, <2>4
    <3>2. CASE u = c
      <4>1. see[k] = q
        BY <1>2, <1>4, <2>1, <3>2 DEF q
      <4>2. g[k] = r
        BY <1>7, <2>4, <4>1
      <4> QED
        BY <1>11, <3>1, <3>2, <4>2
    <3>3. CASE u # c
      <4>1. u + 2 \in 1 .. N + 2 /\ u + 2 > c + 2 /\ (u + 2) - 1 = u + 1
        BY <1>1, <2>1, <3>1, <3>3
      <4>2. C[u + 2] = see[k]
        BY <1>11, <2>1, <4>1
      <4>3. c + 1 \in DOMAIN keys /\ c + 1 <= u /\ c + 1 > c
        BY <1>1, <2>1, <3>1, <3>3, <1>6
      <4>4. keys[c + 1] \in Int /\ s < keys[c + 1] /\ keys[c + 1] <= k
        BY <1>1, <1>9, <2>1, <4>3
      <4>5. see[k] # q
        BY <1>3, <1>8, <4>3, <4>4 DEF q
      <4>6. g[k] = see[k]
        BY <1>7, <4>5
      <4> QED
        BY <3>1, <4>2, <4>6
    <3> QED
      BY <3>2, <3>3
  <2> QED
    BY <1>3, <2>3, <2>4
<1>15. ASSUME NEW m \in Nat, N < m PROVE InternalOn(w, p, f, g, m)
  <2>1. Len(K) >= 1 /\ Len(K) <= m /\ Len(C) = Len(K) + 1
    BY <1>1, <1>10, <1>11, <1>15
  <2>2. InternalOn(Internal(K, C), p, f, g, m)
    BY <1>10, <1>11, <1>12, <1>13, <1>14, <2>1, InternalMade
  <2> QED
    BY <1>5, <2>2
<1>16. Len(w.keys) = N + 1
  BY <1>5, <1>10 DEF Internal
<1> QED
  BY <1>15, <1>16 DEF w, g, q, c, N, keys, Wider

\* The split of an overfull internal node: the key in the middle divides the
\* range, the others and the children go to the two halves.
LEMMA InternalHalves ==
  ASSUME NEW n, NEW p, NEW f \in [Int -> Nat], Convex(f), NEW below,
         InternalOn(n, p, f, below, internal_max_keys + 1), Len(n.keys) = internal_max_keys + 1,
         NEW r \in Nat, \A k \in Int : f[k] # r
  PROVE  LET s == n.keys[Len(n.keys) \div 2 + 1]
             g == Divided(f, p, s, r) IN
         /\ s \in Keys /\ f[s] = p /\ f[s - 1] = p /\ below[s] # below[s - 1]
         /\ InternalOn(LeftInternal(n), p, g, below, internal_max_keys)
         /\ InternalOn(RightInternal(n), r, g, below, internal_max_keys)
<1> DEFINE keys == n.keys
           child == n.child
           N == Len(keys)
           mid == N \div 2
           s == keys[mid + 1]
           g == Divided(f, p, s, r)
           K1 == SubSeq(keys, 1, mid)
           C1 == SubSeq(child, 1, mid + 1)
           K2 == SubSeq(keys, mid + 2, Len(keys))
           C2 == SubSeq(child, mid + 2, Len(child))
<1>1. /\ keys \in Seq(Keys) /\ keys \in Seq(Int) /\ child \in Seq(Nat) /\ N \in Nat /\ N >= 1
      /\ Len(child) = N + 1 /\ DOMAIN keys = 1 .. N /\ Ascending(keys)
      /\ \A i \in DOMAIN keys : keys[i] \in Keys /\ keys[i] \in Int
  BY InternalShape
<1>2. /\ \A i \in DOMAIN keys : f[keys[i]] = p /\ f[keys[i] - 1] = p /\ below[keys[i]] # below[keys[i] - 1]
      /\ \A k \in Int : f[k] = p => child[UpTo(keys, k) + 1] = below[k]
  BY DEF InternalOn, Child, internal_find_position, UpTo
<1>3. /\ mid \in Nat /\ mid >= 1 /\ mid + 1 < N /\ mid <= internal_max_keys
      /\ N - (mid + 1) >= 1 /\ N - (mid + 1) <= internal_max_keys
  <2>1. internal_max_keys \in Nat /\ internal_max_keys >= 2 /\ N = internal_max_keys + 1
    BY TreeAssumption
  <2>2. mid \in Nat /\ mid >= 1 /\ mid + 1 < N
    <3> HIDE DEF N
    <3>1. N \in Nat /\ N >= 3
      BY <1>1, <2>1
    <3>2. \A x \in Nat : x >= 3 => x \div 2 \in Nat /\ x \div 2 >= 1 /\ x \div 2 + 1 < x
      OBVIOUS
    <3> QED
      BY <3>1, <3>2
  <2> HIDE DEF mid, N
  <2> QED
    BY <1>1, <2>1, <2>2
<1>4. LeftInternal(n) = Internal(K1, C1) /\ RightInternal(n) = Internal(K2, C2)
  BY DEF LeftInternal, RightInternal
<1> HIDE DEF keys, child, mid
<1>5. /\ mid \in 0 .. Len(keys) /\ mid + 1 \in 0 .. Len(keys) /\ mid + 1 \in 0 .. Len(child)
      /\ mid + 2 = (mid + 1) + 1
  <2>1. N = Len(keys) /\ Len(child) = N + 1 /\ N \in Nat /\ mid \in Nat /\ mid + 1 < N
    BY <1>1, <1>3
  <2> HIDE DEF N
  <2>2. \A m, x \in Nat : m + 1 < x =>
          m \in 0 .. x /\ m + 1 \in 0 .. x /\ m + 1 \in 0 .. x + 1 /\ m + 2 = (m + 1) + 1
    OBVIOUS
  <2>3. mid \in 0 .. N /\ mid + 1 \in 0 .. N /\ mid + 1 \in 0 .. N + 1 /\ mid + 2 = (mid + 1) + 1
    BY <2>1, <2>2
  <2> QED
    BY <2>1, <2>3
<1>6. K1 \in Seq(Keys) /\ IsPart(K1, keys, 0, mid)
  BY <1>1, <1>5, FirstPart
<1>7. K2 \in Seq(Keys) /\ IsPart(K2, keys, mid + 1, N - (mid + 1))
  BY <1>1, <1>5, RestPart
<1>8. C1 \in Seq(Nat) /\ IsPart(C1, child, 0, mid + 1)
  BY <1>1, <1>5, FirstPart
<1>9. C2 \in Seq(Nat) /\ IsPart(C2, child, mid + 1, N - mid)
  <2>1. C2 \in Seq(Nat) /\ IsPart(C2, child, mid + 1, Len(child) - (mid + 1))
    BY <1>1, <1>5, RestPart
  <2> HIDE DEF C2
  <2>2. Len(child) - (mid + 1) = N - mid
    BY <1>1, <1>3
  <2> QED
    BY <2>1, <2>2
<1>10. /\ Ascending(K1) /\ Ascending(K2)
       /\ \A k \in Int :
            /\ k < s => UpTo(K1, k) = UpTo(keys, k)
            /\ k >= s => UpTo(keys, k) >= mid + 1 /\ UpTo(K2, k) = UpTo(keys, k) - (mid + 1)
  <2>1. mid < Len(keys) /\ mid + 2 \in {mid + 1, mid + 2}
    BY <1>1, <1>3
  <2> QED
    BY <1>1, <1>5, <2>1, AscendingDivided
<1>11. /\ mid \in DOMAIN keys /\ mid + 1 \in DOMAIN keys
       /\ s \in Keys /\ s \in Int /\ s - 1 \in Int /\ f[s] = p /\ f[s - 1] = p /\ below[s] # below[s - 1]
  <2>1. mid \in DOMAIN keys /\ mid + 1 \in DOMAIN keys
    <3>1. \A m, x \in Nat : m >= 1 /\ m + 1 < x => m \in 1 .. x /\ m + 1 \in 1 .. x
      OBVIOUS
    <3>2. DOMAIN keys = 1 .. N /\ mid \in Nat /\ N \in Nat /\ mid >= 1 /\ mid + 1 < N
      BY <1>1, <1>3
    <3> HIDE DEF N
    <3> QED
      BY <3>1, <3>2
  <2>2. s \in Keys /\ s \in Int
    BY <1>1, <2>1
  <2>3. s - 1 \in Int
    BY <2>2
  <2> QED
    BY <1>2, <2>1, <2>2, <2>3
<1> HIDE DEF K1, K2, C1, C2, N, s
<1>12. \A k \in Int : /\ f[k] # p => g[k] = f[k]
                      /\ f[k] = p /\ k < s => g[k] = p
                      /\ f[k] = p /\ k >= s => g[k] = r
  BY <1>11 DEF Divided
<1>13. p # r
  BY <1>11
<1> HIDE DEF g
<1>14. /\ DOMAIN K1 = 1 .. mid /\ Len(K1) = mid /\ Len(C1) = mid + 1
       /\ \A i \in 1 .. mid : i \in DOMAIN keys /\ K1[i] = keys[i] /\ i < mid + 1
       /\ \A i \in 1 .. mid + 1 : C1[i] = child[i]
  <2>1. \A i \in 1 .. mid : i \in DOMAIN keys /\ 0 + i = i /\ i < mid + 1
    BY <1>1, <1>3
  <2>2. \A i \in 1 .. mid + 1 : 0 + i = i
    BY <1>3
  <2> QED
    BY <1>6, <1>8, <2>1, <2>2 DEF IsPart
<1>15. /\ DOMAIN K2 = 1 .. N - (mid + 1) /\ Len(K2) = N - (mid + 1) /\ Len(C2) = N - mid
       /\ \A i \in 1 .. N - (mid + 1) :
            (mid + 1) + i \in DOMAIN keys /\ K2[i] = keys[(mid + 1) + i] /\ mid + 1 < (mid + 1) + i
       /\ \A i \in 1 .. N - mid : C2[i] = child[(mid + 1) + i]
  <2>1. \A i \in 1 .. N - (mid + 1) : (mid + 1) + i \in DOMAIN keys /\ mid + 1 < (mid + 1) + i
    BY <1>1, <1>3
  <2> QED
    BY <1>7, <1>9, <2>1 DEF IsPart
<1>16. ASSUME NEW i \in DOMAIN K1
       PROVE  g[K1[i]] = p /\ g[K1[i] - 1] = p /\ below[K1[i]] # below[K1[i] - 1]
  <2>1. i \in DOMAIN keys /\ K1[i] = keys[i] /\ keys[i] < s /\ keys[i] \in Int
    BY <1>1, <1>11, <1>14 DEF Ascending, s
  <2>2. keys[i] - 1 \in Int /\ keys[i] - 1 < s
    <3>1. \A x, y \in Int : x < y => x - 1 \in Int /\ x - 1 < y
      OBVIOUS
    <3> QED
      BY <1>11, <2>1, <3>1
  <2> QED
    BY <1>2, <1>12, <2>1, <2>2
<1>17. ASSUME NEW i \in DOMAIN K2
       PROVE  g[K2[i]] = r /\ g[K2[i] - 1] = r /\ below[K2[i]] # below[K2[i] - 1]
  <2> DEFINE j == (mid + 1) + i
  <2>1. j \in DOMAIN keys /\ K2[i] = keys[j] /\ s < keys[j] /\ keys[j] \in Int
    BY <1>1, <1>11, <1>15 DEF Ascending, s
  <2> HIDE DEF j
  <2>2. keys[j] - 1 \in Int /\ keys[j] - 1 >= s /\ keys[j] >= s
    <3>1. \A x, y \in Int : x < y => y - 1 \in Int /\ y - 1 >= x /\ y >= x
      OBVIOUS
    <3> QED
      BY <1>11, <2>1, <3>1
  <2> QED
    BY <1>2, <1>12, <2>1, <2>2
<1>18. ASSUME NEW k \in Int, g[k] = p PROVE C1[UpTo(K1, k) + 1] = below[k]
  <2>1. f[k] = p /\ k < s
    <3>1. \A x, y \in Int : x < y \/ x >= y
      OBVIOUS
    <3>2. k < s \/ k >= s
      BY <1>11, <3>1
    <3> QED
      BY <1>12, <1>13, <1>18, <3>2
  <2>2. UpTo(K1, k) = UpTo(keys, k) /\ child[UpTo(keys, k) + 1] = below[k]
    BY <1>2, <1>10, <2>1
  <2>3. UpTo(K1, k) \in 0 .. mid
    <3>1. K1 \in Seq(Int)
      BY <1>6, KeySeq
    <3> QED
      BY <1>10, <1>14, <3>1, PositionUpTo
  <2>4. UpTo(K1, k) + 1 \in 1 .. mid + 1
    <3>1. \A m \in Nat : \A x \in 0 .. m : x + 1 \in 1 .. m + 1
      OBVIOUS
    <3> QED
      BY <1>3, <2>3, <3>1
  <2> QED
    BY <1>14, <2>2, <2>4
<1>19. ASSUME NEW k \in Int, g[k] = r PROVE C2[UpTo(K2, k) + 1] = below[k]
  <2>1. f[k] = p /\ k >= s
    BY <1>11, <1>12, <1>13, <1>19, SMTT(30)
  <2>2. /\ UpTo(keys, k) >= mid + 1 /\ UpTo(K2, k) = UpTo(keys, k) - (mid + 1)
        /\ child[UpTo(keys, k) + 1] = below[k]
    BY <1>2, <1>10, <2>1
  <2>3. UpTo(keys, k) \in 0 .. N
    BY <1>1, PositionUpTo DEF N
  <2>4. UpTo(K2, k) + 1 \in 1 .. N - mid /\ (mid + 1) + (UpTo(K2, k) + 1) = UpTo(keys, k) + 1
    <3>1. \A m, x \in Nat : \A u \in 0 .. x : u >= m + 1 =>
            (u - (m + 1)) + 1 \in 1 .. x - m /\ (m + 1) + ((u - (m + 1)) + 1) = u + 1
      OBVIOUS
    <3> QED
      BY <1>1, <1>3, <2>2, <2>3, <3>1
  <2> QED
    BY <1>15, <2>2, <2>4
<1>20. InternalOn(LeftInternal(n), p, g, below, internal_max_keys)
  <2>1. Len(K1) >= 1 /\ Len(K1) <= internal_max_keys /\ Len(C1) = Len(K1) + 1
    BY <1>3, <1>14
  <2>2. InternalOn(Internal(K1, C1), p, g, below, internal_max_keys)
    BY <1>6, <1>8, <1>10, <1>16, <1>18, <2>1, InternalMade
  <2> QED
    BY <1>4, <2>2
<1>21. InternalOn(RightInternal(n), r, g, below, internal_max_keys)
  <2>1. Len(K2) >= 1 /\ Len(K2) <= internal_max_keys /\ Len(C2) = Len(K2) + 1
    BY <1>1, <1>3, <1>15
  <2>2. InternalOn(Internal(K2, C2), r, g, below, internal_max_keys)
    BY <1>7, <1>9, <1>10, <1>17, <1>19, <2>1, InternalMade
  <2> QED
    BY <1>4, <2>2
<1> QED
  BY <1>11, <1>20, <1>21 DEF g, s, mid, N, keys

-----------------------------------------------------------------------------
(* Steps of an insertion or a removal *)

\* Any node is of one of the two kinds.
Node == LeafNode \cup InternalNode

\* A leaf with other entries of its range and the same link is put in place of
\* the old one.
LEMMA LeafReplaced ==
  ASSUME NEW ns, NEW h, NEW lvl, NEW own, TreeOn(ns, h, lvl, own, own),
         NEW p \in DOMAIN ns, lvl[p] = 0,
         NEW n, LeafOn(n, p, own[0], leaf_max_keys), n.next = ns[p].next
  PROVE  TreeOn([ns EXCEPT ![p] = n], h, lvl, own, own)
<1> DEFINE ms == [ns EXCEPT ![p] = n]
<1>1. ns \in Seq(Node) /\ n \in Node
  <2>1. ns \in Seq(Node)
    BY DEF TreeOn, NodesOn, Node
  <2>2. n \in LeafNode
    BY DEF LeafOn
  <2> QED
    BY <2>1, <2>2 DEF Node
<1>2. /\ ms \in Seq(Node) /\ DOMAIN ms = DOMAIN ns
      /\ ms[p] = n /\ \A q \in DOMAIN ns : q # p => ms[q] = ns[q]
  BY <1>1
<1> HIDE DEF ms
<1>3. \A q \in DOMAIN ns : ms[q].next = ns[q].next
  BY <1>2
<1>4. NodesOn(ms, lvl, own, own)
  <2>1. \A q \in DOMAIN ms :
          /\ lvl[q] = 0 => LeafOn(ms[q], q, own[0], leaf_max_keys)
          /\ lvl[q] # 0 => InternalOn(ms[q], q, own[lvl[q]], own[lvl[q] - 1], internal_max_keys)
    BY <1>2 DEF TreeOn, NodesOn
  <2> QED
    BY <1>2, <2>1 DEF NodesOn, Node
<1>5. Linking(ms, own[0], Leaves(ms, lvl))
  <2>1. Leaves(ms, lvl) = Leaves(ns, lvl) /\ Leaves(ns, lvl) \subseteq DOMAIN ns
    BY <1>2 DEF Leaves
  <2>2. Linking(ns, own[0], Leaves(ns, lvl))
    BY DEF TreeOn
  <2>3. \A k \in Int : own[0][k] \in DOMAIN ns
    BY TreeHeight, OwnFacts
  <2>4. \A k \in Int : own[0][k + 1] # own[0][k] => ms[own[0][k]].next = own[0][k + 1]
    BY <1>3, <2>2, <2>3 DEF Linking
  <2>5. \A q \in Leaves(ns, lvl) :
          ms[q].next = INVALID_PAGE_ID
          \/ \E k \in Int : own[0][k] = q /\ own[0][k + 1] # q /\ ms[q].next = own[0][k + 1]
    BY <1>3, <2>1, <2>2 DEF Linking
  <2>6. \A k \in Int : k <= Bottom => own[0][k] = own[0][Bottom]
    BY <2>2 DEF Linking
  <2> QED
    BY <2>1, <2>4, <2>5, <2>6 DEF Linking
<1>6. Levelled(DOMAIN ms, h, lvl, own) /\ Nested(h, own, own)
  BY <1>2 DEF TreeOn
<1>7. TreeOn(ms, h, lvl, own, own)
  BY <1>4, <1>5, <1>6 DEF TreeOn
<1> QED
  BY <1>7 DEF ms

\* A page is added at a level, with the upper part of the range of a page there.
LEMMA LevelDivided ==
  ASSUME NEW D \in SUBSET Nat, NEW h, NEW lvl, NEW own, Levelled(D, h, lvl, own),
         NEW l \in 0 .. h, NEW q, NEW s \in Int, NEW r \in Nat, r \notin D,
         own[l][s] = q, own[l][s - 1] = q
  PROVE  LET g == Divided(own[l], q, s, r) IN
         /\ Divides(g, own[l], q, s, r)
         /\ Levelled(D \cup {r}, h, [lvl EXCEPT ![r] = l], [own EXCEPT ![l] = g])
<1> DEFINE g == Divided(own[l], q, s, r)
           lv == [lvl EXCEPT ![r] = l]
           ow == [own EXCEPT ![l] = g]
<1>1. h \in Nat /\ lvl \in [Nat -> Nat] /\ own \in [Nat -> [Int -> Nat]] /\ l \in Nat /\ s - 1 \in Int
  <2>1. h \in Nat /\ lvl \in [Nat -> Nat] /\ own \in [Nat -> [Int -> Nat]]
    BY DEF Levelled
  <2>2. \A x \in Nat : \A i \in 0 .. x : i \in Nat
    OBVIOUS
  <2>3. \A x \in Int : x - 1 \in Int
    OBVIOUS
  <2> QED
    BY <2>1, <2>2, <2>3
<1>2. /\ \A i \in 0 .. h : Convex(own[i]) /\ \A k \in Int : own[i][k] \in D /\ lvl[own[i][k]] = i
      /\ \A p \in D : lvl[p] \in 0 .. h /\ \E k \in Int : own[lvl[p]][k] = p
  BY DEF Levelled
<1>3. own[l] \in [Int -> Nat] /\ Convex(own[l]) /\ \A k \in Int : own[l][k] # r
  BY <1>1, <1>2
<1>4. Divides(g, own[l], q, s, r)
  BY <1>1, <1>3, Division
<1> HIDE DEF g
<1>5. /\ lv \in [Nat -> Nat] /\ lv[r] = l /\ \A p \in D : p # r /\ lv[p] = lvl[p]
      /\ ow \in [Nat -> [Int -> Nat]] /\ ow[l] = g /\ \A i \in Nat : i # l => ow[i] = own[i]
  BY <1>1, <1>4 DEF Divides
<1> HIDE DEF lv, ow
<1>6. \A k \in Int : g[k] = own[l][k] \/ g[k] = r
  <2>1. ASSUME NEW k \in Int PROVE g[k] = own[l][k] \/ g[k] = r
    <3>1. CASE own[l][k] # q
      BY <1>4, <3>1 DEF Divides
    <3>2. CASE own[l][k] = q /\ k < s
      BY <1>4, <3>2 DEF Divides
    <3>3. CASE own[l][k] = q /\ k >= s
      BY <1>4, <3>3 DEF Divides
    <3> QED
      BY <3>1, <3>2, <3>3
  <2> QED
    BY <2>1
<1>7. ASSUME NEW i \in 0 .. h
      PROVE  Convex(ow[i]) /\ \A k \in Int : ow[i][k] \in D \cup {r} /\ lv[ow[i][k]] = i
  <2>1. i \in Nat
    BY <1>1
  <2>2. CASE i = l
    <3>1. Convex(g) /\ ow[i] = g
      BY <1>4, <1>5, <2>2 DEF Divides
    <3>2. \A k \in Int : own[l][k] \in D /\ lvl[own[l][k]] = l
      BY <1>2
    <3>3. ASSUME NEW k \in Int PROVE g[k] \in D \cup {r} /\ lv[g[k]] = l
      <4>1. CASE g[k] = r
        BY <1>5, <4>1
      <4>2. CASE g[k] = own[l][k]
        BY <1>5, <3>2, <4>2
      <4> QED
        BY <1>6, <4>1, <4>2
    <3> QED
      BY <2>2, <3>1, <3>3
  <2>3. CASE i # l
    <3>1. ow[i] = own[i]
      BY <1>5, <2>1, <2>3
    <3>2. Convex(own[i])
      BY <1>2
    <3>3. \A k \in Int : own[i][k] \in D /\ lvl[own[i][k]] = i
      BY <1>2
    <3>4. \A k \in Int : own[i][k] \in D \cup {r} /\ lv[own[i][k]] = i
      BY <1>5, <3>3
    <3> QED
      BY <3>1, <3>2, <3>4
  <2> QED
    BY <2>2, <2>3
<1>8. ASSUME NEW p \in D \cup {r} PROVE lv[p] \in 0 .. h /\ \E k \in Int : ow[lv[p]][k] = p
  <2>1. CASE p = r
    BY <1>4, <1>5, <2>1 DEF Divides
  <2>2. CASE p # r /\ lvl[p] # l
    <3>1. p \in D /\ lvl[p] \in Nat
      BY <1>1, <2>2
    <3>2. lv[p] = lvl[p] /\ ow[lvl[p]] = own[lvl[p]]
      BY <1>5, <2>2, <3>1
    <3>3. lvl[p] \in 0 .. h /\ \E k \in Int : own[lvl[p]][k] = p
      BY <1>2, <3>1
    <3> QED
      BY <3>2, <3>3
  <2>3. CASE p # r /\ lvl[p] = l
    <3>1. lv[p] = l /\ ow[lv[p]] = g
      BY <1>5, <2>3
    <3>2. PICK k \in Int : own[l][k] = p
      BY <1>2, <2>3
    <3>3. CASE p = q
      BY <1>1, <1>4, <3>1, <3>3 DEF Divides
    <3>4. CASE p # q
      BY <1>4, <3>1, <3>2, <3>4 DEF Divides
    <3> QED
      BY <3>1, <3>3, <3>4
  <2> QED
    BY <2>1, <2>2, <2>3
<1>9. Levelled(D \cup {r}, h, lv, ow)
  BY <1>1, <1>5, <1>7, <1>8 DEF Levelled
<1> QED
  <2> USE DEF g, lv, ow
  <2> QED
    BY <1>4, <1>9

\* The new leaf is linked in behind the old one.
LEMMA LinkingDivided ==
  ASSUME NEW ns, NEW f \in [Int -> Nat], Convex(f), NEW leaf, Linking(ns, f, leaf),
         \A k \in Int : f[k] \in leaf,
         NEW p \in leaf, NEW s \in Keys, f[s] = p, f[s - 1] = p, NEW r \in Nat, r \notin leaf,
         NEW ms, \A q \in leaf : q # p => ms[q].next = ns[q].next,
         ms[p].next = r, ms[r].next = ns[p].next
  PROVE  Linking(ms, Divided(f, p, s, r), leaf \cup {r})
<1> DEFINE g == Divided(f, p, s, r)
<1>1. s \in Int /\ s - 1 \in Int /\ Bottom \in Int /\ Bottom < s /\ s = (s - 1) + 1 /\ s - 1 < s
  <2>1. s \in Int /\ Bottom \in Int /\ Bottom < s
    BY BottomBelow
  <2>2. \A x \in Int : x - 1 \in Int /\ x = (x - 1) + 1 /\ x - 1 < x
    OBVIOUS
  <2> QED
    BY <2>1, <2>2
<1>2. \A k \in Int : f[k] # r
  OBVIOUS
<1>3. Divides(g, f, p, s, r)
  BY <1>1, <1>2, Division
<1> HIDE DEF g
<1>4. /\ \A a, b \in Int : g[a] = g[b] => f[a] = f[b]
      /\ g[s - 1] = p /\ g[s] = r /\ p # r
      /\ \A k \in Int : f[k] # p => g[k] = f[k]
      /\ \A k \in Int : f[k] = p /\ k < s => g[k] = p
      /\ \A k \in Int : f[k] = p /\ k >= s => g[k] = r
  BY <1>3 DEF Divides
<1>5. ASSUME NEW k \in Int, f[k + 1] # f[k]
      PROVE  /\ f[k] = p => g[k] = r
             /\ f[k] # p => g[k] = f[k]
             /\ g[k + 1] = f[k + 1] /\ k + 1 \in Int
  <2>1. k + 1 \in Int
    OBVIOUS
  <2>2. (\A a \in Int : f[a] = f[k] => a <= k) /\ (\A b \in Int : f[b] = f[k + 1] => b >= k + 1)
    BY <1>5, EndOfRange
  <2>3. ASSUME f[k] = p PROVE g[k] = r
    <3>1. s <= k
      BY <1>1, <2>2, <2>3
    <3>2. k >= s
      BY <1>1, <3>1
    <3> QED
      BY <1>4, <2>3, <3>2
  <2>4. ASSUME f[k + 1] = p PROVE g[k + 1] = f[k + 1]
    <3>1. s - 1 >= k + 1
      BY <1>1, <2>2, <2>4
    <3>2. k + 1 < s
      BY <1>1, <3>1
    <3> QED
      BY <1>4, <2>1, <2>4, <3>2
  <2> QED
    BY <1>4, <2>1, <2>3, <2>4
<1>6. ASSUME NEW k \in Int, g[k + 1] # g[k] PROVE ms[g[k]].next = g[k + 1]
  <2>1. CASE f[k + 1] # f[k]
    <3>1. ns[f[k]].next = f[k + 1]
      BY <2>1 DEF Linking
    <3>2. CASE f[k] = p
      BY <1>5, <2>1, <3>1, <3>2
    <3>3. CASE f[k] # p
      BY <1>5, <2>1, <3>1, <3>3
    <3> QED
      BY <3>2, <3>3
  <2>2. CASE f[k + 1] = f[k]
    <3>1. k + 1 \in Int
      OBVIOUS
    <3>2. f[k] = p /\ f[k + 1] = p
      BY <1>4, <1>6, <2>2, <3>1
    <3>3. k < s /\ k + 1 >= s
      <4>1. \A x, y \in Int : (x < y \/ x >= y) /\ (x >= y => x + 1 >= y)
        OBVIOUS
      <4>2. k < s \/ (k >= s /\ k + 1 >= s)
        BY <1>1, <4>1
      <4>3. k < s
        BY <1>4, <1>6, <3>1, <3>2, <4>2
      <4>4. k + 1 < s \/ k + 1 >= s
        BY <1>1, <3>1, <4>1
      <4> QED
        BY <1>4, <1>6, <3>1, <3>2, <4>3, <4>4
    <3>4. g[k] = p /\ g[k + 1] = r
      BY <1>4, <3>1, <3>2, <3>3
    <3> QED
      BY <3>4
  <2> QED
    BY <2>1, <2>2
<1>7. ASSUME NEW q \in leaf \cup {r}
      PROVE  \/ ms[q].next = INVALID_PAGE_ID
             \/ \E k \in Int : g[k] = q /\ g[k + 1] # q /\ ms[q].next = g[k + 1]
  <2>1. CASE q = p
    <3>1. g[s - 1] = q /\ g[(s - 1) + 1] # q /\ ms[q].next = g[(s - 1) + 1]
      BY <1>1, <1>4, <2>1
    <3> QED
      BY <1>1, <3>1
  <2>2. CASE q = r
    <3>1. \/ ns[p].next = INVALID_PAGE_ID
          \/ \E k \in Int : f[k] = p /\ f[k + 1] # p /\ ns[p].next = f[k + 1]
      BY DEF Linking
    <3>2. ASSUME NEW k \in Int, f[k] = p, f[k + 1] # p, ns[p].next = f[k + 1]
          PROVE  g[k] = q /\ g[k + 1] # q /\ ms[q].next = g[k + 1]
      <4>1. g[k] = r /\ g[k + 1] = f[k + 1] /\ k + 1 \in Int
        BY <1>5, <3>2
      <4> QED
        BY <1>2, <2>2, <3>2, <4>1
    <3> QED
      BY <2>2, <3>1, <3>2
  <2>3. CASE q # p /\ q # r
    <3>1. q \in leaf /\ ms[q].next = ns[q].next
      BY <2>3
    <3>2. \/ ns[q].next = INVALID_PAGE_ID
          \/ \E k \in Int : f[k] = q /\ f[k + 1] # q /\ ns[q].next = f[k + 1]
      BY <3>1 DEF Linking
    <3>3. ASSUME NEW k \in Int, f[k] = q, f[k + 1] # q, ns[q].next = f[k + 1]
          PROVE  g[k] = q /\ g[k + 1] # q /\ ms[q].next = g[k + 1]
      BY <1>5, <2>3, <3>1, <3>3
    <3> QED
      BY <3>1, <3>2, <3>3
  <2> QED
    BY <2>1, <2>2, <2>3
<1>8. ASSUME NEW k \in Int, k <= Bottom PROVE g[k] = g[Bottom]
  <2>1. f[k] = f[Bottom]
    BY <1>8 DEF Linking
  <2>2. k < s
    BY <1>1, <1>8
  <2> QED
    BY <1>1, <1>4, <2>1, <2>2
<1>9. Linking(ms, g, leaf \cup {r})
  BY <1>6, <1>7, <1>8 DEF Linking
<1> QED
  BY <1>9 DEF g

\* A page is changed and one is added.
LEMMA ChangedAndAdded ==
  ASSUME NEW S, NEW ns \in Seq(S), NEW p \in DOMAIN ns, NEW a \in S, NEW b \in S
  PROVE  LET ms == Append([ns EXCEPT ![p] = a], b)
             r == Len(ns) + 1 IN
         /\ ms \in Seq(S) /\ DOMAIN ms = DOMAIN ns \cup {r} /\ r \in Nat /\ r \notin DOMAIN ns
         /\ DOMAIN ns \subseteq Nat
         /\ ms[p] = a /\ ms[r] = b /\ \A q \in DOMAIN ns : q # p => ms[q] = ns[q]
<1> DEFINE xs == [ns EXCEPT ![p] = a]
           ms == Append(xs, b)
           r == Len(ns) + 1
<1>1. Len(ns) \in Nat /\ DOMAIN ns = 1 .. Len(ns)
  OBVIOUS
<1>2. /\ xs \in Seq(S) /\ Len(xs) = Len(ns) /\ DOMAIN xs = DOMAIN ns
      /\ xs[p] = a /\ \A q \in DOMAIN ns : q # p => xs[q] = ns[q]
  OBVIOUS
<1> HIDE DEF xs
<1>3. /\ ms \in Seq(S) /\ Len(ms) = r /\ ms[r] = b
      /\ \A q \in 1 .. Len(ns) : ms[q] = xs[q]
  BY <1>2, AppendProperties
<1> HIDE DEF ms
<1>4. DOMAIN ms = 1 .. r
  BY <1>3
<1>5. \A x \in Nat : 1 .. x + 1 = (1 .. x) \cup {x + 1} /\ x + 1 \in Nat /\ x + 1 \notin 1 .. x
  OBVIOUS
<1>6. \A x \in Nat : 1 .. x \subseteq Nat
  OBVIOUS
<1>7. DOMAIN ms = DOMAIN ns \cup {r} /\ r \in Nat /\ r \notin DOMAIN ns /\ DOMAIN ns \subseteq Nat
  BY <1>1, <1>4, <1>5, <1>6
<1>8. ms[p] = a /\ \A q \in DOMAIN ns : q # p => ms[q] = ns[q]
  BY <1>1, <1>2, <1>3
<1> QED
  BY <1>3, <1>7, <1>8 DEF ms, xs

\* A split waits at level n: the page q was divided at the key s, and the level
\* above does not know of the page r yet.
Waiting(h, own, see, n, q, s, r) ==
  /\ n \in 0 .. h /\ s \in Keys /\ r \in Nat
  /\ see \in [Nat -> [Int -> Nat]] /\ Convex(see[n])
  /\ see[n][s] = q /\ see[n][s - 1] = q /\ \A k \in Int : see[n][k] # r
  /\ own = [see EXCEPT ![n] = Divided(see[n], q, s, r)]

\* split_leaf of a leaf that took one entry more than it has room for.
LEMMA LeafSplitWaits ==
  ASSUME NEW ns, NEW h, NEW lvl, NEW own, TreeOn(ns, h, lvl, own, own),
         NEW p \in DOMAIN ns, lvl[p] = 0,
         NEW n, LeafOn(n, p, own[0], leaf_max_keys + 1), Len(n.keys) = leaf_max_keys + 1,
         n.next = ns[p].next
  PROVE  LET r == Len(ns) + 1
             s == RightLeaf(n).keys[1]
             ow == [own EXCEPT ![0] = Divided(own[0], p, s, r)] IN
         /\ TreeOn(Append([ns EXCEPT ![p] = LeftLeaf(n, r)], RightLeaf(n)), h, [lvl EXCEPT ![r] = 0], ow, own)
         /\ Waiting(h, ow, own, 0, p, s, r)
         /\ \A e : Holds(n, e) <=> Holds(LeftLeaf(n, r), e) \/ Holds(RightLeaf(n), e)
<1> DEFINE r == Len(ns) + 1
           s == RightLeaf(n).keys[1]
           g == Divided(own[0], p, s, r)
           ow == [own EXCEPT ![0] = g]
           lv == [lvl EXCEPT ![r] = 0]
           a == LeftLeaf(n, r)
           b == RightLeaf(n)
           ms == Append([ns EXCEPT ![p] = a], b)
<1>1. /\ ns \in Seq(Node) /\ Levelled(DOMAIN ns, h, lvl, own) /\ Nested(h, own, own)
      /\ Linking(ns, own[0], Leaves(ns, lvl))
      /\ h \in Nat /\ 0 \in 0 .. h
  BY TreeHeight DEF TreeOn, NodesOn, Node
<1>2. /\ own[0] \in [Int -> Nat] /\ Convex(own[0])
      /\ \A k \in Int : own[0][k] \in DOMAIN ns /\ lvl[own[0][k]] = 0
  <2>1. \A k \in Int : /\ own[0] \in [Int -> Nat] /\ Convex(own[0])
                       /\ own[0][k] \in DOMAIN ns /\ lvl[own[0][k]] = 0
    BY <1>1, OwnFacts
  <2>2. 0 \in Int
    OBVIOUS
  <2> QED
    BY <2>1, <2>2
<1>3. r \in Nat /\ r \notin DOMAIN ns /\ DOMAIN ns \subseteq Nat
  <2>1. Len(ns) \in Nat /\ DOMAIN ns = 1 .. Len(ns)
    BY <1>1
  <2>2. \A x \in Nat : x + 1 \in Nat /\ x + 1 \notin 1 .. x /\ 1 .. x \subseteq Nat
    OBVIOUS
  <2> QED
    BY <2>1, <2>2
<1>4. \A k \in Int : own[0][k] # r
  BY <1>2, <1>3
<1> HIDE DEF r
<1>5. /\ s \in Keys /\ own[0][s] = p /\ own[0][s - 1] = p
      /\ LeafOn(a, p, g, leaf_max_keys) /\ a.next = r
      /\ LeafOn(b, r, g, leaf_max_keys) /\ b.next = n.next
      /\ \A e : Holds(n, e) <=> Holds(a, e) \/ Holds(b, e)
  <2>1. LeafDivided(n, a, b, p, own[0], s, r)
    BY <1>2, <1>3, <1>4, LeafHalves
  <2> HIDE DEF s, a, b
  <2> QED
    BY <2>1 DEF LeafDivided
<1> HIDE DEF s, a, b
<1>6. s \in Int
  BY <1>5, TreeAssumption
<1>7. Divides(g, own[0], p, s, r) /\ Levelled(DOMAIN ns \cup {r}, h, lv, ow)
  BY <1>1, <1>3, <1>5, <1>6, LevelDivided
<1>8. a \in Node /\ b \in Node
  BY <1>5 DEF LeafOn, Node
<1>9. /\ ms \in Seq(Node) /\ DOMAIN ms = DOMAIN ns \cup {r}
      /\ ms[p] = a /\ ms[r] = b /\ \A q \in DOMAIN ns : q # p => ms[q] = ns[q]
  BY <1>1, <1>8, ChangedAndAdded DEF r
<1>10. /\ lvl \in [Nat -> Nat] /\ own \in [Nat -> [Int -> Nat]]
       /\ \A q \in DOMAIN ns : lvl[q] \in 0 .. h
  BY <1>1 DEF Levelled
<1>11. /\ lv[r] = 0 /\ \A q \in DOMAIN ns : q # r /\ lv[q] = lvl[q]
       /\ ow[0] = g /\ \A i \in Nat : i # 0 => ow[i] = own[i]
  BY <1>3, <1>10
<1> HIDE DEF g, ow, lv, ms
<1>12. ASSUME NEW q \in DOMAIN ms
       PROVE  /\ lv[q] = 0 => LeafOn(ms[q], q, ow[0], leaf_max_keys)
              /\ lv[q] # 0 => InternalOn(ms[q], q, ow[lv[q]], own[lv[q] - 1], internal_max_keys)
  <2>1. CASE q = r
    BY <1>5, <1>9, <1>11, <2>1
  <2>2. CASE q = p
    BY <1>5, <1>9, <1>11, <2>2
  <2>3. CASE q # r /\ q # p
    <3>1. q \in DOMAIN ns /\ ms[q] = ns[q] /\ lv[q] = lvl[q]
      BY <1>9, <1>11, <2>3
    <3>2. CASE lvl[q] = 0
      <4>1. LeafOn(ns[q], q, own[0], leaf_max_keys)
        BY <3>1, <3>2 DEF TreeOn, NodesOn
      <4>2. \A i \in DOMAIN ns[q].keys : own[0][ns[q].keys[i]] = q /\ ns[q].keys[i] \in Int
        BY <4>1, LeafShape
      <4>3. \A i \in DOMAIN ns[q].keys : g[ns[q].keys[i]] = q
        BY <1>7, <2>3, <4>2 DEF Divides
      <4>4. LeafOn(ns[q], q, g, leaf_max_keys)
        BY <4>1, <4>3 DEF LeafOn
      <4> QED
        BY <1>11, <3>1, <3>2, <4>4
    <3>3. CASE lvl[q] # 0
      <4>1. InternalOn(ns[q], q, own[lvl[q]], own[lvl[q] - 1], internal_max_keys)
        BY <3>1, <3>3 DEF TreeOn, NodesOn
      <4>2. lvl[q] \in Nat
        BY <1>3, <1>10, <3>1
      <4>3. ow[lvl[q]] = own[lvl[q]]
        BY <1>11, <3>3, <4>2
      <4> QED
        BY <3>1, <3>3, <4>1, <4>3
    <3> QED
      BY <3>2, <3>3
  <2> QED
    BY <2>1, <2>2, <2>3
<1>13. NodesOn(ms, lv, ow, own)
  BY <1>9, <1>12 DEF NodesOn, Node
<1>14. Linking(ms, ow[0], Leaves(ms, lv))
  <2>1. Leaves(ms, lv) = Leaves(ns, lvl) \cup {r}
    BY <1>9, <1>11 DEF Leaves
  <2>2. /\ \A k \in Int : own[0][k] \in Leaves(ns, lvl)
        /\ p \in Leaves(ns, lvl) /\ r \notin Leaves(ns, lvl)
        /\ Leaves(ns, lvl) \subseteq DOMAIN ns
    BY <1>2, <1>3 DEF Leaves
  <2>3. \A q \in Leaves(ns, lvl) : q # p => ms[q].next = ns[q].next
    BY <1>9, <2>2
  <2>4. ms[p].next = r /\ ms[r].next = ns[p].next
    BY <1>5, <1>9
  <2>5. Linking(ms, Divided(own[0], p, s, r), Leaves(ns, lvl) \cup {r})
    BY <1>1, <1>2, <1>3, <1>5, <2>2, <2>3, <2>4, LinkingDivided
  <2> QED
    BY <1>11, <2>1, <2>5 DEF g
<1>15. Nested(h, ow, own)
  <2>1. ASSUME NEW l \in 1 .. h, NEW x \in Int, NEW y \in Int, own[l - 1][x] = own[l - 1][y]
        PROVE  ow[l][x] = ow[l][y]
    <3>1. l \in Nat /\ l # 0
      BY <1>1
    <3>2. ow[l] = own[l] /\ own[l][x] = own[l][y]
      BY <1>1, <1>11, <2>1, <3>1 DEF Nested
    <3> QED
      BY <3>2
  <2> QED
    BY <2>1 DEF Nested
<1>16. TreeOn(ms, h, lv, ow, own)
  BY <1>7, <1>9, <1>13, <1>14, <1>15 DEF TreeOn
<1>17. Waiting(h, ow, own, 0, p, s, r)
  BY <1>1, <1>2, <1>3, <1>4, <1>5, <1>10 DEF Waiting, ow, g
<1> QED
  BY <1>5, <1>16, <1>17 DEF ms, lv, ow, g, a, b, s, r

\* A page of the level above takes the key and the page that wait: where a
\* descent follows the divided page, the node with the two sees the division,
\* and nothing else at this level or another one has to.
Took(ns, lvl, own, p, w) ==
  /\ Len(w.keys) = Len(ns[p].keys) + 1 /\ Len(ns[p].keys) \in Nat
  /\ \A m \in Nat : Len(ns[p].keys) < m => InternalOn(w, p, own[lvl[p]], own[lvl[p] - 1], m)
  /\ \A x \in DOMAIN ns : x # p /\ lvl[x] # 0 =>
       InternalOn(ns[x], x, own[lvl[x]], own[lvl[x] - 1], internal_max_keys)

LEMMA ParentTakes ==
  ASSUME NEW ns, NEW h, NEW lvl, NEW own, NEW see, TreeOn(ns, h, lvl, own, see),
         NEW n, NEW q, NEW s, NEW r, Waiting(h, own, see, n, q, s, r),
         n + 1 \in 1 .. h, NEW key \in Int, see[n][key] = q,
         NEW p, p = own[n + 1][key]
  PROVE  /\ p \in DOMAIN ns /\ lvl[p] = n + 1 /\ n \in Nat
         /\ Took(ns, lvl, own, p, internal_insert(ns[p], internal_find_position(ns[p], key), s, r))
         /\ Nested(h, own, own)
<1> DEFINE g == Divided(see[n], q, s, r)
           f == own[n + 1]
           w == internal_insert(ns[p], internal_find_position(ns[p], key), s, r)
<1>1. /\ h \in Nat /\ n \in 0 .. h /\ n \in Nat /\ n + 1 \in Nat /\ n + 1 \in 0 .. h
      /\ n + 1 # 0 /\ (n + 1) - 1 = n /\ n + 1 # n
  <2>1. h \in Nat /\ n \in 0 .. h
    BY TreeHeight DEF Waiting
  <2>2. \A x \in Nat : \A y \in 0 .. x : y + 1 \in 1 .. x =>
          y \in Nat /\ y + 1 \in Nat /\ y + 1 \in 0 .. x /\ y + 1 # 0 /\ (y + 1) - 1 = y /\ y + 1 # y
    OBVIOUS
  <2> QED
    BY <2>1, <2>2
<1>2. /\ s \in Keys /\ s \in Int /\ r \in Nat /\ see[n] \in [Int -> Nat] /\ Convex(see[n])
      /\ see[n][s] = q /\ see[n][s - 1] = q /\ \A k \in Int : see[n][k] # r
      /\ own[n] = g /\ \A i \in Nat : i # n => own[i] = see[i]
  BY <1>1, TreeAssumption DEF Waiting
<1>3. f \in [Int -> Nat] /\ p \in DOMAIN ns /\ lvl[p] = n + 1
  BY <1>1, OwnFacts
<1>4. InternalOn(ns[p], p, f, see[n], internal_max_keys)
  <2>1. p \in DOMAIN ns /\ lvl[p] # 0
    BY <1>1, <1>3
  <2>2. InternalOn(ns[p], p, own[lvl[p]], see[lvl[p] - 1], internal_max_keys)
    BY <2>1, NodeFacts
  <2> QED
    BY <1>1, <1>3, <2>2
<1>5. \A a, b \in Int : see[n][a] = see[n][b] => f[a] = f[b]
  <2>1. Nested(h, own, see)
    BY DEF TreeOn
  <2>2. see[(n + 1) - 1] = see[n]
    BY <1>1
  <2> QED
    BY <2>1, <2>2 DEF Nested
<1>6. Divides(g, see[n], q, s, r)
  BY <1>2, Division
<1> HIDE DEF g, f
<1>7. Len(w.keys) = Len(ns[p].keys) + 1
      /\ \A m \in Nat : Len(ns[p].keys) < m => InternalOn(w, p, f, g, m)
  <2>1. f[key] = p
    BY DEF f
  <2>2. /\ Len(w.keys) = Len(ns[p].keys) + 1
        /\ \A m \in Nat : Len(ns[p].keys) < m => InternalOn(w, p, f, Divided(see[n], see[n][key], s, r), m)
    <3>1. Wider(w, ns[p], p, f, Divided(see[n], see[n][key], s, r))
      BY <1>2, <1>4, <1>5, <2>1, Widened
    <3> HIDE DEF w
    <3> QED
      BY <3>1 DEF Wider
  <2> QED
    BY <2>2 DEF g
<1>8. Len(ns[p].keys) \in Nat
  BY <1>4, InternalShape
<1> HIDE DEF w
<1>9. ASSUME NEW x \in DOMAIN ns, x # p, lvl[x] # 0
      PROVE  InternalOn(ns[x], x, own[lvl[x]], own[lvl[x] - 1], internal_max_keys)
  <2>1. InternalOn(ns[x], x, own[lvl[x]], see[lvl[x] - 1], internal_max_keys) /\ lvl[x] \in 0 .. h
    BY <1>9, NodeFacts
  <2>2. CASE lvl[x] # n + 1
    <3>1. lvl[x] - 1 \in Nat /\ lvl[x] - 1 # n
      BY <1>1, <1>9, <2>1, <2>2
    <3> QED
      BY <1>2, <2>1, <3>1
  <2>3. CASE lvl[x] = n + 1
    <3>1. InternalOn(ns[x], x, f, see[n], internal_max_keys)
      BY <1>1, <2>1, <2>3 DEF f
    <3>2. ASSUME NEW k \in Int, f[k] = x PROVE g[k] = see[n][k]
      <4>1. f[key] = p
        BY DEF f
      <4>2. see[n][k] # q
        BY <1>5, <1>9, <3>2, <4>1
      <4> QED
        BY <1>6, <4>2 DEF Divides
    <3>3. \A i \in DOMAIN ns[x].keys : ns[x].keys[i] \in Int /\ ns[x].keys[i] - 1 \in Int
      <4>1. \A i \in DOMAIN ns[x].keys : ns[x].keys[i] \in Int
        BY <3>1, InternalShape
      <4>2. \A y \in Int : y - 1 \in Int
        OBVIOUS
      <4> QED
        BY <4>1, <4>2
    <3>4. \A i \in DOMAIN ns[x].keys : g[ns[x].keys[i]] # g[ns[x].keys[i] - 1]
      BY <1>6, <3>1, <3>3 DEF InternalOn, Divides
    <3>5. InternalOn(ns[x], x, f, g, internal_max_keys)
      BY <3>1, <3>2, <3>4 DEF InternalOn
    <3> QED
      BY <1>1, <1>2, <2>3, <3>5 DEF f
  <2> QED
    BY <2>2, <2>3
<1>10. Took(ns, lvl, own, p, w)
  BY <1>1, <1>2, <1>3, <1>7, <1>8, <1>9 DEF Took, f
<1>11. ASSUME NEW l \in 1 .. h, NEW a \in Int, NEW b \in Int, own[l - 1][a] = own[l - 1][b]
       PROVE  own[l][a] = own[l][b]
  <2>1. Nested(h, own, see) /\ l - 1 \in Nat
    BY <1>1 DEF TreeOn
  <2>2. see[l - 1][a] = see[l - 1][b]
    <3>1. CASE l - 1 = n
      BY <1>2, <1>6, <1>11, <3>1 DEF Divides
    <3>2. CASE l - 1 # n
      BY <1>2, <1>11, <2>1, <3>2
    <3> QED
      BY <3>1, <3>2
  <2> QED
    BY <2>1, <2>2 DEF Nested
<1>12. Nested(h, own, own)
  BY <1>11 DEF Nested
<1> QED
  BY <1>1, <1>3, <1>10, <1>12 DEF w

\* Links go from leaf to leaf, and none of those changes.
LEMMA LinkingKept ==
  ASSUME NEW ns, NEW f, NEW leaf, Linking(ns, f, leaf), \A k \in Int : f[k] \in leaf,
         NEW ms, \A x \in leaf : ms[x] = ns[x]
  PROVE  Linking(ms, f, leaf)
<1>1. \A k \in Int : f[k + 1] # f[k] => ms[f[k]].next = f[k + 1]
  BY DEF Linking
<1>2. \A x \in leaf : ms[x].next = INVALID_PAGE_ID
        \/ \E k \in Int : f[k] = x /\ f[k + 1] # x /\ ms[x].next = f[k + 1]
  BY DEF Linking
<1>3. \A k \in Int : k <= Bottom => f[k] = f[Bottom]
  BY DEF Linking
<1> QED
  BY <1>1, <1>2, <1>3 DEF Linking

\* The node above has room: no split waits any more.
LEMMA ParentRoom ==
  ASSUME NEW ns, NEW h, NEW lvl, NEW own, NEW see, TreeOn(ns, h, lvl, own, see),
         Nested(h, own, own), NEW p \in DOMAIN ns, lvl[p] # 0,
         NEW w, Took(ns, lvl, own, p, w), Len(ns[p].keys) < internal_max_keys
  PROVE  TreeOn([ns EXCEPT ![p] = w], h, lvl, own, own)
<1> DEFINE ms == [ns EXCEPT ![p] = w]
<1>1. /\ ns \in Seq(Node) /\ Levelled(DOMAIN ns, h, lvl, own)
      /\ Linking(ns, own[0], Leaves(ns, lvl))
  BY DEF TreeOn, NodesOn, Node
<1>2. InternalOn(w, p, own[lvl[p]], own[lvl[p] - 1], internal_max_keys)
  BY TreeAssumption DEF Took
<1>3. w \in Node
  BY <1>2 DEF InternalOn, Node
<1>4. /\ ms \in Seq(Node) /\ DOMAIN ms = DOMAIN ns
      /\ ms[p] = w /\ \A x \in DOMAIN ns : x # p => ms[x] = ns[x]
  BY <1>1, <1>3
<1> HIDE DEF ms
<1>5. ASSUME NEW x \in DOMAIN ms
      PROVE  /\ lvl[x] = 0 => LeafOn(ms[x], x, own[0], leaf_max_keys)
             /\ lvl[x] # 0 => InternalOn(ms[x], x, own[lvl[x]], own[lvl[x] - 1], internal_max_keys)
  <2>1. CASE x = p
    BY <1>2, <1>4, <2>1
  <2>2. CASE x # p
    BY <1>4, <2>2 DEF Took, TreeOn, NodesOn
  <2> QED
    BY <2>1, <2>2
<1>6. NodesOn(ms, lvl, own, own)
  BY <1>4, <1>5 DEF NodesOn, Node
<1>7. Linking(ms, own[0], Leaves(ms, lvl))
  <2>1. Leaves(ms, lvl) = Leaves(ns, lvl)
    BY <1>4 DEF Leaves
  <2>2. \A x \in Leaves(ns, lvl) : ms[x] = ns[x]
    BY <1>4 DEF Leaves
  <2>3. \A k \in Int : own[0][k] \in Leaves(ns, lvl)
    BY TreeHeight, OwnFacts, SMTT(30) DEF Leaves
  <2> QED
    BY <1>1, <2>1, <2>2, <2>3, LinkingKept
<1>8. TreeOn(ms, h, lvl, own, own)
  BY <1>1, <1>4, <1>6, <1>7 DEF TreeOn
<1> QED
  BY <1>8 DEF ms

\* The node above is full: it is split in its turn, and its middle key and the
\* page made for its upper half wait for the level after it.
LEMMA ParentSplits ==
  ASSUME NEW ns, NEW h, NEW lvl, NEW own, NEW see, TreeOn(ns, h, lvl, own, see),
         Nested(h, own, own), NEW p \in DOMAIN ns, NEW n \in Nat, n + 1 \in 0 .. h, lvl[p] = n + 1,
         NEW w, Took(ns, lvl, own, p, w), Len(ns[p].keys) = internal_max_keys
  PROVE  LET r == Len(ns) + 1
             s == w.keys[Len(w.keys) \div 2 + 1]
             ow == [own EXCEPT ![n + 1] = Divided(own[n + 1], p, s, r)] IN
         /\ TreeOn(Append([ns EXCEPT ![p] = LeftInternal(w)], RightInternal(w)),
                   h, [lvl EXCEPT ![r] = n + 1], ow, own)
         /\ Waiting(h, ow, own, n + 1, p, s, r)
<1> DEFINE r == Len(ns) + 1
           s == w.keys[Len(w.keys) \div 2 + 1]
           g == Divided(own[n + 1], p, s, r)
           ow == [own EXCEPT ![n + 1] = g]
           lv == [lvl EXCEPT ![r] = n + 1]
           a == LeftInternal(w)
           b == RightInternal(w)
           ms == Append([ns EXCEPT ![p] = a], b)
           f == own[n + 1]
<1>1. /\ ns \in Seq(Node) /\ Levelled(DOMAIN ns, h, lvl, own)
      /\ Linking(ns, own[0], Leaves(ns, lvl))
      /\ h \in Nat /\ 0 \in 0 .. h
  BY TreeHeight DEF TreeOn, NodesOn, Node
<1>2. n + 1 \in Nat /\ n + 1 # 0 /\ (n + 1) - 1 = n
  OBVIOUS
<1>3. /\ f \in [Int -> Nat] /\ Convex(f) /\ \A k \in Int : f[k] \in DOMAIN ns
      /\ \A k \in Int : own[0][k] \in Leaves(ns, lvl)
      /\ Convex(own[n])
  <2>1. ASSUME NEW k \in Int
        PROVE  /\ f \in [Int -> Nat] /\ Convex(f) /\ f[k] \in DOMAIN ns
               /\ own[0][k] \in DOMAIN ns /\ lvl[own[0][k]] = 0
    <3> DEFINE l == n + 1
    <3>1. l \in 0 .. h
      OBVIOUS
    <3> HIDE DEF l
    <3>2. own[l] \in [Int -> Nat] /\ Convex(own[l]) /\ own[l][k] \in DOMAIN ns
      BY <3>1, OwnFacts
    <3>3. \A i \in 0 .. h : own[i][k] \in DOMAIN ns /\ lvl[own[i][k]] = i
      BY <1>1 DEF Levelled
    <3>4. own[0][k] \in DOMAIN ns /\ lvl[own[0][k]] = 0
      BY <1>1, <3>3
    <3> QED
      BY <3>2, <3>4 DEF l
  <2>2. 0 \in Int
    OBVIOUS
  <2>3. n \in 0 .. h
    BY <1>1
  <2>4. Convex(own[n])
    BY <1>1, <2>3 DEF Levelled
  <2> QED
    BY <2>1, <2>2, <2>4 DEF Leaves
<1>4. r \in Nat /\ r \notin DOMAIN ns /\ DOMAIN ns \subseteq Nat
  <2>1. Len(ns) \in Nat /\ DOMAIN ns = 1 .. Len(ns)
    BY <1>1
  <2>2. \A x \in Nat : x + 1 \in Nat /\ x + 1 \notin 1 .. x /\ 1 .. x \subseteq Nat
    OBVIOUS
  <2> QED
    BY <2>1, <2>2
<1>5. \A k \in Int : f[k] # r
  BY <1>3, <1>4
<1> HIDE DEF r, f
<1>6. /\ InternalOn(w, p, f, own[n], internal_max_keys + 1) /\ Len(w.keys) = internal_max_keys + 1
  <2>1. /\ internal_max_keys \in Nat /\ internal_max_keys + 1 \in Nat
        /\ internal_max_keys < internal_max_keys + 1
    BY TreeAssumption
  <2>2. InternalOn(w, p, own[lvl[p]], own[lvl[p] - 1], internal_max_keys + 1)
    BY <2>1 DEF Took
  <2> QED
    BY <1>2, <2>2 DEF Took, f
<1>7. /\ s \in Keys /\ f[s] = p /\ f[s - 1] = p /\ own[n][s] # own[n][s - 1]
      /\ InternalOn(a, p, Divided(f, p, s, r), own[n], internal_max_keys)
      /\ InternalOn(b, r, Divided(f, p, s, r), own[n], internal_max_keys)
  BY <1>3, <1>4, <1>5, <1>6, InternalHalves
<1> HIDE DEF s, a, b
<1>8. s \in Int /\ s - 1 \in Int
  <2>1. s \in Int
    BY <1>7, TreeAssumption
  <2> QED
    BY <2>1
<1>9. Divides(g, f, p, s, r) /\ Levelled(DOMAIN ns \cup {r}, h, lv, ow)
  BY <1>1, <1>4, <1>7, <1>8, LevelDivided DEF f
<1>10. a \in Node /\ b \in Node
  BY <1>7 DEF InternalOn, Node
<1>11. /\ ms \in Seq(Node) /\ DOMAIN ms = DOMAIN ns \cup {r}
       /\ ms[p] = a /\ ms[r] = b /\ \A q \in DOMAIN ns : q # p => ms[q] = ns[q]
  BY <1>1, <1>10, ChangedAndAdded DEF r
<1>12. /\ lvl \in [Nat -> Nat] /\ own \in [Nat -> [Int -> Nat]]
       /\ \A q \in DOMAIN ns : lvl[q] \in Nat
  BY <1>1, <1>4 DEF Levelled
<1>13. /\ lv[r] = n + 1 /\ \A q \in DOMAIN ns : q # r /\ lv[q] = lvl[q]
       /\ ow[n + 1] = g /\ \A i \in Nat : i # n + 1 => ow[i] = own[i]
  BY <1>2, <1>4, <1>12
<1>14. g = Divided(f, p, s, r)
  BY DEF f
<1> HIDE DEF g, ow, lv, ms
<1>15. ASSUME NEW q \in DOMAIN ms
       PROVE  /\ lv[q] = 0 => LeafOn(ms[q], q, ow[0], leaf_max_keys)
              /\ lv[q] # 0 => InternalOn(ms[q], q, ow[lv[q]], own[lv[q] - 1], internal_max_keys)
  <2>1. CASE q = r
    BY <1>2, <1>7, <1>11, <1>13, <1>14, <2>1
  <2>2. CASE q = p
    BY <1>2, <1>7, <1>11, <1>13, <1>14, <2>2
  <2>3. CASE q # r /\ q # p
    <3>1. q \in DOMAIN ns /\ ms[q] = ns[q] /\ lv[q] = lvl[q]
      BY <1>11, <1>13, <2>3
    <3>2. CASE lvl[q] = 0
      <4>1. LeafOn(ns[q], q, own[0], leaf_max_keys)
        BY <3>1, <3>2 DEF TreeOn, NodesOn
      <4>2. ow[0] = own[0]
        BY <1>2, <1>13
      <4> QED
        BY <3>1, <3>2, <4>1, <4>2
    <3>3. CASE lvl[q] # 0 /\ lvl[q] # n + 1
      <4>1. InternalOn(ns[q], q, own[lvl[q]], own[lvl[q] - 1], internal_max_keys)
        BY <2>3, <3>1, <3>3 DEF Took
      <4>2. ow[lvl[q]] = own[lvl[q]]
        BY <1>12, <1>13, <3>1, <3>3
      <4> QED
        BY <3>1, <3>3, <4>1, <4>2
    <3>4. CASE lvl[q] = n + 1
      <4>1. InternalOn(ns[q], q, f, own[n], internal_max_keys)
        <5>1. InternalOn(ns[q], q, own[lvl[q]], own[lvl[q] - 1], internal_max_keys)
          BY <1>2, <2>3, <3>1, <3>4 DEF Took
        <5> QED
          BY <1>2, <3>4, <5>1 DEF f
      <4>2. \A k \in Int : (f[k] = q => g[k] = q) /\ (g[k] = q => f[k] = q)
        <5>1. ASSUME NEW k \in Int PROVE (f[k] = q => g[k] = q) /\ (g[k] = q => f[k] = q)
          <6>1. CASE f[k] # p
            BY <1>9, <2>3, <6>1 DEF Divides
          <6>2. CASE f[k] = p /\ k < s
            BY <1>9, <2>3, <6>2 DEF Divides
          <6>3. CASE f[k] = p /\ k >= s
            BY <1>9, <2>3, <6>3 DEF Divides
          <6> QED
            BY <1>8, <6>1, <6>2, <6>3
        <5> QED
          BY <5>1
      <4>3. \A i \in DOMAIN ns[q].keys : ns[q].keys[i] \in Int /\ ns[q].keys[i] - 1 \in Int
        <5>1. \A i \in DOMAIN ns[q].keys : ns[q].keys[i] \in Int
          BY <4>1, InternalShape
        <5>2. \A y \in Int : y - 1 \in Int
          OBVIOUS
        <5> QED
          BY <5>1, <5>2
      <4>4. \A i \in DOMAIN ns[q].keys : g[ns[q].keys[i]] = q /\ g[ns[q].keys[i] - 1] = q
        BY <4>1, <4>2, <4>3 DEF InternalOn
      <4>5. InternalOn(ns[q], q, g, own[n], internal_max_keys)
        BY <4>1, <4>2, <4>4 DEF InternalOn
      <4> QED
        BY <1>2, <1>13, <3>1, <3>4, <4>5
    <3> QED
      BY <3>2, <3>3, <3>4
  <2> QED
    BY <2>1, <2>2, <2>3
<1>16. NodesOn(ms, lv, ow, own)
  BY <1>11, <1>15 DEF NodesOn, Node
<1>17. Linking(ms, ow[0], Leaves(ms, lv))
  <2>1. Leaves(ms, lv) = Leaves(ns, lvl) /\ p \notin Leaves(ns, lvl)
    BY <1>2, <1>11, <1>13 DEF Leaves
  <2>2. \A x \in Leaves(ns, lvl) : ms[x] = ns[x]
    BY <1>11, <2>1 DEF Leaves
  <2>3. ow[0] = own[0]
    BY <1>2, <1>13
  <2> QED
    BY <1>1, <1>3, <2>1, <2>2, <2>3, LinkingKept
<1>18. ASSUME NEW x \in Int, NEW y \in Int, own[n][x] = own[n][y] PROVE g[x] = g[y]
  <2>1. f[x] = f[y]
    <3>1. n + 1 \in 1 .. h /\ own[(n + 1) - 1] = own[n]
      BY <1>1, <1>2
    <3> QED
      BY <1>18, <3>1 DEF Nested, f
  <2>2. \A u, v \in Int : u < s /\ v >= s => own[n][u] # own[n][v]
    <3>1. ASSUME NEW u \in Int, NEW v \in Int, u < s, v >= s, own[n][u] = own[n][v] PROVE FALSE
      <4>1. \A c, d, e \in Int : c < d /\ e >= d => c <= d - 1 /\ d - 1 <= e /\ c <= d /\ d <= e
        OBVIOUS
      <4>2. u <= s - 1 /\ s - 1 <= v /\ u <= s /\ s <= v
        BY <1>8, <3>1, <4>1
      <4>3. own[n][s - 1] = own[n][u] /\ own[n][s] = own[n][u]
        BY <1>3, <1>8, <3>1, <4>2 DEF Convex
      <4> QED
        BY <1>7, <4>3
    <3> QED
      BY <3>1
  <2>3. (x < s \/ x >= s) /\ (y < s \/ y >= s)
    BY <1>8
  <2>4. CASE f[x] # p
    BY <1>9, <2>1, <2>4 DEF Divides
  <2>5. CASE f[x] = p /\ x < s
    <3>1. y < s
      BY <1>18, <2>2, <2>3, <2>5
    <3> QED
      BY <1>9, <2>1, <2>5, <3>1 DEF Divides
  <2>6. CASE f[x] = p /\ x >= s
    <3>1. y >= s
      BY <1>18, <2>2, <2>3, <2>6
    <3> QED
      BY <1>9, <2>1, <2>6, <3>1 DEF Divides
  <2> QED
    BY <2>3, <2>4, <2>5, <2>6
<1>19. Nested(h, ow, own)
  <2>1. ASSUME NEW l \in 1 .. h, NEW x \in Int, NEW y \in Int, own[l - 1][x] = own[l - 1][y]
        PROVE  ow[l][x] = ow[l][y]
    <3>1. CASE l = n + 1
      BY <1>2, <1>13, <1>18, <2>1, <3>1
    <3>2. CASE l # n + 1
      <4>1. l \in Nat
        BY <1>1
      <4>2. ow[l] = own[l] /\ own[l][x] = own[l][y]
        BY <1>13, <2>1, <3>2, <4>1 DEF Nested
      <4> QED
        BY <4>2
    <3> QED
      BY <3>1, <3>2
  <2> QED
    BY <2>1 DEF Nested
<1>20. TreeOn(ms, h, lv, ow, own)
  BY <1>9, <1>11, <1>16, <1>17, <1>19 DEF TreeOn
<1>21. Waiting(h, ow, own, n + 1, p, s, r)
  BY <1>3, <1>4, <1>5, <1>7, <1>12 DEF Waiting, ow, g, f
<1> QED
  BY <1>20, <1>21 DEF ms, lv, ow, g, a, b, s, r

-----------------------------------------------------------------------------
(* A split on its way up *)

\* The entry is in some leaf.
HeldIn(ns, e) == \E p \in DOMAIN ns : ns[p].leaf /\ Holds(ns[p], e)

\* Pages stay, and so do leaves, and there is no entry more.
Grown(ns, ms) ==
  /\ DOMAIN ns \subseteq DOMAIN ms /\ \A e : HeldIn(ms, e) <=> HeldIn(ns, e)
  /\ \A x \in DOMAIN ns : ns[x].leaf => ms[x] = ns[x]

LEMMA OnlyInternal ==
  ASSUME NEW ns, NEW ms, DOMAIN ns \subseteq DOMAIN ms,
         \A x \in DOMAIN ms : IF x \in DOMAIN ns /\ ns[x].leaf THEN ms[x] = ns[x] ELSE ~ms[x].leaf
  PROVE  Grown(ns, ms)
<1>1. ASSUME NEW e PROVE HeldIn(ms, e) <=> HeldIn(ns, e)
  <2>1. ASSUME HeldIn(ns, e) PROVE HeldIn(ms, e)
    <3>1. PICK x \in DOMAIN ns : ns[x].leaf /\ Holds(ns[x], e)
      BY <2>1 DEF HeldIn
    <3>2. x \in DOMAIN ms /\ ms[x] = ns[x]
      BY <3>1
    <3> QED
      BY <3>1, <3>2 DEF HeldIn
  <2>2. ASSUME HeldIn(ms, e) PROVE HeldIn(ns, e)
    <3>1. PICK x \in DOMAIN ms : ms[x].leaf /\ Holds(ms[x], e)
      BY <2>2 DEF HeldIn
    <3>2. x \in DOMAIN ns /\ ns[x].leaf /\ ms[x] = ns[x]
      BY <3>1
    <3> QED
      BY <3>1, <3>2 DEF HeldIn
  <2> QED
    BY <2>1, <2>2
<1>2. \A x \in DOMAIN ns : ns[x].leaf => ms[x] = ns[x]
  OBVIOUS
<1> QED
  BY <1>1, <1>2 DEF Grown

\* No split waits, and the root has every key.
Settled(s, h, root) ==
  /\ s.right = INVALID_PAGE_ID
  /\ \E lvl, own : TreeOn(s.nodes, h, lvl, own, own) /\ \A k \in Int : own[h][k] = root

\* A split waits at level n, of the page that had key there at first; above it
\* nothing changed.
Unsettled(s, h, n, base, key) ==
  \E lvl, own, see :
    /\ TreeOn(s.nodes, h, lvl, own, see)
    /\ Waiting(h, own, see, n, base[n][key], s.key, s.right)
    /\ see[n] = base[n]
    /\ \A l \in 0 .. h : l > n => own[l] = base[l]

LEMMA AtParentKeeps ==
  ASSUME NEW h, NEW base, NEW root, \A k \in Int : base[h][k] = root, NEW key \in Int,
         NEW n \in Nat, n + 1 \in 1 .. h, h \in Nat,
         NEW s, Settled(s, h, root) \/ Unsettled(s, h, n, base, key),
         NEW p, p = base[n + 1][key]
  PROVE  LET t == AtParent(s, p, key) IN
         /\ Settled(t, h, root) \/ Unsettled(t, h, n + 1, base, key)
         /\ Grown(s.nodes, t.nodes)
<1> DEFINE t == AtParent(s, p, key)
<1>1. CASE s.right = INVALID_PAGE_ID
  <2>1. t = s
    BY <1>1 DEF AtParent
  <2>2. ~Unsettled(s, h, n, base, key)
    <3>1. INVALID_PAGE_ID \notin Nat
      BY DEF INVALID_PAGE_ID
    <3> QED
      BY <1>1, <3>1 DEF Unsettled, Waiting
  <2>3. Grown(s.nodes, s.nodes)
    BY DEF Grown
  <2> QED
    BY <2>1, <2>2, <2>3
<1>2. CASE s.right # INVALID_PAGE_ID
  <2> DEFINE ns == s.nodes
             w == internal_insert(ns[p], internal_find_position(ns[p], key), s.key, s.right)
             r == Len(ns) + 1
             k2 == w.keys[Len(w.keys) \div 2 + 1]
  <2>1. PICK lvl, own, see :
          /\ TreeOn(ns, h, lvl, own, see)
          /\ Waiting(h, own, see, n, base[n][key], s.key, s.right)
          /\ see[n] = base[n]
          /\ \A l \in 0 .. h : l > n => own[l] = base[l]
    BY <1>2 DEF Settled, Unsettled
  <2>2. n + 1 \in 0 .. h /\ n + 1 > n /\ n + 1 # 0 /\ n + 1 \in Nat /\ h \in 0 .. h /\ h > n
    OBVIOUS
  <2>3. own[n + 1] = base[n + 1] /\ own[h] = base[h] /\ p = own[n + 1][key] /\ see[n][key] = base[n][key]
    BY <2>1, <2>2
  <2>4. /\ p \in DOMAIN ns /\ lvl[p] = n + 1
        /\ Took(ns, lvl, own, p, w) /\ Nested(h, own, own)
    BY <2>1, <2>3, ParentTakes
  <2>5. t = IF Len(ns[p].keys) < internal_max_keys
            THEN [nodes |-> [ns EXCEPT ![p] = w], key |-> s.key, right |-> INVALID_PAGE_ID]
            ELSE [nodes |-> Append([ns EXCEPT ![p] = LeftInternal(w)], RightInternal(w)),
                  key |-> k2, right |-> r]
    BY <1>2 DEF AtParent
  <2>6. ~w.leaf /\ ~LeftInternal(w).leaf /\ ~RightInternal(w).leaf
    BY DEF internal_insert, LeftInternal, RightInternal, Internal
  <2> HIDE DEF w, t
  <2>7. ns \in Seq(Node) /\ ~ns[p].leaf
    <3>1. lvl[p] # 0
      BY <2>2, <2>4
    <3>2. ns \in Seq(Node)
      BY <2>1 DEF TreeOn, NodesOn, Node
    <3> QED
      BY <2>1, <2>4, <3>1, <3>2, NodeFacts
  <2>8. InternalOn(ns[p], p, own[lvl[p]], see[lvl[p] - 1], internal_max_keys)
    <3>1. lvl[p] # 0
      BY <2>2, <2>4
    <3> QED
      BY <2>1, <2>4, <3>1, NodeFacts, SMTT(30)
  <2>9. Len(ns[p].keys) \in Nat /\ Len(ns[p].keys) <= internal_max_keys /\ internal_max_keys \in Nat
    BY <2>8, InternalShape, TreeAssumption
  <2>10. CASE Len(ns[p].keys) < internal_max_keys
    <3> DEFINE ms == [ns EXCEPT ![p] = w]
    <3>1. t.nodes = ms /\ t.right = INVALID_PAGE_ID
      BY <2>5, <2>10
    <3>2. TreeOn(ms, h, lvl, own, own)
      BY <2>1, <2>2, <2>4, <2>10, ParentRoom
    <3>3. DOMAIN ms = DOMAIN ns /\ ms[p] = w /\ \A x \in DOMAIN ns : x # p => ms[x] = ns[x]
      BY <2>4, <2>7
    <3> HIDE DEF ms
    <3>4. \A x \in DOMAIN ms :
            IF x \in DOMAIN ns /\ ns[x].leaf THEN ms[x] = ns[x] ELSE ~ms[x].leaf
      BY <2>6, <2>7, <3>3
    <3>5. Grown(ns, ms)
      BY <3>3, <3>4, OnlyInternal
    <3>6. Settled(t, h, root)
      BY <2>3, <3>1, <3>2 DEF Settled
    <3> QED
      BY <3>1, <3>5, <3>6 DEF t
  <2>11. CASE ~(Len(ns[p].keys) < internal_max_keys)
    <3> DEFINE ms == Append([ns EXCEPT ![p] = LeftInternal(w)], RightInternal(w))
               ow == [own EXCEPT ![n + 1] = Divided(own[n + 1], p, k2, r)]
               lv == [lvl EXCEPT ![r] = n + 1]
    <3>1. t.nodes = ms /\ t.right = r /\ t.key = k2
      BY <2>5, <2>11
    <3>2. Len(ns[p].keys) = internal_max_keys
      BY <2>9, <2>11
    <3>3. TreeOn(ms, h, lv, ow, own) /\ Waiting(h, ow, own, n + 1, p, k2, r)
      BY <2>1, <2>2, <2>4, <3>2, ParentSplits
    <3>4. /\ DOMAIN ms = DOMAIN ns \cup {r} /\ r \notin DOMAIN ns
          /\ ms[p] = LeftInternal(w) /\ ms[r] = RightInternal(w)
          /\ \A x \in DOMAIN ns : x # p => ms[x] = ns[x]
      <4> DEFINE S == Node \cup {LeftInternal(w), RightInternal(w)}
      <4>1. ns \in Seq(S) /\ LeftInternal(w) \in S /\ RightInternal(w) \in S
        BY <2>7
      <4> HIDE DEF S
      <4> QED
        BY <2>4, <4>1, ChangedAndAdded
    <3>5. DOMAIN ns \subseteq DOMAIN ms
      BY <3>4
    <3> HIDE DEF ms, r, ow, lv, k2
    <3>6. \A x \in DOMAIN ms :
            IF x \in DOMAIN ns /\ ns[x].leaf THEN ms[x] = ns[x] ELSE ~ms[x].leaf
      BY <2>6, <2>7, <3>4
    <3>7. Grown(ns, ms)
      BY <3>5, <3>6, OnlyInternal
    <3>8. own[n + 1] = base[n + 1] /\ base[n + 1][key] = p
      BY <2>3
    <3>9. ASSUME NEW l \in 0 .. h, l > n + 1 PROVE ow[l] = base[l]
      <4>1. l # n + 1 /\ l > n
        BY <3>9
      <4>2. own[l] = base[l]
        BY <2>1, <4>1
      <4>3. ow[l] = own[l]
        <5>1. own \in [Nat -> [Int -> Nat]] /\ l \in Nat
          <6>1. own \in [Nat -> [Int -> Nat]]
            BY <2>1 DEF TreeOn, Levelled
          <6>2. l \in Nat
            OBVIOUS
          <6> QED
            BY <6>1, <6>2
        <5> QED
          BY <4>1, <5>1 DEF ow
      <4> QED
        BY <4>2, <4>3
    <3>10. Unsettled(t, h, n + 1, base, key)
      BY <3>1, <3>3, <3>8, <3>9 DEF Unsettled
    <3> QED
      BY <3>1, <3>7, <3>10 DEF t
  <2> QED
    BY <2>10, <2>11 DEF t
<1> QED
  BY <1>1, <1>2

\* insert_into_parent up the whole path: at every level the split waits for
\* the next one or is settled.
LEMMA PropagatedKeeps ==
  ASSUME NEW h, NEW lvl, NEW own, Tree(nodes, root_page_id, h, lvl, own), NEW key \in Int,
         NEW split, Unsettled(split, h, 0, own, key)
  PROVE  LET t == Propagated(key, split) IN
         /\ Settled(t, h, root_page_id) \/ Unsettled(t, h, h, own, key)
         /\ Grown(split.nodes, t.nodes)
<1> DEFINE P == Path(key)
           H == Height(key)
           Up(f, m) == f = [n \in 0 .. m |-> IF n = 0 THEN split ELSE AtParent(f[n - 1], P[H - n], key)]
           G(m) == \E f : Up(f, m)
           Made == {m \in Nat : G(m)}
<1>1. 0 \in Made
  <2> DEFINE f == [n \in 0 .. 0 |-> split]
  <2>1. Up(f, 0)
    OBVIOUS
  <2> QED
    BY <2>1
<1>2. ASSUME NEW m \in Nat, m \in Made PROVE m + 1 \in Made
  <2>1. PICK f : Up(f, m)
    BY <1>2
  <2> DEFINE g == [n \in 0 .. m + 1 |-> IF n <= m THEN f[n] ELSE AtParent(f[m], P[H - (m + 1)], key)]
  <2>2. ASSUME NEW n \in 0 .. m + 1
        PROVE  g[n] = IF n = 0 THEN split ELSE AtParent(g[n - 1], P[H - n], key)
    <3>1. CASE n <= m
      <4>1. n \in 0 .. m /\ g[n] = f[n] /\ (n # 0 => n - 1 \in 0 .. m + 1 /\ n - 1 <= m /\ g[n - 1] = f[n - 1])
        BY <3>1
      <4>2. f[n] = IF n = 0 THEN split ELSE AtParent(f[n - 1], P[H - n], key)
        BY <2>1, <4>1
      <4> HIDE DEF g
      <4> QED
        BY <4>1, <4>2
    <3>2. CASE ~(n <= m)
      <4>1. n = m + 1 /\ n # 0 /\ n - 1 = m /\ m \in 0 .. m + 1 /\ m <= m
        BY <3>2
      <4>2. g[m] = f[m]
        BY <4>1
      <4>3. g[n] = AtParent(f[m], P[H - (m + 1)], key)
        BY <3>2
      <4> HIDE DEF g
      <4> QED
        BY <4>1, <4>2, <4>3
    <3> QED
      BY <3>1, <3>2
  <2>3. g = [n \in 0 .. m + 1 |-> g[n]]
    OBVIOUS
  <2> HIDE DEF g
  <2>4. Up(g, m + 1)
    BY <2>2, <2>3
  <2>5. G(m + 1)
    BY <2>4
  <2> HIDE DEF G
  <2> QED
    BY <2>5
<1>3. /\ H = h /\ h \in Nat /\ h <= MaxLevels - 1 /\ MaxLevels - 1 \in Nat
      /\ P = [n \in 0 .. MaxLevels - 1 |-> own[IF n <= h THEN h - n ELSE 0][key]]
  BY PathFacts, TreeAssumption
<1> DEFINE u == CHOOSE f : Up(f, H)
<1>4. Up(u, H)
  <2>1. Nat \subseteq Made
    <3> HIDE DEF Made
    <3> QED
      BY <1>1, <1>2, NatsBelong
  <2>2. G(H)
    BY <1>3, <2>1
  <2> QED
    BY <2>2
<1>5. Propagated(key, split) = u[H]
  BY DEF Propagated
<1> HIDE DEF u, P, H, G, Made
<1>6. /\ u[0] = split
      /\ \A n \in 0 .. h : n # 0 => u[n] = AtParent(u[n - 1], own[n][key], key)
  <2>1. u = [n \in 0 .. h |-> IF n = 0 THEN split ELSE AtParent(u[n - 1], P[h - n], key)]
    BY <1>3, <1>4
  <2>2. 0 \in 0 .. h
    BY <1>3
  <2>3. ASSUME NEW n \in 0 .. h PROVE P[h - n] = own[n][key]
    <3>1. h - n \in 0 .. MaxLevels - 1 /\ h - n <= h /\ h - (h - n) = n
      BY <1>3
    <3> QED
      BY <1>3, <3>1
  <2> QED
    BY <2>1, <2>2, <2>3
<1> HIDE DEF Up
<1> DEFINE Good(n) == /\ Settled(u[n], h, root_page_id) \/ Unsettled(u[n], h, n, own, key)
                      /\ Grown(split.nodes, u[n].nodes)
           Keeps == {n \in Nat : n <= h => Good(n)}
<1>7. 0 \in Keeps
  <2>1. Grown(split.nodes, split.nodes)
    BY DEF Grown
  <2> QED
    BY <1>6, <2>1
<1>8. ASSUME NEW n \in Nat, n \in Keeps PROVE n + 1 \in Keeps
  <2> SUFFICES ASSUME n + 1 <= h PROVE Good(n + 1)
    OBVIOUS
  <2>1. n + 1 \in 0 .. h /\ n + 1 \in 1 .. h /\ n + 1 # 0 /\ (n + 1) - 1 = n /\ n <= h
    BY <1>3
  <2>2. Good(n) /\ u[n + 1] = AtParent(u[n], own[n + 1][key], key)
    BY <1>6, <1>8, <2>1
  <2>3. \A k \in Int : own[h][k] = root_page_id
    BY DEF Tree
  <2>4. /\ Settled(u[n + 1], h, root_page_id) \/ Unsettled(u[n + 1], h, n + 1, own, key)
        /\ Grown(u[n].nodes, u[n + 1].nodes)
    BY <1>3, <2>1, <2>2, <2>3, AtParentKeeps
  <2>5. Grown(split.nodes, u[n + 1].nodes)
    BY <2>2, <2>4 DEF Grown
  <2> QED
    BY <2>4, <2>5
<1>9. Good(h)
  <2>1. Nat \subseteq Keeps
    <3> HIDE DEF Keeps
    <3> QED
      BY <1>7, <1>8, NatsBelong
  <2> HIDE DEF Good
  <2> QED
    BY <1>3, <2>1
<1> QED
  BY <1>3, <1>5, <1>9

\* The new root above the halves of the old one.
LEMMA NewRoot ==
  ASSUME NEW ns, NEW h, NEW lvl, NEW own, NEW see, TreeOn(ns, h, lvl, own, see),
         NEW root, NEW s, NEW r, Waiting(h, own, see, h, root, s, r),
         \A k \in Int : see[h][k] = root, h + 1 < MaxLevels
  PROVE  LET top == Len(ns) + 1
             ms == Append(ns, Internal(<<s>>, <<root, r>>)) IN
         /\ \E lv, ow : Tree(ms, top, h + 1, lv, ow)
         /\ Grown(ns, ms)
<1> DEFINE top == Len(ns) + 1
           n == Internal(<<s>>, <<root, r>>)
           ms == Append(ns, n)
           f == [k \in Int |-> top]
           lv == [lvl EXCEPT ![top] = h + 1]
           ow == [own EXCEPT ![h + 1] = f]
           g == own[h]
<1>1. /\ ns \in Seq(Node) /\ Levelled(DOMAIN ns, h, lvl, own)
      /\ Linking(ns, own[0], Leaves(ns, lvl)) /\ Nested(h, own, see)
      /\ h \in Nat /\ h \in 0 .. h /\ 0 \in 0 .. h
  BY TreeHeight DEF TreeOn, NodesOn, Node
<1>2. /\ s \in Keys /\ s \in Int /\ s - 1 \in Int /\ r \in Nat /\ root \in Nat
      /\ see[h] \in [Int -> Nat] /\ Convex(see[h]) /\ \A k \in Int : see[h][k] # r
      /\ g = Divided(see[h], root, s, r) /\ \A i \in Nat : i # h => own[i] = see[i]
  <2>1. s \in Keys /\ s \in Int
    BY TreeAssumption DEF Waiting
  <2>2. s - 1 \in Int
    BY <2>1
  <2>3. /\ r \in Nat /\ see \in [Nat -> [Int -> Nat]] /\ Convex(see[h])
        /\ see[h][s] = root /\ \A k \in Int : see[h][k] # r
        /\ own = [see EXCEPT ![h] = Divided(see[h], root, s, r)]
    BY DEF Waiting
  <2>4. see[h] \in [Int -> Nat] /\ root \in Nat
    BY <1>1, <2>1, <2>3
  <2> QED
    BY <1>1, <2>1, <2>2, <2>3, <2>4
<1>3. Divides(g, see[h], root, s, r)
  BY <1>2, Division
<1>4. /\ g \in [Int -> Nat] /\ g[s] = r /\ g[s - 1] = root /\ root # r
      /\ \A k \in Int : (k < s => g[k] = root) /\ (k >= s => g[k] = r)
  BY <1>3 DEF Divides
<1>5. /\ ms \in Seq(Node) /\ DOMAIN ms = DOMAIN ns \cup {top}
      /\ top \in Nat /\ top \notin DOMAIN ns /\ DOMAIN ns \subseteq Nat
      /\ ms[top] = n /\ \A x \in DOMAIN ns : ms[x] = ns[x]
  <2>1. n \in InternalNode
    <3>1. <<s>> \in Seq(Keys) /\ <<root, r>> \in Seq(Nat)
      BY <1>2
    <3> QED
      BY <3>1 DEF Internal, InternalNode
  <2>2. n \in Node
    BY <2>1 DEF Node
  <2> HIDE DEF n
  <2>3. Len(ns) \in Nat /\ DOMAIN ns = 1 .. Len(ns)
    BY <1>1
  <2>4. /\ ms \in Seq(Node) /\ Len(ms) = Len(ns) + 1 /\ ms[Len(ns) + 1] = n
        /\ \A x \in 1 .. Len(ns) : ms[x] = ns[x]
    BY <1>1, <2>2, AppendProperties
  <2> HIDE DEF ms
  <2>5. DOMAIN ms = 1 .. Len(ns) + 1
    BY <2>4
  <2>6. \A x \in Nat : 1 .. x + 1 = (1 .. x) \cup {x + 1} /\ x + 1 \in Nat /\ x + 1 \notin 1 .. x
    OBVIOUS
  <2>7. \A x \in Nat : 1 .. x \subseteq Nat
    OBVIOUS
  <2> QED
    BY <2>3, <2>4, <2>5, <2>6, <2>7
<1> HIDE DEF top, ms, g
<1>6. InternalOn(n, top, f, g, internal_max_keys)
  <2> DEFINE keys == <<s>>
             child == <<root, r>>
  <2>1. /\ keys \in Seq(Keys) /\ child \in Seq(Nat) /\ Len(keys) = 1 /\ Len(child) = 2
        /\ DOMAIN keys = 1 .. 1 /\ keys[1] = s /\ child[1] = root /\ child[2] = r
    BY <1>2
  <2>2. internal_max_keys \in Nat /\ 1 <= internal_max_keys
    BY TreeAssumption
  <2> HIDE DEF keys, child
  <2>3. \A i \in DOMAIN keys : i = 1
    BY <2>1
  <2>4. Ascending(keys)
    BY <2>3 DEF Ascending
  <2>5. \A i \in DOMAIN keys : f[keys[i]] = top /\ f[keys[i] - 1] = top /\ g[keys[i]] # g[keys[i] - 1]
    BY <1>2, <1>4, <2>1, <2>3
  <2>6. ASSUME NEW k \in Int PROVE child[UpTo(keys, k) + 1] = g[k]
    <3>1. k < s \/ k >= s
      BY <1>2
    <3>2. CASE k < s
      <4>1. {i \in DOMAIN keys : keys[i] <= k} = {}
        BY <1>2, <2>1, <2>3, <3>2
      <4>2. UpTo(keys, k) = 0
        BY <4>1, FS_EmptySet DEF UpTo
      <4> QED
        BY <1>4, <2>1, <3>2, <4>2
    <3>3. CASE k >= s
      <4>1. {i \in DOMAIN keys : keys[i] <= k} = {1}
        BY <1>2, <2>1, <2>3, <3>3
      <4>2. UpTo(keys, k) = 1
        BY <4>1, FS_Singleton DEF UpTo
      <4> QED
        BY <1>4, <2>1, <3>3, <4>2
    <3> QED
      BY <3>1, <3>2, <3>3
  <2>7. Len(keys) >= 1 /\ Len(keys) <= internal_max_keys /\ Len(child) = Len(keys) + 1
    BY <2>1, <2>2
  <2> HIDE DEF f
  <2>8. InternalOn(Internal(keys, child), top, f, g, internal_max_keys)
    BY <2>1, <2>4, <2>5, <2>6, <2>7, InternalMade
  <2> QED
    BY <2>8 DEF keys, child
<1>7. f \in [Int -> Nat] /\ \A k \in Int : f[k] = top
  BY <1>5
<1> HIDE DEF f, n
<1>8. /\ lvl \in [Nat -> Nat] /\ own \in [Nat -> [Int -> Nat]]
      /\ \A x \in DOMAIN ns : lvl[x] \in 0 .. h /\ \E k \in Int : own[lvl[x]][k] = x
      /\ \A i \in 0 .. h : Convex(own[i])
      /\ \A i \in 0 .. h : \A k \in Int : own[i][k] \in DOMAIN ns /\ lvl[own[i][k]] = i
  BY <1>1 DEF Levelled
<1>9. h + 1 \in Nat /\ \A i \in 0 .. h : i \in Nat /\ i # h + 1 /\ i \in 0 .. h + 1
  BY <1>1
<1>10. /\ lv \in [Nat -> Nat] /\ lv[top] = h + 1 /\ \A x \in DOMAIN ns : x # top /\ lv[x] = lvl[x]
       /\ ow \in [Nat -> [Int -> Nat]] /\ ow[h + 1] = f /\ \A i \in 0 .. h : ow[i] = own[i]
  BY <1>5, <1>7, <1>8, <1>9
<1> HIDE DEF lv, ow
<1>11. Levelled(DOMAIN ms, h + 1, lv, ow)
  <2>1. ASSUME NEW i \in 0 .. h + 1
        PROVE  Convex(ow[i]) /\ \A k \in Int : ow[i][k] \in DOMAIN ms /\ lv[ow[i][k]] = i
    <3>1. CASE i = h + 1
      BY <1>5, <1>7, <1>10, <3>1 DEF Convex
    <3>2. CASE i # h + 1
      <4>1. i \in 0 .. h
        BY <1>1, <3>2
      <4>2. Convex(ow[i])
        BY <1>8, <1>10, <4>1
      <4>3. ASSUME NEW k \in Int PROVE ow[i][k] \in DOMAIN ms /\ lv[ow[i][k]] = i
        BY <1>5, <1>8, <1>10, <4>1, ZenonT(30)
      <4> QED
        BY <4>2, <4>3
    <3> QED
      BY <3>1, <3>2
  <2>2. ASSUME NEW x \in DOMAIN ms PROVE lv[x] \in 0 .. h + 1 /\ \E k \in Int : ow[lv[x]][k] = x
    <3>1. CASE x = top
      <4>1. h + 1 \in 0 .. h + 1 /\ 0 \in Int
        BY <1>9
      <4> QED
        BY <1>7, <1>10, <3>1, <4>1
    <3>2. CASE x # top
      <4>1. x \in DOMAIN ns /\ lv[x] = lvl[x] /\ lvl[x] \in 0 .. h
        BY <1>5, <1>8, <1>10, <3>2
      <4>2. lvl[x] \in 0 .. h + 1 /\ ow[lvl[x]] = own[lvl[x]]
        BY <1>9, <1>10, <4>1
      <4>3. \E k \in Int : own[lvl[x]][k] = x
        BY <1>8, <4>1
      <4> QED
        BY <4>1, <4>2, <4>3
    <3> QED
      BY <3>1, <3>2
  <2> QED
    BY <1>9, <1>10, <2>1, <2>2 DEF Levelled
<1>12. Nested(h + 1, ow, ow)
  <2>1. ASSUME NEW l \in 1 .. h + 1, NEW a \in Int, NEW b \in Int, ow[l - 1][a] = ow[l - 1][b]
        PROVE  ow[l][a] = ow[l][b]
    <3>1. CASE l = h + 1
      BY <1>7, <1>10, <3>1
    <3>2. CASE l # h + 1
      <4>1. l \in 1 .. h /\ l \in 0 .. h /\ l - 1 \in 0 .. h /\ l - 1 \in Nat /\ l - 1 # h
        BY <1>1, <3>2
      <4>2. see[l - 1][a] = see[l - 1][b]
        BY <1>2, <1>10, <2>1, <4>1
      <4> QED
        BY <1>1, <1>10, <4>1, <4>2, ZenonT(30) DEF Nested
    <3> QED
      BY <3>1, <3>2
  <2> QED
    BY <2>1 DEF Nested
<1>13. ASSUME NEW x \in DOMAIN ms
       PROVE  /\ lv[x] = 0 => LeafOn(ms[x], x, ow[0], leaf_max_keys)
              /\ lv[x] # 0 => InternalOn(ms[x], x, ow[lv[x]], ow[lv[x] - 1], internal_max_keys)
  <2>1. CASE x = top
    <3>1. h + 1 # 0 /\ (h + 1) - 1 = h
      BY <1>1
    <3> QED
      BY <1>1, <1>5, <1>6, <1>10, <2>1, <3>1 DEF g
  <2>2. CASE x # top
    <3>1. x \in DOMAIN ns /\ ms[x] = ns[x] /\ lv[x] = lvl[x] /\ lvl[x] \in 0 .. h
      BY <1>5, <1>8, <1>10, <2>2
    <3>2. CASE lvl[x] = 0
      <4>1. LeafOn(ns[x], x, own[0], leaf_max_keys)
        BY <3>1, <3>2 DEF TreeOn, NodesOn
      <4> QED
        BY <1>1, <1>10, <3>1, <3>2, <4>1
    <3>3. CASE lvl[x] # 0
      <4>1. InternalOn(ns[x], x, own[lvl[x]], see[lvl[x] - 1], internal_max_keys)
        BY <3>1, <3>3 DEF TreeOn, NodesOn
      <4>2. lvl[x] - 1 \in 0 .. h /\ lvl[x] - 1 \in Nat /\ lvl[x] - 1 # h
        BY <1>1, <3>1, <3>3
      <4>3. ow[lvl[x]] = own[lvl[x]] /\ ow[lvl[x] - 1] = see[lvl[x] - 1]
        BY <1>2, <1>10, <3>1, <4>2
      <4> QED
        BY <3>1, <3>3, <4>1, <4>3
    <3> QED
      BY <3>2, <3>3
  <2> QED
    BY <2>1, <2>2
<1>14. NodesOn(ms, lv, ow, ow)
  BY <1>5, <1>13 DEF NodesOn, Node
<1>15. Linking(ms, ow[0], Leaves(ms, lv))
  <2>1. Leaves(ms, lv) = Leaves(ns, lvl)
    <3>1. lv[top] # 0
      BY <1>1, <1>10
    <3> QED
      BY <1>5, <1>10, <3>1 DEF Leaves
  <2>2. \A x \in Leaves(ns, lvl) : ms[x] = ns[x]
    BY <1>5 DEF Leaves
  <2>3. \A k \in Int : own[0][k] \in Leaves(ns, lvl)
    BY <1>1, <1>8 DEF Leaves
  <2> QED
    BY <1>1, <1>10, <2>1, <2>2, <2>3, LinkingKept
<1>16. TreeOn(ms, h + 1, lv, ow, ow)
  BY <1>11, <1>12, <1>14, <1>15 DEF TreeOn
<1>17. Tree(ms, top, h + 1, lv, ow)
  BY <1>7, <1>10, <1>16 DEF Tree
<1>18. Grown(ns, ms)
  <2>1. DOMAIN ns \subseteq DOMAIN ms
    BY <1>5
  <2>2. ~n.leaf
    BY DEF n, Internal
  <2>3. \A x \in DOMAIN ms : IF x \in DOMAIN ns /\ ns[x].leaf THEN ms[x] = ns[x] ELSE ~ms[x].leaf
    BY <1>5, <2>2
  <2> QED
    BY <2>1, <2>3, OnlyInternal
<1> QED
  BY <1>17, <1>18 DEF ms, top, n

-----------------------------------------------------------------------------
(* What the operations do to a tree and to its entries *)

\* The entries of the tree are those of its leaves, and those with a key are in
\* the leaf for it.
LEMMA HeldAt ==
  ASSUME NEW h, NEW lvl, NEW own, Tree(nodes, root_page_id, h, lvl, own),
         NEW e, NEW x \in Pages, nodes[x].leaf, Holds(nodes[x], e)
  PROVE  e[1] \in Keys /\ x = LeafFor(e[1])
<1>1. PICK i \in DOMAIN nodes[x].keys : e = <<nodes[x].keys[i], nodes[x].rids[i]>>
  BY DEF Holds
<1>2. e[1] = nodes[x].keys[i]
  BY <1>1
<1> QED
  BY <1>2, HeldIsFound

\* What is held once the leaf for key is another one.
LEMMA HeldReplaced ==
  ASSUME NEW h, NEW lvl, NEW own, Tree(nodes, root_page_id, h, lvl, own),
         NEW key \in Int, NEW n, n.leaf, NEW e
  PROVE  LET p == LeafFor(key)
             ms == [nodes EXCEPT ![p] = n] IN
         /\ p \in Pages /\ nodes[p].leaf /\ DOMAIN ms = DOMAIN nodes
         /\ HeldIn(ms, e) <=> Holds(n, e) \/ (HeldIn(nodes, e) /\ ~Holds(nodes[p], e))
         /\ HeldIn(nodes, e) /\ e[1] = key => Holds(nodes[p], e)
         /\ Holds(nodes[p], e) => HeldIn(nodes, e)
<1> DEFINE p == LeafFor(key)
           ms == [nodes EXCEPT ![p] = n]
<1>1. /\ TreeOn(nodes, h, lvl, own, own) /\ p \in DOMAIN nodes /\ lvl[p] = 0
  BY PathFacts DEF Tree, Pages
<1>2. nodes[p].leaf
  BY <1>1, NodeFacts
<1>3. /\ DOMAIN ms = DOMAIN nodes /\ ms[p] = n
      /\ \A x \in DOMAIN nodes : x # p => ms[x] = nodes[x]
  BY <1>1
<1> HIDE DEF ms
<1>4. ASSUME HeldIn(ms, e) PROVE Holds(n, e) \/ (HeldIn(nodes, e) /\ ~Holds(nodes[p], e))
  <2>1. PICK x \in DOMAIN nodes : ms[x].leaf /\ Holds(ms[x], e)
    BY <1>3, <1>4 DEF HeldIn
  <2>2. CASE x = p
    BY <1>3, <2>1, <2>2
  <2>3. CASE x # p
    <3>1. nodes[x].leaf /\ Holds(nodes[x], e)
      BY <1>3, <2>1, <2>3
    <3>2. HeldIn(nodes, e)
      BY <3>1 DEF HeldIn
    <3>3. ASSUME Holds(nodes[p], e) PROVE FALSE
      <4>1. x = LeafFor(e[1]) /\ p = LeafFor(e[1])
        BY <1>1, <1>2, <3>1, <3>3, HeldAt DEF Pages
      <4> QED
        BY <2>3, <4>1
    <3> QED
      BY <3>2, <3>3
  <2> QED
    BY <2>2, <2>3
<1>5. ASSUME Holds(n, e) PROVE HeldIn(ms, e)
  BY <1>1, <1>3, <1>5 DEF HeldIn
<1>6. ASSUME HeldIn(nodes, e), ~Holds(nodes[p], e) PROVE HeldIn(ms, e)
  <2>1. PICK x \in DOMAIN nodes : nodes[x].leaf /\ Holds(nodes[x], e)
    BY <1>6 DEF HeldIn
  <2>2. x # p
    BY <1>6, <2>1
  <2> QED
    BY <1>3, <2>1, <2>2 DEF HeldIn
<1>7. ASSUME HeldIn(nodes, e), e[1] = key PROVE Holds(nodes[p], e)
  <2>1. PICK x \in DOMAIN nodes : nodes[x].leaf /\ Holds(nodes[x], e)
    BY <1>7 DEF HeldIn
  <2>2. x = p
    BY <1>7, <2>1, HeldAt DEF Pages
  <2> QED
    BY <2>1, <2>2
<1>8. ASSUME Holds(nodes[p], e) PROVE HeldIn(nodes, e)
  BY <1>1, <1>2, <1>8 DEF HeldIn
<1> QED
  BY <1>1, <1>2, <1>3, <1>4, <1>5, <1>6, <1>7, <1>8 DEF ms, Pages

\* Some levels and ranges make it a tree.
IsTree(ns, root) == \E h, lvl, own : Tree(ns, root, h, lvl, own)

\* Pages stay, and the entries are those before and x.
Gained(ns, ms, x) ==
  DOMAIN ns \subseteq DOMAIN ms /\ \A e : HeldIn(ms, e) <=> e = x \/ HeldIn(ns, e)

\* The leaf for a key, and what it is with one entry more.
LEMMA LeafGains ==
  ASSUME NEW h, NEW lvl, NEW own, Tree(nodes, root_page_id, h, lvl, own),
         NEW key \in Keys, NEW rid \in RidsOf[key], ~Has(nodes[LeafFor(key)], key)
  PROVE  LET p == LeafFor(key)
             m == WithEntry(key, rid) IN
         /\ p \in DOMAIN nodes /\ lvl[p] = 0 /\ own[0][key] = p /\ key \in Int
         /\ LeafOn(nodes[p], p, own[0], leaf_max_keys)
         /\ \A r \in Nat : Len(nodes[p].keys) < r => LeafOn(m, p, own[0], r)
         /\ Len(m.keys) = Len(nodes[p].keys) + 1 /\ m.next = nodes[p].next /\ m.leaf
         /\ Gained(nodes, [nodes EXCEPT ![p] = m], <<key, rid>>)
<1> DEFINE p == LeafFor(key)
           m == WithEntry(key, rid)
<1>1. key \in Int /\ rid \in Rids /\ leaf_max_keys \in Nat
  BY TreeAssumption DEF Rids
<1>2. /\ TreeOn(nodes, h, lvl, own, own) /\ p \in DOMAIN nodes /\ lvl[p] = 0 /\ own[0][key] = p
  BY <1>1, PathFacts DEF Tree, Pages
<1>3. LeafOn(nodes[p], p, own[0], leaf_max_keys)
  BY <1>2, NodeFacts
<1>4. m = leaf_insert(nodes[p], leaf_find_position(nodes[p], key), key, rid)
  BY DEF WithEntry
<1> HIDE DEF m, p
<1>5. /\ \A r \in Nat : Len(nodes[p].keys) < r => LeafOn(m, p, own[0], r)
      /\ Len(m.keys) = Len(nodes[p].keys) + 1 /\ m.next = nodes[p].next
      /\ \A e : Holds(m, e) <=> e = <<key, rid>> \/ Holds(nodes[p], e)
  <2>1. ~Has(nodes[p], key)
    BY DEF p
  <2> QED
    BY <1>1, <1>2, <1>3, <1>4, <2>1, LeafInserted
<1>6. m.leaf
  BY <1>4 DEF leaf_insert, Leaf
<1>7. Gained(nodes, [nodes EXCEPT ![p] = m], <<key, rid>>)
  <2>1. DOMAIN [nodes EXCEPT ![p] = m] = DOMAIN nodes
    OBVIOUS
  <2>2. ASSUME NEW e
        PROVE  HeldIn([nodes EXCEPT ![p] = m], e) <=> e = <<key, rid>> \/ HeldIn(nodes, e)
    <3>1. /\ HeldIn([nodes EXCEPT ![p] = m], e) <=> Holds(m, e) \/ (HeldIn(nodes, e) /\ ~Holds(nodes[p], e))
          /\ Holds(nodes[p], e) => HeldIn(nodes, e)
      BY <1>1, <1>6, HeldReplaced DEF p
    <3> QED
      BY <1>5, <3>1
  <2> QED
    BY <2>1, <2>2 DEF Gained
<1> QED
  BY <1>1, <1>2, <1>3, <1>5, <1>6, <1>7 DEF m, p

\* The leaf p was made m and split, other leaves stay.
Parted(ns, ms, p, m) ==
  /\ Len(ns) + 1 \in DOMAIN ms \ DOMAIN ns
  /\ ms[p] = LeftLeaf(m, Len(ns) + 1) /\ ms[Len(ns) + 1] = RightLeaf(m)
  /\ \A x \in DOMAIN ns : ns[x].leaf /\ x # p => ms[x] = ns[x]

\* What happens above the leaves does not matter for them.
LEMMA PartedGrown ==
  ASSUME NEW ns, NEW ks, NEW ms, NEW p \in DOMAIN ns, NEW m, DOMAIN ns \subseteq DOMAIN ks,
         Parted(ns, ks, p, m), Grown(ks, ms)
  PROVE  Parted(ns, ms, p, m)
<1> DEFINE r == Len(ns) + 1
<1>1. r \in DOMAIN ms \ DOMAIN ns
  BY DEF Parted, Grown
<1>2. ks[p].leaf /\ ks[r].leaf
  BY DEF Parted, LeftLeaf, RightLeaf, Leaf
<1>3. ms[p] = LeftLeaf(m, r) /\ ms[r] = RightLeaf(m)
  BY <1>2 DEF Parted, Grown
<1>4. \A x \in DOMAIN ns : ns[x].leaf /\ x # p => ms[x] = ns[x]
  BY DEF Parted, Grown
<1> QED
  BY <1>1, <1>3, <1>4 DEF Parted

\* An insertion that splits the leaf.
LEMMA SplitKeeps ==
  ASSUME NEW h, NEW lvl, NEW own, Tree(nodes, root_page_id, h, lvl, own),
         NEW key \in Keys, NEW rid \in RidsOf[key], ~Has(nodes[LeafFor(key)], key),
         Len(nodes[LeafFor(key)].keys) = leaf_max_keys,
         NEW after, after = Rooted(Propagated(key, LeafSplit(LeafFor(key), WithEntry(key, rid)))),
         after.root # root_page_id => Height(key) + 1 < MaxLevels
  PROVE  /\ IsTree(after.nodes, after.root) /\ Gained(nodes, after.nodes, <<key, rid>>)
         /\ Parted(nodes, after.nodes, LeafFor(key), WithEntry(key, rid))
<1> DEFINE p == LeafFor(key)
           m == WithEntry(key, rid)
           split == LeafSplit(p, m)
           t == Propagated(key, split)
           r == Len(nodes) + 1
           s == RightLeaf(m).keys[1]
           ow == [own EXCEPT ![0] = Divided(own[0], p, s, r)]
           lv == [lvl EXCEPT ![r] = 0]
<1>1. /\ p \in DOMAIN nodes /\ lvl[p] = 0 /\ own[0][key] = p /\ key \in Int
      /\ \A i \in Nat : Len(nodes[p].keys) < i => LeafOn(m, p, own[0], i)
      /\ Len(m.keys) = Len(nodes[p].keys) + 1 /\ m.next = nodes[p].next /\ m.leaf
      /\ Gained(nodes, [nodes EXCEPT ![p] = m], <<key, rid>>)
  BY LeafGains
<1>2. /\ leaf_max_keys + 1 \in Nat /\ leaf_max_keys < leaf_max_keys + 1
      /\ TreeOn(nodes, h, lvl, own, own) /\ h < MaxLevels
      /\ \A k \in Int : own[h][k] = root_page_id
  BY TreeAssumption DEF Tree
<1>3. h \in Nat /\ Height(key) = h
  BY <1>1, PathFacts
<1>4. LeafOn(m, p, own[0], leaf_max_keys + 1) /\ Len(m.keys) = leaf_max_keys + 1
  BY <1>1, <1>2
<1>5. /\ split.nodes = Append([nodes EXCEPT ![p] = LeftLeaf(m, r)], RightLeaf(m))
      /\ split.key = s /\ split.right = r
  BY DEF LeafSplit
<1> HIDE DEF m, p, split
<1>6. /\ TreeOn(split.nodes, h, lv, ow, own)
      /\ Waiting(h, ow, own, 0, p, s, r)
      /\ \A e : Holds(m, e) <=> Holds(LeftLeaf(m, r), e) \/ Holds(RightLeaf(m), e)
  <2> DEFINE ms == Append([nodes EXCEPT ![p] = LeftLeaf(m, r)], RightLeaf(m))
  <2>1. TreeOn(ms, h, lv, ow, own)
    BY <1>1, <1>2, <1>4, LeafSplitWaits
  <2>2. Waiting(h, ow, own, 0, p, s, r)
    BY <1>1, <1>2, <1>4, LeafSplitWaits
  <2>3. ASSUME NEW e PROVE Holds(m, e) <=> Holds(LeftLeaf(m, r), e) \/ Holds(RightLeaf(m), e)
    BY <1>1, <1>2, <1>4, LeafSplitWaits
  <2> HIDE DEF s, r, ow, lv
  <2> QED
    BY <1>5, <2>1, <2>2, <2>3
<1>7. Unsettled(split, h, 0, own, key)
  <2>1. ASSUME NEW l \in 0 .. h, l > 0 PROVE ow[l] = own[l]
    <3>1. own \in [Nat -> [Int -> Nat]]
      BY <1>2 DEF TreeOn, Levelled
    <3>2. l # 0
      BY <2>1
    <3> QED
      BY <3>1, <3>2
  <2>2. Waiting(h, ow, own, 0, own[0][key], split.key, split.right)
    BY <1>1, <1>5, <1>6
  <2> HIDE DEF ow, lv
  <2> QED
    BY <1>6, <2>1, <2>2 DEF Unsettled
<1>8. Settled(t, h, root_page_id) \/ Unsettled(t, h, h, own, key)
  BY <1>1, <1>7, PropagatedKeeps
<1>9. Grown(split.nodes, t.nodes)
  BY <1>1, <1>7, PropagatedKeeps
<1>10. Gained(nodes, split.nodes, <<key, rid>>) /\ Parted(nodes, split.nodes, p, m)
  <2> DEFINE a == LeftLeaf(m, r)
             b == RightLeaf(m)
             ns == split.nodes
             ms == [nodes EXCEPT ![p] = m]
             S == Node \cup {a, b}
  <2>1. a.leaf /\ b.leaf
    BY DEF LeftLeaf, RightLeaf, Leaf
  <2>2. nodes \in Seq(S) /\ a \in S /\ b \in S
    <3>1. nodes \in Seq(Node)
      BY <1>2 DEF TreeOn, NodesOn, Node
    <3> HIDE DEF a, b
    <3> QED
      BY <3>1
  <2> HIDE DEF S, a, b
  <2>3. /\ DOMAIN ns = DOMAIN nodes \cup {r} /\ r \notin DOMAIN nodes
        /\ ns[p] = a /\ ns[r] = b /\ \A x \in DOMAIN nodes : x # p => ns[x] = nodes[x]
    BY <1>1, <1>5, <2>2, ChangedAndAdded DEF a, b
  <2>4. /\ DOMAIN ms = DOMAIN nodes /\ ms[p] = m
        /\ \A x \in DOMAIN nodes : x # p => ms[x] = nodes[x]
    BY <1>1
  <2> HIDE DEF ns, ms, r
  <2>5. ASSUME NEW e PROVE HeldIn(ns, e) <=> HeldIn(ms, e)
    <3>1. Holds(m, e) <=> Holds(a, e) \/ Holds(b, e)
      BY <1>6 DEF a, b
    <3>2. ASSUME HeldIn(ns, e) PROVE HeldIn(ms, e)
      <4>1. PICK x \in DOMAIN ns : ns[x].leaf /\ Holds(ns[x], e)
        BY <3>2 DEF HeldIn
      <4>2. CASE x = p \/ x = r
        <5>1. Holds(m, e)
          BY <2>3, <3>1, <4>1, <4>2
        <5> QED
          BY <1>1, <2>4, <5>1 DEF HeldIn
      <4>3. CASE x # p /\ x # r
        <5>1. x \in DOMAIN ms /\ ms[x] = ns[x]
          BY <2>3, <2>4, <4>3
        <5> QED
          BY <4>1, <5>1 DEF HeldIn
      <4> QED
        BY <4>2, <4>3
    <3>3. ASSUME HeldIn(ms, e) PROVE HeldIn(ns, e)
      <4>1. PICK x \in DOMAIN ms : ms[x].leaf /\ Holds(ms[x], e)
        BY <3>3 DEF HeldIn
      <4>2. CASE x = p
        <5>1. Holds(a, e) \/ Holds(b, e)
          BY <2>4, <3>1, <4>1, <4>2
        <5>2. p \in DOMAIN ns /\ r \in DOMAIN ns /\ ns[p] = a /\ ns[r] = b
          BY <1>1, <2>3
        <5> QED
          BY <2>1, <5>1, <5>2 DEF HeldIn
      <4>3. CASE x # p
        <5>1. x \in DOMAIN ns /\ ns[x] = ms[x]
          BY <2>3, <2>4, <4>3
        <5> QED
          BY <4>1, <5>1 DEF HeldIn
      <4> QED
        BY <4>2, <4>3
    <3> QED
      BY <3>2, <3>3
  <2>6. Gained(nodes, ms, <<key, rid>>)
    BY <1>1 DEF ms
  <2>7. Gained(nodes, ns, <<key, rid>>)
    BY <2>3, <2>5, <2>6 DEF Gained
  <2>8. Parted(nodes, ns, p, m)
    BY <2>3 DEF Parted, a, b, r
  <2> QED
    BY <2>7, <2>8 DEF ns
<1> HIDE DEF t
<1>11. after = Rooted(t)
  BY DEF t, split, m, p
<1>12. CASE t.right = INVALID_PAGE_ID
  <2>1. after.nodes = t.nodes /\ after.root = root_page_id
    <3>1. after = [nodes |-> t.nodes, root |-> root_page_id]
      BY <1>11, <1>12 DEF Rooted
    <3> QED
      BY <3>1
  <2>2. Settled(t, h, root_page_id)
    <3>1. INVALID_PAGE_ID \notin Nat
      BY DEF INVALID_PAGE_ID
    <3> QED
      BY <1>8, <1>12, <3>1 DEF Unsettled, Waiting
  <2>3. IsTree(t.nodes, root_page_id)
    BY <1>2, <2>2 DEF Settled, Tree, IsTree
  <2>4. Gained(nodes, t.nodes, <<key, rid>>)
    BY <1>9, <1>10 DEF Gained, Grown
  <2>5. Parted(nodes, t.nodes, p, m)
    BY <1>1, <1>9, <1>10, PartedGrown DEF Gained
  <2> QED
    BY <2>1, <2>3, <2>4, <2>5 DEF p, m
<1>13. CASE t.right # INVALID_PAGE_ID
  <2> DEFINE top == Len(t.nodes) + 1
             ms == Append(t.nodes, Internal(<<t.key>>, <<root_page_id, t.right>>))
  <2>1. after.nodes = ms /\ after.root = top
    BY <1>11, <1>13 DEF Rooted
  <2>2. PICK lv2, own2, see :
          /\ TreeOn(t.nodes, h, lv2, own2, see)
          /\ Waiting(h, own2, see, h, own[h][key], t.key, t.right)
          /\ see[h] = own[h]
    BY <1>8, <1>13 DEF Settled, Unsettled
  <2>3. own[h][key] = root_page_id /\ \A k \in Int : see[h][k] = root_page_id
    BY <1>1, <1>2, <2>2
  <2>4. root_page_id # top
    <3>1. t.nodes \in Seq(Node)
      BY <2>2 DEF TreeOn, NodesOn, Node
    <3>2. DOMAIN t.nodes = 1 .. Len(t.nodes) /\ Len(t.nodes) \in Nat
      BY <3>1
    <3>3. root_page_id \in DOMAIN nodes
      <4>1. h \in 0 .. h
        BY <1>3
      <4>2. own[h][key] \in DOMAIN nodes
        BY <1>1, <1>2, <4>1, OwnFacts
      <4> QED
        BY <1>1, <1>2, <4>2
    <3>4. root_page_id \in DOMAIN t.nodes
      BY <1>9, <1>10, <3>3 DEF Grown, Gained
    <3>5. \A i \in Nat : i + 1 \notin 1 .. i
      OBVIOUS
    <3> QED
      BY <3>2, <3>4, <3>5
  <2>5. h + 1 < MaxLevels
    BY <1>3, <2>1, <2>4
  <2>6. Waiting(h, own2, see, h, root_page_id, t.key, t.right)
    BY <2>2, <2>3
  <2>7. \E lv3, ow3 : Tree(ms, top, h + 1, lv3, ow3)
    BY <2>2, <2>3, <2>5, <2>6, NewRoot
  <2>8. Grown(t.nodes, ms)
    BY <2>2, <2>3, <2>5, <2>6, NewRoot
  <2>9. Gained(nodes, ms, <<key, rid>>)
    BY <1>9, <1>10, <2>8 DEF Gained, Grown
  <2>10. Parted(nodes, ms, p, m)
    <3>1. Grown(split.nodes, ms)
      BY <1>9, <2>8 DEF Grown
    <3> QED
      BY <1>1, <1>10, <3>1, PartedGrown DEF Gained
  <2> HIDE DEF ms, top
  <2>11. IsTree(ms, top)
    BY <2>7 DEF IsTree
  <2> QED
    BY <2>1, <2>9, <2>10, <2>11 DEF p, m
<1> QED
  BY <1>12, <1>13

-----------------------------------------------------------------------------
(* The invariant *)

\* The nodes are a tree and pins are held on its pages.
TreeInv == IsTree(nodes, root_page_id) /\ leaked \subseteq Pages /\ starved \in BOOLEAN

LEMMA TreeInvFirst == TreeInit => TreeInv
<1> SUFFICES ASSUME TreeInit PROVE TreeInv
  OBVIOUS
<1> DEFINE n == Leaf(<<>>, <<>>, INVALID_PAGE_ID)
           lvl == [p \in Nat |-> 0]
           own == [l \in Nat |-> [k \in Int |-> 1]]
<1>1. nodes = <<n>> /\ root_page_id = 1 /\ leaked = {} /\ starved = FALSE
  BY DEF TreeInit
<1>2. /\ <<>> \in Seq(Keys) /\ <<>> \in Seq(Rids) /\ INVALID_PAGE_ID \in Int
      /\ Len(<<>>) = 0 /\ DOMAIN <<>> = {} /\ Ascending(<<>>)
      /\ leaf_max_keys \in Nat /\ 0 < MaxLevels
  BY TreeAssumption DEF Ascending, INVALID_PAGE_ID
<1>3. n.next = INVALID_PAGE_ID /\ n \in LeafNode /\ n.keys = <<>> /\ n.rids = <<>>
  BY <1>2 DEF Leaf, LeafNode
<1>4. LeafOn(n, 1, own[0], leaf_max_keys)
  <2> HIDE DEF n, own
  <2> QED
    BY <1>2, <1>3 DEF LeafOn
<1> HIDE DEF n
<1>5. /\ nodes \in Seq(LeafNode \cup InternalNode) /\ DOMAIN nodes = 1 .. 1 /\ nodes[1] = n
      /\ \A p \in DOMAIN nodes : p = 1
  <2> HIDE DEF LeafNode, InternalNode
  <2> QED
    BY <1>1, <1>3
<1>6. /\ lvl \in [Nat -> Nat] /\ lvl[1] = 0 /\ own \in [Nat -> [Int -> Nat]]
      /\ \A k \in Int : own[0][k] = 1
  OBVIOUS
<1> HIDE DEF lvl, own
<1>7. Levelled(DOMAIN nodes, 0, lvl, own)
  <2>1. \A l \in 0 .. 0 : l = 0
    OBVIOUS
  <2>2. Convex(own[0])
    BY <1>6 DEF Convex
  <2>3. 0 \in 0 .. 0 /\ 0 \in Int
    OBVIOUS
  <2>4. ASSUME NEW l \in 0 .. 0
        PROVE  Convex(own[l]) /\ \A k \in Int : own[l][k] \in DOMAIN nodes /\ lvl[own[l][k]] = l
    <3>1. l = 0 /\ 1 \in DOMAIN nodes
      BY <1>5, <2>1
    <3> QED
      BY <1>6, <2>2, <3>1
  <2>5. ASSUME NEW p \in DOMAIN nodes PROVE lvl[p] \in 0 .. 0 /\ \E k \in Int : own[lvl[p]][k] = p
    BY <1>5, <1>6, <2>3
  <2>6. 0 \in Nat
    OBVIOUS
  <2> QED
    BY <1>6, <2>4, <2>5, <2>6 DEF Levelled
<1>8. Nested(0, own, own)
  BY DEF Nested
<1>9. NodesOn(nodes, lvl, own, own)
  BY <1>4, <1>5, <1>6 DEF NodesOn
<1>10. Linking(nodes, own[0], Leaves(nodes, lvl))
  <2>1. \A k \in Int : k + 1 \in Int
    OBVIOUS
  <2>2. \A k \in Int : own[0][k + 1] = own[0][k]
    BY <1>6, <2>1
  <2>3. \A p \in Leaves(nodes, lvl) : nodes[p].next = INVALID_PAGE_ID
    BY <1>3, <1>5 DEF Leaves
  <2>4. \A k \in Int : own[0][k] = own[0][Bottom]
    BY <1>6, BottomBelow
  <2> QED
    BY <2>2, <2>3, <2>4 DEF Linking
<1>11. Tree(nodes, root_page_id, 0, lvl, own)
  BY <1>1, <1>2, <1>6, <1>7, <1>8, <1>9, <1>10 DEF Tree, TreeOn
<1> QED
  BY <1>1, <1>11 DEF TreeInv, IsTree

\* The entries as before.
Untouched == \A e : HeldIn(nodes', e) <=> HeldIn(nodes, e)

\* The key has the row id and no other, and in a unique index had none before.
Put(key, rid) ==
  /\ is_unique => \A e : HeldIn(nodes, e) => e[1] # key
  /\ \A e : HeldIn(nodes', e) <=> e = <<key, rid>> \/ (HeldIn(nodes, e) /\ e[1] # key)

\* The key was there and is not any more.
Gone(key) ==
  /\ \E e : HeldIn(nodes, e) /\ e[1] = key
  /\ \A e : HeldIn(nodes', e) <=> HeldIn(nodes, e) /\ e[1] # key

\* What every step does.
TreeStep ==
  /\ TreeInv' /\ is_unique' = is_unique
  /\ \/ starved' = TRUE
     \/ /\ starved' = starved
        /\ \/ Untouched
           \/ \E key \in Keys : \E rid \in Rids : Put(key, rid)
           \/ \E key \in Keys : Gone(key)

\* The nodes stay, pins may be added.
LEMMA NodesStay ==
  ASSUME TreeInv, UNCHANGED treeVars, leaked' \subseteq Pages, starved' \in BOOLEAN,
         starved' = TRUE \/ starved' = starved
  PROVE  TreeStep
<1>1. nodes' = nodes /\ root_page_id' = root_page_id /\ is_unique' = is_unique
  BY DEF treeVars, settings
<1>2. TreeInv'
  BY <1>1 DEF TreeInv, Pages
<1>3. Untouched
  BY <1>1 DEF Untouched
<1> QED
  BY <1>1, <1>2, <1>3 DEF TreeStep

\* The leaf for key is replaced.
LEMMA LeafSteps ==
  ASSUME NEW h, NEW lvl, NEW own, Tree(nodes, root_page_id, h, lvl, own), TreeInv,
         NEW key \in Keys, NEW n, LeafOn(n, LeafFor(key), own[0], leaf_max_keys),
         n.next = nodes[LeafFor(key)].next, LeafBecomes(key, n),
         leaked' \subseteq Pages, starved' = starved
  PROVE  /\ TreeInv' /\ is_unique' = is_unique
         /\ \A e : /\ HeldIn(nodes', e) <=>
                        Holds(n, e) \/ (HeldIn(nodes, e) /\ ~Holds(nodes[LeafFor(key)], e))
                   /\ HeldIn(nodes, e) /\ e[1] = key => Holds(nodes[LeafFor(key)], e)
                   /\ Holds(nodes[LeafFor(key)], e) => HeldIn(nodes, e)
<1> DEFINE p == LeafFor(key)
           ms == [nodes EXCEPT ![p] = n]
<1>1. nodes' = ms /\ root_page_id' = root_page_id /\ is_unique' = is_unique
  BY DEF LeafBecomes, settings
<1>2. key \in Int
  BY TreeAssumption
<1>3. /\ TreeOn(nodes, h, lvl, own, own) /\ p \in DOMAIN nodes /\ lvl[p] = 0
      /\ h < MaxLevels /\ \A k \in Int : own[h][k] = root_page_id
  BY <1>2, PathFacts DEF Tree, Pages
<1>4. TreeOn(ms, h, lvl, own, own)
  BY <1>3, LeafReplaced
<1>5. Tree(ms, root_page_id, h, lvl, own)
  BY <1>3, <1>4 DEF Tree
<1>6. n.leaf
  <2>1. n \in LeafNode
    BY DEF LeafOn
  <2> QED
    BY <2>1 DEF LeafNode
<1>7. DOMAIN ms = DOMAIN nodes
  OBVIOUS
<1>8. ASSUME NEW e
      PROVE  /\ HeldIn(ms, e) <=> Holds(n, e) \/ (HeldIn(nodes, e) /\ ~Holds(nodes[p], e))
             /\ HeldIn(nodes, e) /\ e[1] = key => Holds(nodes[p], e)
             /\ Holds(nodes[p], e) => HeldIn(nodes, e)
  BY <1>2, <1>6, HeldReplaced
<1> HIDE DEF ms, p
<1>9. TreeInv'
  BY <1>1, <1>5, <1>7 DEF TreeInv, IsTree, Pages
<1> QED
  BY <1>1, <1>8, <1>9 DEF p

-----------------------------------------------------------------------------
(* One lemma per operation *)

LEMMA LeafIsPage ==
  ASSUME TreeInv, NEW key \in Keys
  PROVE  LeafFor(key) \in Pages /\ leaked \cup {LeafFor(key)} \subseteq Pages
<1>1. PICK h, lvl, own : Tree(nodes, root_page_id, h, lvl, own)
  BY DEF TreeInv, IsTree
<1>2. key \in Int
  BY TreeAssumption
<1>3. own[0][key] \in Pages /\ LeafFor(key) = own[0][key]
  BY <1>1, <1>2, PathFacts
<1> QED
  BY <1>3 DEF TreeInv

\* A key that its leaf does not have is nowhere.
LEMMA KeyAbsent ==
  ASSUME NEW h, NEW lvl, NEW own, Tree(nodes, root_page_id, h, lvl, own),
         NEW key \in Keys, ~Has(nodes[LeafFor(key)], key), NEW e, HeldIn(nodes, e)
  PROVE  e[1] # key
<1> DEFINE p == LeafFor(key)
<1>1. key \in Int
  BY TreeAssumption
<1>2. LeafOn(nodes[p], p, own[0], leaf_max_keys) /\ leaf_max_keys \in Nat
  <2>1. TreeOn(nodes, h, lvl, own, own) /\ p \in DOMAIN nodes /\ lvl[p] = 0
    BY <1>1, PathFacts DEF Tree, Pages
  <2> QED
    BY <2>1, NodeFacts, TreeAssumption
<1> SUFFICES ASSUME e[1] = key PROVE FALSE
  OBVIOUS
<1>3. PICK x \in DOMAIN nodes : nodes[x].leaf /\ Holds(nodes[x], e)
  BY DEF HeldIn
<1>4. x = p
  BY <1>3, HeldAt DEF Pages
<1>5. PICK i \in DOMAIN nodes[p].keys : e = <<nodes[p].keys[i], nodes[p].rids[i]>>
  BY <1>3, <1>4 DEF Holds
<1>6. nodes[p].keys[i] = key
  BY <1>5
<1> HIDE DEF p
<1> DEFINE c == leaf_find_position(nodes[p], key)
<1>7. /\ i <= c => nodes[p].keys[i] < key
      /\ i > c => nodes[p].keys[i] > key
  <2>1. ~Has(nodes[p], key)
    BY DEF p
  <2> QED
    BY <1>1, <1>2, <1>5, <2>1, LeafPosition
<1>8. c \in 0 .. Len(nodes[p].keys)
  BY <1>1, <1>2, LeafPosition
<1>9. i \in 1 .. Len(nodes[p].keys) /\ Len(nodes[p].keys) \in Nat
  BY <1>2, <1>5, LeafShape
<1> HIDE DEF c
<1>10. i <= c \/ i > c
  <2>1. c \in Nat /\ i \in Nat
    BY <1>8, <1>9
  <2> QED
    BY <2>1
<1> QED
  BY <1>1, <1>6, <1>7, <1>10

LEMMA NotReachedSteps ==
  ASSUME TreeInv, NEW key, NotReached(key)
  PROVE  TreeStep
<1>1. leaked' = leaked /\ starved' = TRUE /\ UNCHANGED treeVars
  BY DEF NotReached
<1>2. leaked' \subseteq Pages
  BY <1>1 DEF TreeInv
<1> QED
  BY <1>1, <1>2, NodesStay

LEMMA PinSteps ==
  ASSUME TreeInv, NEW key \in Keys, LeavesPin(key), UNCHANGED treeVars
  PROVE  TreeStep
<1>1. leaked' = leaked \cup {LeafFor(key)} /\ starved' = starved
  BY DEF LeavesPin
<1>2. leaked' \subseteq Pages
  BY <1>1, LeafIsPage
<1>3. starved' \in BOOLEAN
  BY <1>1 DEF TreeInv
<1> QED
  BY <1>1, <1>2, <1>3, NodesStay

LEMMA PresentSteps ==
  ASSUME TreeInv, NEW key \in Keys, NEW rid \in RidsOf[key], InsertPresent(key, rid)
  PROVE  TreeStep
<1> DEFINE p == LeafFor(key)
           n == nodes[p]
           m == leaf_set_rid(n, leaf_find_position(n, key), rid)
<1>1. CASE LeavesPin(key) /\ UNCHANGED treeVars
  BY <1>1, PinSteps
<1>2. CASE ~is_unique /\ LeafBecomes(key, m) /\ UNCHANGED poolVars /\ Has(n, key)
  <2>1. PICK h, lvl, own : Tree(nodes, root_page_id, h, lvl, own)
    BY DEF TreeInv, IsTree
  <2>2. key \in Int /\ rid \in Rids /\ leaf_max_keys \in Nat
    BY TreeAssumption DEF Rids
  <2>3. LeafOn(n, p, own[0], leaf_max_keys)
    <3>1. TreeOn(nodes, h, lvl, own, own) /\ p \in DOMAIN nodes /\ lvl[p] = 0
      BY <2>1, <2>2, PathFacts DEF Tree, Pages
    <3> QED
      BY <3>1, NodeFacts
  <2> HIDE DEF p
  <2>4. /\ LeafOn(m, p, own[0], leaf_max_keys) /\ m.next = n.next
        /\ \A e : Holds(m, e) <=> e = <<key, rid>> \/ (Holds(n, e) /\ e[1] # key)
    BY <1>2, <2>2, <2>3, LeafRidSet
  <2> HIDE DEF m, n
  <2>5. leaked' \subseteq Pages /\ starved' = starved
    BY <1>2 DEF poolVars, TreeInv
  <2>6. /\ TreeInv' /\ is_unique' = is_unique
        /\ \A e : /\ HeldIn(nodes', e) <=> Holds(m, e) \/ (HeldIn(nodes, e) /\ ~Holds(n, e))
                  /\ HeldIn(nodes, e) /\ e[1] = key => Holds(n, e)
                  /\ Holds(n, e) => HeldIn(nodes, e)
    <3>1. n = nodes[LeafFor(key)] /\ p = LeafFor(key)
      BY DEF n, p
    <3>2. LeafOn(m, LeafFor(key), own[0], leaf_max_keys) /\ m.next = nodes[LeafFor(key)].next
      BY <2>4, <3>1
    <3>3. /\ TreeInv' /\ is_unique' = is_unique
          /\ \A e : /\ HeldIn(nodes', e) <=>
                         Holds(m, e) \/ (HeldIn(nodes, e) /\ ~Holds(nodes[LeafFor(key)], e))
                    /\ HeldIn(nodes, e) /\ e[1] = key => Holds(nodes[LeafFor(key)], e)
                    /\ Holds(nodes[LeafFor(key)], e) => HeldIn(nodes, e)
      BY <1>2, <2>1, <2>5, <3>2, LeafSteps
    <3> QED
      BY <3>1, <3>3
  <2>7. Put(key, rid)
    <3>1. ASSUME NEW e
          PROVE  HeldIn(nodes', e) <=> e = <<key, rid>> \/ (HeldIn(nodes, e) /\ e[1] # key)
      BY <2>4, <2>6
    <3> QED
      BY <1>2, <3>1 DEF Put
  <2> QED
    BY <2>2, <2>5, <2>6, <2>7 DEF TreeStep
<1> QED
  BY <1>1, <1>2 DEF InsertPresent

LEMMA RoomSteps ==
  ASSUME TreeInv, NEW key \in Keys, NEW rid \in RidsOf[key], InsertRoom(key, rid)
  PROVE  TreeStep
<1> DEFINE p == LeafFor(key)
           n == nodes[p]
           m == WithEntry(key, rid)
<1>1. PICK h, lvl, own : Tree(nodes, root_page_id, h, lvl, own)
  BY DEF TreeInv, IsTree
<1>2. /\ ~Has(n, key) /\ Len(n.keys) < leaf_max_keys
      /\ LeafBecomes(key, m) /\ LeavesPin(key)
  BY DEF InsertRoom
<1>3. rid \in Rids /\ leaf_max_keys \in Nat
  BY TreeAssumption DEF Rids
<1>4. /\ \A r \in Nat : Len(n.keys) < r => LeafOn(m, p, own[0], r)
      /\ m.next = n.next
      /\ Gained(nodes, [nodes EXCEPT ![p] = m], <<key, rid>>)
  BY <1>1, <1>2, LeafGains
<1>5. LeafOn(m, p, own[0], leaf_max_keys)
  BY <1>2, <1>3, <1>4
<1>6. leaked' \subseteq Pages /\ starved' = starved
  BY <1>2, LeafIsPage DEF LeavesPin
<1>7. TreeInv' /\ is_unique' = is_unique
  BY <1>1, <1>2, <1>4, <1>5, <1>6, LeafSteps
<1>8. Put(key, rid)
  <2>1. nodes' = [nodes EXCEPT ![p] = m]
    BY <1>2 DEF LeafBecomes
  <2>2. \A e : HeldIn(nodes, e) => e[1] # key
    BY <1>1, <1>2, KeyAbsent
  <2>3. ASSUME NEW e
        PROVE  HeldIn(nodes', e) <=> e = <<key, rid>> \/ (HeldIn(nodes, e) /\ e[1] # key)
    <3>1. HeldIn(nodes', e) <=> e = <<key, rid>> \/ HeldIn(nodes, e)
      BY <1>4, <2>1 DEF Gained
    <3> QED
      BY <2>2, <3>1
  <2> QED
    BY <2>2, <2>3 DEF Put
<1> QED
  BY <1>3, <1>6, <1>7, <1>8 DEF TreeStep

LEMMA SplitSteps ==
  ASSUME TreeInv, NEW key \in Keys, NEW rid \in RidsOf[key], InsertSplit(key, rid)
  PROVE  TreeStep
<1> DEFINE p == LeafFor(key)
           after == Rooted(Propagated(key, LeafSplit(p, WithEntry(key, rid))))
<1>1. PICK h, lvl, own : Tree(nodes, root_page_id, h, lvl, own)
  BY DEF TreeInv, IsTree
<1>2. /\ ~Has(nodes[p], key) /\ Len(nodes[p].keys) = leaf_max_keys
      /\ \/ /\ after.root # root_page_id => Height(key) + 1 < MaxLevels
            /\ nodes' = after.nodes /\ root_page_id' = after.root
            /\ LeavesPin(key) /\ UNCHANGED settings
         \/ starved' = TRUE /\ UNCHANGED <<treeVars, leaked>>
  BY DEF InsertSplit
<1>3. CASE starved' = TRUE /\ UNCHANGED <<treeVars, leaked>>
  <2>1. leaked' \subseteq Pages
    BY <1>3 DEF TreeInv
  <2> QED
    BY <1>3, <2>1, NodesStay
<1>4. CASE /\ after.root # root_page_id => Height(key) + 1 < MaxLevels
           /\ nodes' = after.nodes /\ root_page_id' = after.root
           /\ LeavesPin(key) /\ UNCHANGED settings
  <2>1. IsTree(after.nodes, after.root) /\ Gained(nodes, after.nodes, <<key, rid>>)
    BY <1>1, <1>2, <1>4, SplitKeeps
  <2> HIDE DEF after
  <2>2. /\ leaked' \subseteq Pages /\ Pages \subseteq DOMAIN nodes'
        /\ starved' = starved /\ is_unique' = is_unique
    BY <1>4, <2>1, LeafIsPage DEF LeavesPin, settings, Gained, Pages
  <2>3. TreeInv'
    BY <1>4, <2>1, <2>2 DEF TreeInv, IsTree, Pages
  <2>4. \A e : HeldIn(nodes, e) => e[1] # key
    BY <1>1, <1>2, KeyAbsent
  <2>5. ASSUME NEW e
        PROVE  HeldIn(nodes', e) <=> e = <<key, rid>> \/ (HeldIn(nodes, e) /\ e[1] # key)
    <3>1. HeldIn(nodes', e) <=> e = <<key, rid>> \/ HeldIn(nodes, e)
      BY <1>4, <2>1 DEF Gained
    <3> QED
      BY <2>4, <3>1
  <2>6. Put(key, rid)
    BY <2>4, <2>5 DEF Put
  <2>7. rid \in Rids
    BY DEF Rids
  <2> QED
    BY <2>2, <2>3, <2>6, <2>7 DEF TreeStep
<1> QED
  BY <1>2, <1>3, <1>4

LEMMA InsertSteps ==
  ASSUME TreeInv, NEW key \in Keys, NEW rid \in RidsOf[key], bpt_insert(key, rid)
  PROVE  TreeStep
BY NotReachedSteps, PresentSteps, RoomSteps, SplitSteps DEF bpt_insert

LEMMA RemoveSteps ==
  ASSUME TreeInv, NEW key \in Keys, bpt_remove(key)
  PROVE  TreeStep
<1> DEFINE p == LeafFor(key)
           n == nodes[p]
           c == leaf_find_position(n, key)
           m == leaf_remove(n, c)
<1>1. CASE NotReached(key)
  BY <1>1, NotReachedSteps
<1>2. CASE LeavesPin(key) /\ UNCHANGED treeVars
  BY <1>2, PinSteps
<1>3. CASE LeavesPin(key) /\ Has(n, key) /\ LeafBecomes(key, m)
  <2>1. PICK h, lvl, own : Tree(nodes, root_page_id, h, lvl, own)
    BY DEF TreeInv, IsTree
  <2>2. key \in Int /\ leaf_max_keys \in Nat
    BY TreeAssumption
  <2>3. LeafOn(n, p, own[0], leaf_max_keys)
    <3>1. TreeOn(nodes, h, lvl, own, own) /\ p \in DOMAIN nodes /\ lvl[p] = 0
      BY <2>1, <2>2, PathFacts DEF Tree, Pages
    <3> QED
      BY <3>1, NodeFacts
  <2> HIDE DEF p
  <2>4. /\ LeafOn(m, p, own[0], leaf_max_keys) /\ m.next = n.next
        /\ \A e : Holds(m, e) <=> Holds(n, e) /\ e[1] # key
    BY <1>3, <2>2, <2>3, LeafRemoved
  <2>5. c + 1 \in DOMAIN n.keys /\ n.keys[c + 1] = key
    BY <1>3, <2>2, <2>3, LeafPosition
  <2> HIDE DEF m, n
  <2>6. leaked' \subseteq Pages /\ starved' = starved
    BY <1>3, LeafIsPage DEF LeavesPin
  <2>7. /\ TreeInv' /\ is_unique' = is_unique
        /\ \A e : /\ HeldIn(nodes', e) <=> Holds(m, e) \/ (HeldIn(nodes, e) /\ ~Holds(n, e))
                  /\ HeldIn(nodes, e) /\ e[1] = key => Holds(n, e)
                  /\ Holds(n, e) => HeldIn(nodes, e)
    <3>1. n = nodes[LeafFor(key)] /\ p = LeafFor(key)
      BY DEF n, p
    <3>2. LeafOn(m, LeafFor(key), own[0], leaf_max_keys) /\ m.next = nodes[LeafFor(key)].next
      BY <2>4, <3>1
    <3>3. /\ TreeInv' /\ is_unique' = is_unique
          /\ \A e : /\ HeldIn(nodes', e) <=>
                         Holds(m, e) \/ (HeldIn(nodes, e) /\ ~Holds(nodes[LeafFor(key)], e))
                    /\ HeldIn(nodes, e) /\ e[1] = key => Holds(nodes[LeafFor(key)], e)
                    /\ Holds(nodes[LeafFor(key)], e) => HeldIn(nodes, e)
      BY <1>3, <2>1, <2>6, <3>2, LeafSteps
    <3> QED
      BY <3>1, <3>3
  <2>8. Gone(key)
    <3>1. ASSUME NEW e PROVE HeldIn(nodes', e) <=> HeldIn(nodes, e) /\ e[1] # key
      BY <2>4, <2>7
    <3>2. \E e : HeldIn(nodes, e) /\ e[1] = key
      <4> DEFINE e == <<n.keys[c + 1], n.rids[c + 1]>>
      <4>1. Holds(n, e) /\ e[1] = key
        BY <2>5 DEF Holds
      <4> HIDE DEF e
      <4> QED
        BY <2>7, <4>1
    <3> QED
      BY <3>1, <3>2 DEF Gone
  <2> QED
    BY <2>6, <2>7, <2>8 DEF TreeStep
<1> QED
  BY <1>1, <1>2, <1>3 DEF bpt_remove

LEMMA NextSteps ==
  ASSUME TreeInv, [TreeNext]_indexVars
  PROVE  TreeStep
<1>1. leaked \subseteq Pages /\ starved \in BOOLEAN
  BY DEF TreeInv
<1>2. ASSUME NEW key \in Keys, bpt_find(key) PROVE TreeStep
  BY <1>2, NotReachedSteps, PinSteps DEF bpt_find
<1>3. ASSUME NEW key \in Keys, bpt_remove(key) PROVE TreeStep
  BY <1>3, RemoveSteps
<1>4. ASSUME NEW key \in Keys, NEW rid \in RidsOf[key], bpt_insert(key, rid) PROVE TreeStep
  BY <1>4, InsertSteps
<1>5. ASSUME NEW range \in Ranges, index_iterator_init(range[1], range[2]) PROVE TreeStep
  <2>1. range[1] \in Keys
    BY TreeAssumption
  <2> QED
    BY <1>5, <2>1, NotReachedSteps, PinSteps DEF index_iterator_init
<1>6. ASSUME index_iterator_next PROVE TreeStep
  <2>1. CASE IteratorRow
    <3>1. UNCHANGED treeVars /\ leaked' = leaked /\ starved' = starved
      BY <2>1 DEF IteratorRow, poolVars
    <3> QED
      BY <1>1, <3>1, NodesStay
  <2>2. CASE IteratorEnd
    <3>1. UNCHANGED treeVars /\ leaked' = leaked /\ starved' = starved
      BY <2>2 DEF IteratorEnd, Exhausted
    <3> QED
      BY <1>1, <3>1, NodesStay
  <2>3. CASE IteratorStarved
    <3>1. UNCHANGED treeVars /\ leaked' = leaked /\ starved' = TRUE
      BY <2>3 DEF IteratorStarved, Exhausted
    <3> QED
      BY <1>1, <3>1, NodesStay
  <2> QED
    BY <1>6, <2>1, <2>2, <2>3 DEF index_iterator_next
<1>7. ASSUME index_iterator_destroy PROVE TreeStep
  <2>1. UNCHANGED treeVars /\ leaked' = leaked /\ starved' = starved
    BY <1>7 DEF index_iterator_destroy, Exhausted
  <2> QED
    BY <1>1, <2>1, NodesStay
<1>8. ASSUME UNCHANGED indexVars PROVE TreeStep
  <2>1. UNCHANGED treeVars /\ leaked' = leaked /\ starved' = starved
    BY <1>8 DEF indexVars, poolVars
  <2> QED
    BY <1>1, <2>1, NodesStay
<1> QED
  BY <1>2, <1>3, <1>4, <1>5, <1>6, <1>7, <1>8 DEF TreeNext

-----------------------------------------------------------------------------
(* The theorems *)

LEMMA TreeInvSound == TreeInv => TreeSound
<1> SUFFICES ASSUME TreeInv PROVE TreeSound
  OBVIOUS
<1>1. PICK h, lvl, own : Tree(nodes, root_page_id, h, lvl, own)
  BY DEF TreeInv, IsTree
<1>2. TreeTypeOK
  BY <1>1, TreeIsTyped DEF TreeInv
<1>3. SearchAgrees
  BY <1>1, TreeAgrees
<1> QED
  BY <1>2, <1>3 DEF TreeSound

\* Every state of the index is a tree.
THEOREM TreeAlways == TreeSpec => []TreeInv
<1>1. TreeInv /\ [TreeNext]_indexVars => TreeInv'
  BY NextSteps DEF TreeStep
<1> QED
  BY TreeInvFirst, <1>1, PTL DEF TreeSpec

\* TreeSound for every tree: after any insertions, splits up to new roots and
\* removals, nodes keep their shape and size, and lookups and ranges see the
\* same entries, each at the leaf that a descent for its key reaches.
THEOREM TreeStaysSound == TreeSpec => []TreeSound
BY TreeAlways, TreeInvSound, PTL

\* The entries of the map are those that some leaf holds, and no key has two.
EntriesHeld ==
  /\ \A e : e \in Entries <=> HeldIn(nodes, e)
  /\ \A d, e : HeldIn(nodes, d) /\ HeldIn(nodes, e) /\ d[1] = e[1] => d = e

LEMMA EntriesAreHeld == TreeInv => EntriesHeld
<1> SUFFICES ASSUME TreeInv PROVE EntriesHeld
  OBVIOUS
<1>1. PICK h, lvl, own : Tree(nodes, root_page_id, h, lvl, own)
  BY DEF TreeInv, IsTree
<1>2. ASSUME NEW e PROVE e \in Entries <=> HeldIn(nodes, e)
  <2>1. e \in Entries <=>
          \E p \in Pages : nodes[p].leaf /\ \E i \in DOMAIN nodes[p].keys :
            e = <<nodes[p].keys[i], nodes[p].rids[i]>>
    BY <1>1, EntriesOfLeaves
  <2> QED
    BY <2>1 DEF HeldIn, Holds, Pages
<1>3. ASSUME NEW d, NEW e, HeldIn(nodes, d), HeldIn(nodes, e), d[1] = e[1] PROVE d = e
  <2>1. PICK p \in DOMAIN nodes : nodes[p].leaf /\ Holds(nodes[p], d)
    BY <1>3 DEF HeldIn
  <2>2. PICK q \in DOMAIN nodes : nodes[q].leaf /\ Holds(nodes[q], e)
    BY <1>3 DEF HeldIn
  <2>3. q = p
    <3>1. p = LeafFor(d[1]) /\ q = LeafFor(e[1])
      BY <1>1, <2>1, <2>2, HeldAt DEF Pages
    <3> QED
      BY <1>3, <3>1
  <2>4. PICK i \in DOMAIN nodes[p].keys : d = <<nodes[p].keys[i], nodes[p].rids[i]>>
    BY <2>1 DEF Holds
  <2>5. PICK j \in DOMAIN nodes[p].keys : e = <<nodes[p].keys[j], nodes[p].rids[j]>>
    BY <2>2, <2>3 DEF Holds
  <2>6. nodes[p].keys[i] = nodes[p].keys[j]
    BY <1>3, <2>4, <2>5
  <2>7. /\ Ascending(nodes[p].keys)
        /\ DOMAIN nodes[p].keys = 1 .. Len(nodes[p].keys) /\ Len(nodes[p].keys) \in Nat
        /\ \A k \in DOMAIN nodes[p].keys : nodes[p].keys[k] \in Int
    <3>1. LeafOn(nodes[p], p, own[0], leaf_max_keys)
      <4>1. TreeOn(nodes, h, lvl, own, own)
        BY <1>1 DEF Tree
      <4> QED
        BY <2>1, <4>1, NodeFacts
    <3> QED
      BY <3>1, LeafShape
  <2>8. i = j
    <3>1. ~(i < j) /\ ~(j < i)
      BY <2>6, <2>7 DEF Ascending
    <3>2. \A n \in Nat : \A a, b \in 1 .. n : a < b \/ b < a \/ a = b
      OBVIOUS
    <3> QED
      BY <2>7, <3>1, <3>2
  <2> QED
    BY <2>4, <2>5, <2>8
<1> QED
  BY <1>2, <1>3 DEF EntriesHeld

\* A step of the index is one of the map, or none.
LEMMA StepsOfMap ==
  ASSUME EntriesHeld, EntriesHeld', starved \in BOOLEAN, TreeStep
  PROVE  [Map!MapNext]_(Map!mapVars)
<1> DEFINE old == IF starved THEN {} ELSE Entries
           new == IF starved' THEN {} ELSE Entries'
<1>1. /\ \A e : e \in Entries <=> HeldIn(nodes, e)
      /\ \A e : e \in Entries' <=> HeldIn(nodes', e)
      /\ \A d, e \in Entries : d[1] = e[1] => d = e
  BY DEF EntriesHeld
<1>2. CASE starved' = TRUE
  BY <1>2 DEF Map!MapNext, TreeStep
<1>3. CASE starved' = starved /\ starved = TRUE
  BY <1>3 DEF Map!MapNext, TreeStep
<1>4. CASE starved' = starved /\ starved = FALSE
  <2>1. old = Entries /\ new = Entries' /\ is_unique' = is_unique /\ (~starved)' = ~starved /\ ~starved
    BY <1>4 DEF TreeStep
  <2>2. CASE Untouched
    <3>1. Entries' = Entries
      BY <1>1, <2>2 DEF Untouched
    <3> QED
      BY <1>4, <2>1, <3>1 DEF Map!mapVars
  <2>3. ASSUME NEW key \in Keys, NEW rid \in Rids, Put(key, rid)
        PROVE  [Map!MapNext]_(Map!mapVars)
    <3> DEFINE x == <<key, rid>>
               of == {e \in Entries : e[1] = key}
    <3>1. Entries' = (Entries \ of) \cup {x}
      BY <1>1, <2>3 DEF Put
    <3>2. is_unique => of = {}
      BY <1>1, <2>3 DEF Put
    <3>3. CASE x \in Entries' \ Entries
      <4>1. Map!MapInsert(key, rid)
        BY <2>1, <3>1, <3>2 DEF Map!MapInsert, Map!Of
      <4> QED
        BY <2>1, <3>3, <4>1 DEF Map!MapNext
    <3>4. CASE x \notin Entries' \ Entries
      <4>1. x \in Entries /\ x[1] = key
        BY <3>1, <3>4
      <4>2. of = {x}
        BY <1>1, <4>1
      <4>3. Entries' = Entries
        BY <3>1, <4>2
      <4> QED
        BY <1>4, <2>1, <4>3 DEF Map!mapVars
    <3> QED
      BY <3>3, <3>4
  <2>4. ASSUME NEW key \in Keys, Gone(key)
        PROVE  [Map!MapNext]_(Map!mapVars)
    <3> DEFINE of == {e \in Entries : e[1] = key}
    <3>1. Entries' = Entries \ of /\ of # {}
      BY <1>1, <2>4 DEF Gone
    <3>2. PICK e \in of : TRUE
      BY <3>1
    <3>3. e \in Entries \ Entries' /\ e[1] = key
      BY <3>1, <3>2
    <3>4. Map!MapRemove(e[1])
      BY <2>1, <3>1, <3>3 DEF Map!MapRemove, Map!Of
    <3> QED
      BY <2>1, <3>3, <3>4 DEF Map!MapNext
  <2> QED
    BY <1>4, <2>2, <2>3, <2>4 DEF TreeStep
<1> QED
  BY <1>2, <1>3, <1>4 DEF TreeStep

\* ImplementsMap: whatever the shape of the tree, an insertion adds one entry
\* or replaces the one of its key, a removal takes the one of its key, and no
\* split, lookup or cursor changes what the index holds.
THEOREM TreeImplementsMap == TreeSpec => ImplementsMap
<1>1. TreeInit => Map!MapInit
  <2> SUFFICES ASSUME TreeInit PROVE Map!MapInit
    OBVIOUS
  <2>1. EntriesHeld
    BY TreeInvFirst, EntriesAreHeld
  <2>2. nodes = <<Leaf(<<>>, <<>>, INVALID_PAGE_ID)>> /\ starved = FALSE /\ is_unique \in BOOLEAN
    BY DEF TreeInit
  <2>3. ASSUME NEW e PROVE ~HeldIn(nodes, e)
    <3>1. \A p \in DOMAIN nodes : nodes[p].keys = <<>>
      BY <2>2 DEF Leaf
    <3> QED
      BY <3>1 DEF HeldIn, Holds
  <2>4. Entries = {}
    BY <2>1, <2>3 DEF EntriesHeld
  <2> QED
    BY <2>2, <2>4 DEF Map!MapInit
<1>2. TreeInv /\ TreeInv' /\ [TreeNext]_indexVars => [Map!MapNext]_(Map!mapVars)
  <2>1. TreeInv => EntriesHeld
    BY EntriesAreHeld
  <2>2. TreeInv' => EntriesHeld'
    BY EntriesAreHeld, PTL
  <2> SUFFICES ASSUME TreeInv, TreeInv', [TreeNext]_indexVars PROVE [Map!MapNext]_(Map!mapVars)
    OBVIOUS
  <2>3. TreeStep /\ starved \in BOOLEAN
    BY NextSteps DEF TreeInv
  <2> QED
    BY <2>1, <2>2, <2>3, StepsOfMap
<1> QED
  BY TreeAlways, <1>1, <1>2, PTL DEF TreeSpec, ImplementsMap, Map!MapSpec

-----------------------------------------------------------------------------
(* The cursor.  Splits move keys along the links and on their pages up, so   *)
(* what was ahead of a cursor stays there.                                   *)

\* The pages are left by no link.
Chained(ns, S) ==
  \A q \in S : q \in DOMAIN ns /\ ns[q].leaf /\ ns[q].next # INVALID_PAGE_ID => ns[q].next \in S

\* Whoever follows the links from x comes to y.
Reaches(ns, x, y) == \A S : x \in S /\ Chained(ns, S) => y \in S

\* A cursor that has passed i entries of leaf x has the key k ahead of it.
Ahead(ns, x, i, k) ==
  \E y \in DOMAIN ns :
    /\ ns[y].leaf /\ Reaches(ns, x, y)
    /\ \E j \in DOMAIN ns[y].keys : ns[y].keys[j] = k /\ (y = x => j > i)

\* Leaves stay leaves, and a cursor on any of them keeps what is ahead.
StaysAhead(ns, ms) ==
  \A x \in DOMAIN ns : ns[x].leaf =>
    /\ x \in DOMAIN ms /\ ms[x].leaf
    /\ \A i \in Nat : \A k : Ahead(ns, x, i, k) => Ahead(ms, x, i, k)

\* Each key of n is in m, at its place or further up.
Shifted(n, m) ==
  \A j \in DOMAIN n.keys : \E l \in DOMAIN m.keys : l >= j /\ m.keys[l] = n.keys[j]

\* A leaf is replaced.
LEMMA ReplacedAhead ==
  ASSUME NEW ns, NEW p \in DOMAIN ns, ns[p].leaf, ns[p].keys \in Seq(Keys),
         NEW m, m.leaf, m.next = ns[p].next, m.keys \in Seq(Keys), Shifted(ns[p], m)
  PROVE  StaysAhead(ns, [ns EXCEPT ![p] = m])
<1> DEFINE ms == [ns EXCEPT ![p] = m]
<1>1. /\ DOMAIN ms = DOMAIN ns /\ ms[p] = m
      /\ \A q \in DOMAIN ns : q # p => ms[q] = ns[q]
  OBVIOUS
<1> HIDE DEF ms
<1>2. \A q \in DOMAIN ns : (ms[q].leaf <=> ns[q].leaf) /\ ms[q].next = ns[q].next
  <2>1. ASSUME NEW q \in DOMAIN ns PROVE (ms[q].leaf <=> ns[q].leaf) /\ ms[q].next = ns[q].next
    <3>1. CASE q = p
      BY <1>1, <3>1
    <3>2. CASE q # p
      BY <1>1, <3>2
    <3> QED
      BY <3>1, <3>2
  <2> QED
    BY <2>1
<1>3. ASSUME NEW x, NEW y, Reaches(ns, x, y) PROVE Reaches(ms, x, y)
  <2>1. \A S : Chained(ms, S) => Chained(ns, S)
    BY <1>1, <1>2 DEF Chained
  <2> QED
    BY <1>3, <2>1 DEF Reaches
<1>4. ASSUME NEW x \in DOMAIN ns, NEW i \in Nat, NEW k, Ahead(ns, x, i, k)
      PROVE  Ahead(ms, x, i, k)
  <2>1. PICK y \in DOMAIN ns :
          /\ ns[y].leaf /\ Reaches(ns, x, y)
          /\ \E j \in DOMAIN ns[y].keys : ns[y].keys[j] = k /\ (y = x => j > i)
    BY <1>4 DEF Ahead
  <2>2. PICK j \in DOMAIN ns[y].keys : ns[y].keys[j] = k /\ (y = x => j > i)
    BY <2>1
  <2>3. y \in DOMAIN ms /\ ms[y].leaf /\ Reaches(ms, x, y)
    BY <1>1, <1>2, <1>3, <2>1
  <2>4. CASE y # p
    BY <1>1, <2>2, <2>3, <2>4 DEF Ahead
  <2>5. CASE y = p
    <3>1. PICK l \in DOMAIN m.keys : l >= j /\ m.keys[l] = k
      BY <2>2, <2>5 DEF Shifted
    <3>2. j \in Nat /\ l \in Nat
      BY <2>2, <2>5, <3>1, KeySeq
    <3>3. y = x => l > i
      BY <2>2, <3>1, <3>2
    <3>4. l \in DOMAIN ms[y].keys /\ ms[y].keys[l] = k
      BY <1>1, <2>5, <3>1
    <3> QED
      BY <2>3, <3>3, <3>4 DEF Ahead
  <2> QED
    BY <2>4, <2>5
<1>5. \A x \in DOMAIN ns : ns[x].leaf => x \in DOMAIN ms /\ ms[x].leaf
  BY <1>1, <1>2
<1>6. StaysAhead(ns, ms)
  BY <1>4, <1>5 DEF StaysAhead
<1> QED
  BY <1>6 DEF ms

\* A leaf is replaced and split.
LEMMA PartedAhead ==
  ASSUME NEW ns \in Seq(Node), NEW p \in DOMAIN ns, ns[p].leaf, ns[p].keys \in Seq(Keys),
         NEW m, m.next = ns[p].next, m.keys \in Seq(Keys), Shifted(ns[p], m),
         NEW ms, DOMAIN ns \subseteq DOMAIN ms, Parted(ns, ms, p, m)
  PROVE  StaysAhead(ns, ms)
<1> DEFINE r == Len(ns) + 1
           a == LeftLeaf(m, r)
           b == RightLeaf(m)
           N == Len(m.keys)
           mid == N \div 2
<1>1. /\ r \in DOMAIN ms \ DOMAIN ns /\ ms[p] = a /\ ms[r] = b
      /\ \A x \in DOMAIN ns : ns[x].leaf /\ x # p => ms[x] = ns[x]
  BY DEF Parted
<1>2. /\ a.leaf /\ a.next = r /\ a.keys = SubSeq(m.keys, 1, mid)
      /\ b.leaf /\ b.next = ns[p].next /\ b.keys = SubSeq(m.keys, mid + 1, Len(m.keys))
  BY DEF LeftLeaf, RightLeaf, Leaf, Linked
<1>3. r # INVALID_PAGE_ID
  <2>1. Len(ns) \in Nat
    <3> HIDE DEF Node
    <3> QED
      OBVIOUS
  <2> QED
    BY <2>1 DEF INVALID_PAGE_ID
<1>4. N \in Nat /\ mid \in 0 .. N /\ DOMAIN m.keys = 1 .. N
  <2>1. N \in Nat /\ DOMAIN m.keys = 1 .. N
    BY KeySeq
  <2>2. \A z \in Nat : z \div 2 \in 0 .. z
    OBVIOUS
  <2> QED
    BY <2>1, <2>2
<1>5. /\ DOMAIN a.keys = 1 .. mid /\ \A j \in 1 .. mid : a.keys[j] = m.keys[0 + j]
      /\ DOMAIN b.keys = 1 .. N - mid /\ \A j \in 1 .. N - mid : b.keys[j] = m.keys[mid + j]
  <2>1. IsPart(a.keys, m.keys, 0, mid)
    BY <1>2, <1>4, FirstPart
  <2>2. IsPart(b.keys, m.keys, mid, N - mid)
    BY <1>2, <1>4, RestPart
  <2> HIDE DEF a, b, mid, N
  <2> QED
    BY <2>1, <2>2 DEF IsPart
<1> HIDE DEF r, a, b, N, mid
<1>6. ASSUME NEW S, p \in S, Chained(ms, S) PROVE r \in S
  <2>1. p \in DOMAIN ms /\ ms[p].leaf /\ ms[p].next = r
    BY <1>1, <1>2
  <2> QED
    BY <1>3, <1>6, <2>1 DEF Chained
<1>7. ASSUME NEW S, Chained(ms, S) PROVE Chained(ns, S)
  <2>1. ASSUME NEW q \in S, q \in DOMAIN ns, ns[q].leaf, ns[q].next # INVALID_PAGE_ID
        PROVE  ns[q].next \in S
    <3>1. CASE q = p
      <4>1. r \in S /\ r \in DOMAIN ms /\ ms[r].leaf /\ ms[r].next = ns[p].next
        BY <1>1, <1>2, <1>6, <1>7, <2>1, <3>1
      <4> QED
        BY <1>7, <2>1, <3>1, <4>1 DEF Chained
    <3>2. CASE q # p
      <4>1. q \in DOMAIN ms /\ ms[q] = ns[q]
        BY <1>1, <2>1, <3>2
      <4> QED
        BY <1>7, <2>1, <4>1 DEF Chained
    <3> QED
      BY <3>1, <3>2
  <2> QED
    BY <2>1 DEF Chained
<1>8. ASSUME NEW x, NEW y, Reaches(ns, x, y)
      PROVE  Reaches(ms, x, y) /\ (y = p => Reaches(ms, x, r))
  BY <1>6, <1>7, <1>8 DEF Reaches
<1>9. ASSUME NEW x \in DOMAIN ns, NEW i \in Nat, NEW k, Ahead(ns, x, i, k)
      PROVE  Ahead(ms, x, i, k)
  <2>1. PICK y \in DOMAIN ns :
          /\ ns[y].leaf /\ Reaches(ns, x, y)
          /\ \E j \in DOMAIN ns[y].keys : ns[y].keys[j] = k /\ (y = x => j > i)
    BY <1>9 DEF Ahead
  <2>2. PICK j \in DOMAIN ns[y].keys : ns[y].keys[j] = k /\ (y = x => j > i)
    BY <2>1
  <2>3. y \in DOMAIN ms /\ Reaches(ms, x, y) /\ (y = p => Reaches(ms, x, r))
    BY <1>8, <2>1
  <2>4. CASE y # p
    <3>1. ms[y] = ns[y]
      BY <1>1, <2>1, <2>4
    <3> QED
      BY <2>1, <2>2, <2>3, <3>1 DEF Ahead
  <2>5. CASE y = p
    <3>1. PICK l \in DOMAIN m.keys : l >= j /\ m.keys[l] = k
      BY <2>2, <2>5 DEF Shifted
    <3>2. j \in Nat /\ l \in Nat /\ l \in 1 .. N /\ mid \in Nat
      BY <1>4, <2>2, <2>5, <3>1, KeySeq
    <3>3. CASE l <= mid
      <4>1. l \in DOMAIN a.keys /\ a.keys[l] = k
        BY <1>5, <3>1, <3>2, <3>3
      <4>2. y = x => l > i
        BY <2>2, <3>1, <3>2
      <4>3. ms[y].leaf /\ ms[y] = a
        BY <1>1, <1>2, <2>5
      <4> QED
        BY <2>3, <4>1, <4>2, <4>3 DEF Ahead
    <3>4. CASE l > mid
      <4>1. l - mid \in 1 .. N - mid /\ mid + (l - mid) = l
        <5>1. \A c, d, e \in Nat : c > d /\ c <= e => c - d \in 1 .. e - d /\ d + (c - d) = c
          OBVIOUS
        <5>2. N \in Nat /\ l <= N
          BY <1>4, <3>2
        <5> QED
          BY <3>2, <3>4, <5>1, <5>2
      <4>2. l - mid \in DOMAIN b.keys /\ b.keys[l - mid] = k
        BY <1>5, <3>1, <4>1
      <4>3. r \in DOMAIN ms /\ ms[r].leaf /\ ms[r] = b /\ r # x /\ Reaches(ms, x, r)
        BY <1>1, <1>2, <2>3, <2>5
      <4> QED
        BY <4>2, <4>3 DEF Ahead
    <3> QED
      BY <3>2, <3>3, <3>4
  <2> QED
    BY <2>4, <2>5
<1>10. \A x \in DOMAIN ns : ns[x].leaf => x \in DOMAIN ms /\ ms[x].leaf
  BY <1>1, <1>2
<1> QED
  BY <1>9, <1>10 DEF StaysAhead

LEMMA SameAhead == ASSUME NEW ns PROVE StaysAhead(ns, ns)
BY DEF StaysAhead

\* An entry that comes in leaves those before it and moves those behind it.
LEMMA EntryShifts ==
  ASSUME NEW n, NEW p, NEW f, NEW room, LeafOn(n, p, f, room), NEW key \in Keys, NEW rid
  PROVE  Shifted(n, leaf_insert(n, leaf_find_position(n, key), key, rid))
<1> DEFINE c == leaf_find_position(n, key)
           K == InsertAt(n.keys, c + 1, key)
           N == Len(n.keys)
<1>1. n.keys \in Seq(Keys) /\ N \in Nat /\ DOMAIN n.keys = 1 .. N
  BY LeafShape
<1>2. c \in 0 .. N
  <2>1. key \in Int
    BY TreeAssumption
  <2> QED
    BY <2>1, LeafPosition
<1>3. leaf_insert(n, c, key, rid).keys = K
  BY DEF leaf_insert, Leaf
<1> HIDE DEF c
<1>4. IsInserted(K, n.keys, c, key)
  BY <1>1, <1>2, InsertedAfter
<1> HIDE DEF K, N
<1>5. /\ DOMAIN K = 1 .. N + 1
      /\ \A k \in 1 .. N + 1 : (k < c + 1 => K[k] = n.keys[k]) /\ (k > c + 1 => K[k] = n.keys[k - 1])
  BY <1>4 DEF IsInserted, N
<1>6. ASSUME NEW j \in DOMAIN n.keys PROVE \E l \in DOMAIN K : l >= j /\ K[l] = n.keys[j]
  <2>1. j \in 1 .. N /\ j \in Int /\ c \in Int
    BY <1>1, <1>2
  <2>2. CASE j < c + 1
    <3>1. j \in 1 .. N + 1 /\ j >= j
      BY <1>1, <2>1
    <3> QED
      BY <1>5, <2>2, <3>1
  <2>3. CASE j >= c + 1
    <3>1. j + 1 \in 1 .. N + 1 /\ j + 1 >= j /\ j + 1 > c + 1 /\ (j + 1) - 1 = j
      BY <1>1, <2>1, <2>3
    <3> QED
      BY <1>5, <3>1
  <2> QED
    BY <2>1, <2>2, <2>3
<1> QED
  BY <1>3, <1>6 DEF Shifted, c

LEMMA InsertStays ==
  ASSUME TreeInv, NEW key \in Keys, NEW rid \in RidsOf[key], bpt_insert(key, rid)
  PROVE  StaysAhead(nodes, nodes')
<1> DEFINE p == LeafFor(key)
           n == nodes[p]
           m == WithEntry(key, rid)
<1>1. PICK h, lvl, own : Tree(nodes, root_page_id, h, lvl, own)
  BY DEF TreeInv, IsTree
<1>2. key \in Int /\ rid \in Rids /\ leaf_max_keys \in Nat
  BY TreeAssumption DEF Rids
<1>3. /\ TreeOn(nodes, h, lvl, own, own) /\ p \in DOMAIN nodes /\ lvl[p] = 0
  BY <1>1, <1>2, PathFacts DEF Tree, Pages
<1>4. n.leaf /\ LeafOn(n, p, own[0], leaf_max_keys) /\ n.keys \in Seq(Keys)
  <2>1. n.leaf /\ LeafOn(n, p, own[0], leaf_max_keys)
    BY <1>3, NodeFacts
  <2> QED
    BY <2>1, LeafShape
<1>5. CASE nodes' = nodes
  BY <1>5, SameAhead
<1>6. CASE InsertPresent(key, rid)
  <2>1. CASE LeafBecomes(key, leaf_set_rid(n, leaf_find_position(n, key), rid))
    <3> DEFINE w == leaf_set_rid(n, leaf_find_position(n, key), rid)
    <3>1. w.leaf /\ w.next = n.next /\ w.keys = n.keys
      BY DEF leaf_set_rid, Leaf
    <3>2. nodes' = [nodes EXCEPT ![p] = w]
      BY <2>1 DEF LeafBecomes
    <3> HIDE DEF w
    <3>3. Shifted(n, w)
      <4>1. \A j \in DOMAIN n.keys : j \in Int
        BY <1>4, KeySeq
      <4>2. \A j \in Int : j >= j
        OBVIOUS
      <4> QED
        BY <3>1, <4>1, <4>2 DEF Shifted
    <3> HIDE DEF p
    <3> QED
      BY <1>3, <1>4, <3>1, <3>2, <3>3, ReplacedAhead
  <2> QED
    BY <1>5, <1>6, <2>1 DEF InsertPresent, treeVars
<1>7. ASSUME ~Has(n, key)
      PROVE  m.leaf /\ m.next = n.next /\ m.keys \in Seq(Keys) /\ Shifted(n, m)
  <2>1. /\ m.leaf /\ m.next = n.next
        /\ \A r \in Nat : Len(n.keys) < r => LeafOn(m, p, own[0], r)
    BY <1>1, <1>7, LeafGains
  <2>2. Len(n.keys) + 1 \in Nat /\ Len(n.keys) < Len(n.keys) + 1
    BY <1>4, KeySeq
  <2>3. LeafOn(m, p, own[0], Len(n.keys) + 1)
    BY <2>1, <2>2
  <2>4. m.keys \in Seq(Keys)
    BY <2>3, LeafShape
  <2>5. Shifted(n, m)
    BY <1>4, EntryShifts DEF WithEntry
  <2> QED
    BY <2>1, <2>4, <2>5
<1>8. CASE InsertRoom(key, rid)
  <2>1. ~Has(n, key) /\ nodes' = [nodes EXCEPT ![p] = m]
    BY <1>8 DEF InsertRoom, LeafBecomes
  <2>2. m.leaf /\ m.next = n.next /\ m.keys \in Seq(Keys) /\ Shifted(n, m)
    BY <1>7, <2>1
  <2> HIDE DEF p, m
  <2> QED
    BY <1>3, <1>4, <2>1, <2>2, ReplacedAhead
<1>9. CASE InsertSplit(key, rid)
  <2> DEFINE after == Rooted(Propagated(key, LeafSplit(p, m)))
  <2>1. /\ ~Has(n, key) /\ Len(n.keys) = leaf_max_keys
        /\ \/ nodes' = after.nodes /\ (after.root # root_page_id => Height(key) + 1 < MaxLevels)
           \/ nodes' = nodes
    BY <1>9 DEF InsertSplit, treeVars
  <2>2. CASE nodes' = after.nodes /\ (after.root # root_page_id => Height(key) + 1 < MaxLevels)
    <3>1. Gained(nodes, after.nodes, <<key, rid>>) /\ Parted(nodes, after.nodes, p, m)
      BY <1>1, <2>1, <2>2, SplitKeeps
    <3>2. m.next = n.next /\ m.keys \in Seq(Keys) /\ Shifted(n, m)
      BY <1>7, <2>1
    <3>3. nodes \in Seq(Node)
      BY <1>3 DEF TreeOn, NodesOn, Node
    <3> HIDE DEF p, m, after
    <3>4. DOMAIN nodes \subseteq DOMAIN nodes' /\ Parted(nodes, nodes', p, m)
      BY <2>2, <3>1 DEF Gained
    <3> QED
      BY <1>3, <1>4, <3>2, <3>3, <3>4, PartedAhead
  <2> QED
    BY <1>5, <2>1, <2>2
<1> QED
  BY <1>5, <1>6, <1>8, <1>9 DEF bpt_insert, NotReached, treeVars

\* A link leads to a leaf.
LEMMA NextIsLeaf ==
  ASSUME NEW h, NEW lvl, NEW own, Tree(nodes, root_page_id, h, lvl, own),
         NEW x \in Pages, nodes[x].leaf, nodes[x].next # INVALID_PAGE_ID
  PROVE  nodes[x].next \in Pages /\ nodes[nodes[x].next].leaf
<1>1. TreeOn(nodes, h, lvl, own, own) /\ x \in DOMAIN nodes /\ 0 \in 0 .. h
  BY TreeHeight DEF Tree, Pages
<1>2. lvl[x] = 0
  BY <1>1, NodeFacts
<1>3. PICK k \in Int : nodes[x].next = own[0][k + 1]
  BY <1>1, <1>2 DEF TreeOn, Linking, Leaves
<1>4. own[0][k + 1] \in DOMAIN nodes /\ lvl[own[0][k + 1]] = 0
  BY <1>1, OwnFacts
<1> QED
  BY <1>1, <1>3, <1>4, NodeFacts DEF Pages

\* The links lead from the leaf for a key to the leaf for any later one.
LEMMA LinksReach ==
  ASSUME NEW h, NEW lvl, NEW own, Tree(nodes, root_page_id, h, lvl, own),
         NEW a \in Int, NEW b \in Int, a <= b
  PROVE  Reaches(nodes, own[0][a], own[0][b])
<1> DEFINE f == own[0]
<1>1. TreeOn(nodes, h, lvl, own, own) /\ 0 \in 0 .. h
  BY TreeHeight DEF Tree
<1>2. \A k \in Int : f[k + 1] # f[k] => nodes[f[k]].next = f[k + 1]
  BY <1>1 DEF TreeOn, Linking
<1>3. \A k \in Int : /\ f[k] \in DOMAIN nodes /\ nodes[f[k]].leaf
                     /\ f[k] # INVALID_PAGE_ID
  <2>1. ASSUME NEW k \in Int PROVE f[k] \in DOMAIN nodes /\ nodes[f[k]].leaf /\ f[k] \in Nat
    <3>1. f[k] \in DOMAIN nodes /\ lvl[f[k]] = 0 /\ f[k] \in Nat
      BY <1>1, OwnFacts
    <3> QED
      BY <1>1, <3>1, NodeFacts
  <2> QED
    BY <2>1 DEF INVALID_PAGE_ID
<1> HIDE DEF f
<1> SUFFICES ASSUME NEW S, f[a] \in S, Chained(nodes, S) PROVE f[b] \in S
  BY DEF Reaches, f
<1>4. ASSUME NEW k \in Int, f[k] \in S PROVE f[k + 1] \in S
  <2>1. CASE f[k + 1] = f[k]
    BY <1>4, <2>1
  <2>2. CASE f[k + 1] # f[k]
    <3>1. nodes[f[k]].next = f[k + 1] /\ f[k + 1] # INVALID_PAGE_ID
      BY <1>2, <1>3, <2>2
    <3> QED
      BY <1>3, <1>4, <3>1 DEF Chained
  <2> QED
    BY <2>1, <2>2
<1> DEFINE T == {n \in Nat : f[a + n] \in S}
<1>5. 0 \in T
  BY a + 0 = a
<1>6. ASSUME NEW n \in Nat, n \in T PROVE n + 1 \in T
  <2>1. a + n \in Int /\ a + (n + 1) = (a + n) + 1
    OBVIOUS
  <2> QED
    BY <1>4, <1>6, <2>1
<1> HIDE DEF T
<1>7. b - a \in T
  <2>1. Nat \subseteq T
    BY <1>5, <1>6, NatsBelong
  <2> QED
    BY <2>1
<1>8. a + (b - a) = b
  OBVIOUS
<1> QED
  BY <1>7, <1>8 DEF T

\* Further along the links keys are greater.
LEMMA FurtherIsGreater ==
  ASSUME NEW h, NEW lvl, NEW own, Tree(nodes, root_page_id, h, lvl, own),
         NEW x \in Pages, nodes[x].leaf, NEW i \in DOMAIN nodes[x].keys,
         NEW y \in Pages, nodes[y].leaf, NEW j \in DOMAIN nodes[y].keys,
         y # x, Reaches(nodes, x, y)
  PROVE  nodes[x].keys[i] < nodes[y].keys[j]
<1> DEFINE f == own[0]
           k == nodes[x].keys[i]
           l == nodes[y].keys[j]
           S == {f[b] : b \in {b \in Int : k <= b}}
<1>1. k \in Int /\ l \in Int /\ f[k] = x /\ f[l] = y
  BY HeldIsFound
<1>2. TreeOn(nodes, h, lvl, own, own) /\ 0 \in 0 .. h
  BY TreeHeight DEF Tree
<1>3. Convex(f)
  BY <1>1, <1>2, OwnFacts
<1> HIDE DEF k, l
<1>4. x \in S
  <2>1. k <= k
    BY <1>1
  <2> QED
    BY <1>1, <2>1
<1>5. ASSUME NEW q \in S, q \in DOMAIN nodes, nodes[q].leaf, nodes[q].next # INVALID_PAGE_ID
      PROVE  nodes[q].next \in S
  <2>1. lvl[q] = 0
    BY <1>2, <1>5, NodeFacts
  <2>2. PICK e \in Int : f[e] = q /\ f[e + 1] # q /\ nodes[q].next = f[e + 1]
    BY <1>2, <1>5, <2>1 DEF TreeOn, Linking, Leaves
  <2>3. PICK b \in Int : k <= b /\ q = f[b]
    BY <1>5
  <2> HIDE DEF f
  <2>4. ~(e + 1 <= b)
    <3>1. e <= e + 1 /\ e + 1 \in Int
      OBVIOUS
    <3> QED
      BY <1>3, <2>2, <2>3, <3>1 DEF Convex
  <2>5. e + 1 \in Int /\ k <= e + 1
    BY <1>1, <2>3, <2>4
  <2> QED
    BY <2>2, <2>5
<1>6. y \in S
  <2>1. Chained(nodes, S)
    <3> HIDE DEF S
    <3> QED
      BY <1>5 DEF Chained
  <2> HIDE DEF S
  <2> QED
    BY <1>4, <2>1 DEF Reaches
<1>7. PICK b \in Int : k <= b /\ f[b] = y
  BY <1>6
<1> HIDE DEF f, S
<1>8. ~(l <= k)
  <2> SUFFICES ASSUME l <= k PROVE FALSE
    OBVIOUS
  <2>1. f[l] = f[b]
    BY <1>1, <1>7
  <2>2. f[k] = f[l]
    BY <1>1, <1>3, <1>7, <2>1 DEF Convex
  <2> QED
    BY <1>1, <2>2
<1>9. k < l
  BY <1>1, <1>8
<1> QED
  BY <1>9 DEF k, l

\* Where a cursor goes on is a leaf, or the end.
LEMMA OnwardIsLeaf ==
  ASSUME NEW h, NEW lvl, NEW own, Tree(nodes, root_page_id, h, lvl, own),
         NEW x \in Pages, nodes[x].leaf, NEW i \in Nat, Onward(x, i).page # INVALID_PAGE_ID
  PROVE  /\ Onward(x, i).page \in Pages /\ nodes[Onward(x, i).page].leaf
         /\ Onward(x, i).index \in Nat
<1>1. CASE i < Len(nodes[x].keys)
  <2>1. Onward(x, i) = [page |-> x, index |-> i]
    BY <1>1 DEF Onward
  <2> QED
    BY <2>1
<1>2. CASE ~(i < Len(nodes[x].keys))
  <2>1. Onward(x, i) = [page |-> nodes[x].next, index |-> 0]
    BY <1>2 DEF Onward
  <2>2. nodes[x].next # INVALID_PAGE_ID
    BY <2>1
  <2> QED
    BY <2>1, <2>2, NextIsLeaf
<1> QED
  BY <1>1, <1>2

\* What is ahead stays ahead when the cursor leaves a finished leaf.
LEMMA OnwardAhead ==
  ASSUME NEW h, NEW lvl, NEW own, Tree(nodes, root_page_id, h, lvl, own),
         NEW x \in Pages, nodes[x].leaf, NEW i \in Nat, NEW k, Ahead(nodes, x, i, k)
  PROVE  /\ Onward(x, i).page # INVALID_PAGE_ID
         /\ Ahead(nodes, Onward(x, i).page, Onward(x, i).index, k)
<1>1. \A y \in Pages : nodes[y].leaf => nodes[y].keys \in Seq(Keys)
  <2>1. TreeOn(nodes, h, lvl, own, own)
    BY DEF Tree
  <2>2. \A y \in DOMAIN nodes : nodes[y].leaf => LeafOn(nodes[y], y, own[0], leaf_max_keys)
    BY <2>1, NodeFacts
  <2> QED
    BY <2>2, LeafShape DEF Pages
<1>2. CASE i < Len(nodes[x].keys)
  <2>1. Onward(x, i).page = x /\ Onward(x, i).index = i
    BY <1>2 DEF Onward
  <2>2. x # INVALID_PAGE_ID
    <3>1. x \in DOMAIN nodes /\ TreeOn(nodes, h, lvl, own, own)
      BY DEF Tree, Pages
    <3>2. x \in 1 .. Len(nodes)
      BY <3>1, NodeFacts
    <3> QED
      BY <3>2 DEF INVALID_PAGE_ID
  <2> QED
    BY <2>1, <2>2
<1>3. CASE ~(i < Len(nodes[x].keys))
  <2>1. Onward(x, i).page = nodes[x].next /\ Onward(x, i).index = 0
    BY <1>3 DEF Onward
  <2>2. PICK y \in DOMAIN nodes :
          /\ nodes[y].leaf /\ Reaches(nodes, x, y)
          /\ \E j \in DOMAIN nodes[y].keys : nodes[y].keys[j] = k /\ (y = x => j > i)
    BY DEF Ahead
  <2>3. PICK j \in DOMAIN nodes[y].keys : nodes[y].keys[j] = k /\ (y = x => j > i)
    BY <2>2
  <2>4. j \in Nat /\ j >= 1 /\ j <= Len(nodes[y].keys) /\ Len(nodes[y].keys) \in Nat
    <3>1. nodes[y].keys \in Seq(Keys)
      BY <1>1, <2>2 DEF Pages
    <3>2. DOMAIN nodes[y].keys = 1 .. Len(nodes[y].keys) /\ Len(nodes[y].keys) \in Nat
      BY <3>1, KeySeq
    <3> QED
      BY <2>3, <3>2
  <2>5. y # x
    BY <1>3, <2>3, <2>4
  <2>6. nodes[x].next # INVALID_PAGE_ID
    <3> SUFFICES ASSUME nodes[x].next = INVALID_PAGE_ID PROVE FALSE
      OBVIOUS
    <3>1. Chained(nodes, {x})
      BY DEF Chained
    <3>2. y \in {x}
      BY <2>2, <3>1 DEF Reaches
    <3> QED
      BY <2>5, <3>2
  <2>7. Reaches(nodes, nodes[x].next, y)
    <3> SUFFICES ASSUME NEW S, nodes[x].next \in S, Chained(nodes, S) PROVE y \in S
      BY DEF Reaches
    <3> DEFINE R == S \cup {x}
    <3>1. Chained(nodes, R)
      BY DEF Chained
    <3>2. x \in R
      OBVIOUS
    <3> HIDE DEF R
    <3>3. y \in R
      BY <2>2, <3>1, <3>2 DEF Reaches
    <3> QED
      BY <2>5, <3>3 DEF R
  <2>8. j > 0
    BY <2>4
  <2>9. Ahead(nodes, nodes[x].next, 0, k)
    BY <2>2, <2>3, <2>7, <2>8 DEF Ahead
  <2> QED
    BY <2>1, <2>6, <2>9
<1> QED
  BY <1>2, <1>3

\* All entries from low on are ahead of the place where low is or belongs.
LEMMA FirstAhead ==
  ASSUME NEW h, NEW lvl, NEW own, Tree(nodes, root_page_id, h, lvl, own),
         NEW low \in Keys, NEW k \in Present, low <= k
  PROVE  LET x == LeafFor(low) IN
         /\ x \in Pages /\ nodes[x].leaf /\ leaf_find_position(nodes[x], low) \in Nat
         /\ k \in Int /\ Ahead(nodes, x, leaf_find_position(nodes[x], low), k)
<1> DEFINE x == LeafFor(low)
           c == leaf_find_position(nodes[x], low)
<1>1. /\ low \in Int /\ TreeOn(nodes, h, lvl, own, own)
  BY TreeAssumption DEF Tree
<1>2. x = own[0][low] /\ x \in DOMAIN nodes /\ lvl[x] = 0
  BY <1>1, PathFacts DEF Pages
<1>3. nodes[x].leaf /\ LeafOn(nodes[x], x, own[0], leaf_max_keys)
  BY <1>1, <1>2, NodeFacts
<1> HIDE DEF x
<1>4. /\ c \in 0 .. Len(nodes[x].keys)
      /\ \A i \in DOMAIN nodes[x].keys : i <= c => nodes[x].keys[i] < low
  BY <1>1, <1>3, LeafPosition
<1>5. PICK y \in Pages : nodes[y].leaf /\ \E j \in DOMAIN nodes[y].keys : k = nodes[y].keys[j]
  BY EntriesOfLeaves
<1>6. PICK j \in DOMAIN nodes[y].keys : k = nodes[y].keys[j]
  BY <1>5
<1>7. k \in Int /\ own[0][k] = y
  BY <1>5, <1>6, HeldIsFound
<1>8. Reaches(nodes, x, y)
  BY <1>1, <1>2, <1>7, LinksReach
<1>9. c \in Nat /\ (y = x => j > c)
  <2>1. Len(nodes[x].keys) \in Nat /\ DOMAIN nodes[x].keys = 1 .. Len(nodes[x].keys)
    BY <1>3, LeafShape
  <2>2. c \in Nat
    BY <1>4, <2>1
  <2> HIDE DEF c
  <2>3. ASSUME y = x PROVE j > c
    <3>1. j \in Nat /\ ~(nodes[x].keys[j] < low)
      BY <1>1, <1>6, <1>7, <2>1, <2>3
    <3>2. ~(j <= c)
      BY <1>4, <1>6, <2>3, <3>1
    <3> QED
      BY <2>2, <3>1, <3>2
  <2> QED
    BY <2>2, <2>3
<1>10. Ahead(nodes, x, c, k)
  <2> HIDE DEF c
  <2> QED
    BY <1>5, <1>6, <1>8, <1>9 DEF Ahead, Pages
<1> QED
  BY <1>2, <1>3, <1>7, <1>9, <1>10 DEF x, Pages

\* What is due and was not returned yet is in range and ahead of the cursor.
CursorInv ==
  ~it.exhausted =>
    /\ it.page \in Pages /\ nodes[it.page].leaf /\ it.index \in Nat
    /\ \A k \in due \ seen :
         /\ k \in Int /\ it.high \in Int /\ k <= it.high
         /\ Ahead(nodes, it.page, it.index, k)

\* Steps that leave the cursor alone.
LEMMA CursorWaits ==
  ASSUME CursorInv, UNCHANGED iterVars, StaysAhead(nodes, nodes')
  PROVE  CursorInv'
<1>1. it' = it /\ seen' = seen /\ due' = due
  BY DEF iterVars
<1> SUFFICES ASSUME ~it'.exhausted
             PROVE  /\ it'.page \in Pages' /\ nodes'[it'.page].leaf /\ it'.index \in Nat
                    /\ \A k \in due' \ seen' :
                         /\ k \in Int /\ it'.high \in Int /\ k <= it'.high
                         /\ Ahead(nodes', it'.page, it'.index, k)
  BY DEF CursorInv
<1>2. /\ it.page \in DOMAIN nodes /\ nodes[it.page].leaf /\ it.index \in Nat
      /\ \A k \in due \ seen :
           /\ k \in Int /\ it.high \in Int /\ k <= it.high
           /\ Ahead(nodes, it.page, it.index, k)
  BY <1>1 DEF CursorInv, Pages
<1>3. it.page \in DOMAIN nodes' /\ nodes'[it.page].leaf
  BY <1>2 DEF StaysAhead
<1>4. ASSUME NEW k \in due \ seen PROVE Ahead(nodes', it.page, it.index, k)
  BY <1>2, <1>4 DEF StaysAhead
<1> QED
  BY <1>1, <1>2, <1>3, <1>4 DEF Pages

\* A removal leaves nothing due, or changes nothing.
LEMMA RemoveCursor ==
  ASSUME TreeInv, CursorInv, NEW key \in Keys, bpt_remove(key)
  PROVE  CursorInv'
<1> DEFINE p == LeafFor(key)
           n == nodes[p]
           m == leaf_remove(n, leaf_find_position(n, key))
<1>1. CASE UNCHANGED <<treeVars, iterVars>>
  <2>1. UNCHANGED iterVars /\ nodes' = nodes
    BY <1>1 DEF treeVars
  <2> QED
    BY <2>1, SameAhead, CursorWaits
<1>2. CASE LeafBecomes(key, m) /\ due' = {} /\ UNCHANGED <<it, seen>>
  <2>1. nodes' = [nodes EXCEPT ![p] = m] /\ due' = {} /\ it' = it
    BY <1>2 DEF LeafBecomes
  <2>2. m.leaf
    BY DEF leaf_remove, Leaf
  <2> HIDE DEF m, p
  <2>3. \A x \in DOMAIN nodes : nodes[x].leaf => x \in DOMAIN nodes' /\ nodes'[x].leaf
    BY <2>1, <2>2
  <2> QED
    BY <2>1, <2>3 DEF CursorInv, Pages
<1> QED
  BY <1>1, <1>2 DEF bpt_remove, NotReached

\* A cursor starts where its range does.
LEMMA InitCursor ==
  ASSUME TreeInv, CursorInv, NEW low \in Keys, NEW high \in Keys, index_iterator_init(low, high)
  PROVE  CursorInv'
<1> DEFINE x == LeafFor(low)
           c == leaf_find_position(nodes[x], low)
           at == Onward(x, c)
<1>1. CASE NotReached(low)
  <2>1. UNCHANGED iterVars /\ nodes' = nodes
    BY <1>1 DEF NotReached, treeVars
  <2> QED
    BY <2>1, SameAhead, CursorWaits
<1>2. CASE /\ it' = IF at.page = INVALID_PAGE_ID THEN NoIterator
                    ELSE [exhausted |-> FALSE, page |-> at.page, index |-> at.index, high |-> high]
           /\ seen' = {}
           /\ due' = {k \in Present : low <= k /\ k <= high}
           /\ UNCHANGED treeVars
  <2>1. nodes' = nodes
    BY <1>2 DEF treeVars
  <2>2. CASE at.page = INVALID_PAGE_ID
    BY <1>2, <2>2 DEF CursorInv, NoIterator
  <2>3. CASE at.page # INVALID_PAGE_ID
    <3>1. PICK h, lvl, own : Tree(nodes, root_page_id, h, lvl, own)
      BY DEF TreeInv, IsTree
    <3>2. high \in Int /\ low \in Int
      BY TreeAssumption
    <3>3. x \in Pages /\ nodes[x].leaf /\ c \in Nat
      <4>1. x \in DOMAIN nodes /\ lvl[x] = 0 /\ TreeOn(nodes, h, lvl, own, own)
        BY <3>1, <3>2, PathFacts DEF Tree, Pages
      <4>2. nodes[x].leaf /\ LeafOn(nodes[x], x, own[0], leaf_max_keys)
        BY <4>1, NodeFacts
      <4>3. c \in 0 .. Len(nodes[x].keys) /\ Len(nodes[x].keys) \in Nat
        BY <3>2, <4>2, LeafPosition, LeafShape
      <4> HIDE DEF x, c
      <4> QED
        BY <4>1, <4>2, <4>3 DEF Pages
    <3>4. ASSUME NEW k \in Present, low <= k
          PROVE  k \in Int /\ Ahead(nodes, x, c, k)
      BY <3>1, <3>4, FirstAhead
    <3> HIDE DEF x, c
    <3>5. at.page \in Pages /\ nodes[at.page].leaf /\ at.index \in Nat
      BY <2>3, <3>1, <3>3, OnwardIsLeaf
    <3>6. ASSUME NEW k \in Present, low <= k PROVE Ahead(nodes, at.page, at.index, k)
      BY <3>1, <3>3, <3>4, <3>6, OnwardAhead
    <3>7. /\ it'.page = at.page /\ it'.index = at.index /\ it'.high = high
      BY <1>2, <2>3
    <3> HIDE DEF at
    <3>8. ASSUME NEW k \in due' \ seen'
          PROVE  k \in Int /\ k <= high /\ Ahead(nodes, at.page, at.index, k)
      BY <1>2, <3>4, <3>6
    <3> QED
      BY <2>1, <3>2, <3>5, <3>7, <3>8 DEF CursorInv, Pages
  <2> QED
    BY <2>2, <2>3
<1> QED
  BY <1>1, <1>2 DEF index_iterator_init

\* The entry a cursor returns is in the tree, and what else is due stays ahead.
LEMMA RowCursor ==
  ASSUME TreeInv, CursorInv, ~it.exhausted, IteratorRow
  PROVE  /\ CursorInv'
         /\ \E k \in Present : seen' = seen \cup {k} /\ k <= it.high
<1> DEFINE x == At.page
           i == At.index
           key == nodes[x].keys[i + 1]
<1>1. PICK h, lvl, own : Tree(nodes, root_page_id, h, lvl, own)
  BY DEF TreeInv, IsTree
<1>2. /\ it.page \in Pages /\ nodes[it.page].leaf /\ it.index \in Nat
      /\ \A k \in due \ seen :
           /\ k \in Int /\ it.high \in Int /\ k <= it.high
           /\ Ahead(nodes, it.page, it.index, k)
  BY DEF CursorInv
<1>3. /\ x \in Pages /\ i < Len(nodes[x].keys) /\ key <= it.high
      /\ it' = [exhausted |-> FALSE, page |-> x, index |-> i + 1, high |-> it.high]
      /\ seen' = seen \cup {key} /\ due' = due /\ nodes' = nodes
  BY DEF IteratorRow, AtEntry, treeVars
<1>4. x # INVALID_PAGE_ID
  <2>1. TreeOn(nodes, h, lvl, own, own) /\ x \in DOMAIN nodes
    BY <1>1, <1>3 DEF Tree, Pages
  <2>2. x \in 1 .. Len(nodes)
    BY <2>1, NodeFacts
  <2> HIDE DEF x
  <2> QED
    BY <2>2 DEF INVALID_PAGE_ID
<1>5. nodes[x].leaf /\ i \in Nat
  BY <1>1, <1>2, <1>4, OnwardIsLeaf DEF At
<1>6. ASSUME NEW k \in due \ seen PROVE Ahead(nodes, x, i, k)
  BY <1>1, <1>2, <1>6, OnwardAhead DEF At
<1> HIDE DEF x, i
<1>7. /\ nodes[x].keys \in Seq(Keys) /\ DOMAIN nodes[x].keys = 1 .. Len(nodes[x].keys)
      /\ Len(nodes[x].keys) \in Nat /\ i + 1 \in DOMAIN nodes[x].keys
  <2>1. TreeOn(nodes, h, lvl, own, own) /\ x \in DOMAIN nodes
    BY <1>1, <1>3 DEF Tree, Pages
  <2>2. LeafOn(nodes[x], x, own[0], leaf_max_keys)
    BY <1>5, <2>1, NodeFacts
  <2>3. /\ nodes[x].keys \in Seq(Keys) /\ DOMAIN nodes[x].keys = 1 .. Len(nodes[x].keys)
        /\ Len(nodes[x].keys) \in Nat
    BY <2>2, LeafShape
  <2> QED
    BY <1>3, <1>5, <2>3
<1>8. key \in Present
  BY <1>1, <1>3, <1>5, <1>7, EntriesOfLeaves
<1>9. ASSUME NEW k \in due \ seen, k # key PROVE Ahead(nodes, x, i + 1, k)
  <2>1. PICK y \in DOMAIN nodes :
          /\ nodes[y].leaf /\ Reaches(nodes, x, y)
          /\ \E j \in DOMAIN nodes[y].keys : nodes[y].keys[j] = k /\ (y = x => j > i)
    BY <1>6, <1>9 DEF Ahead
  <2>2. PICK j \in DOMAIN nodes[y].keys : nodes[y].keys[j] = k /\ (y = x => j > i)
    BY <2>1
  <2>3. y = x => j > i + 1
    <3> SUFFICES ASSUME y = x PROVE j > i + 1
      OBVIOUS
    <3>1. j \in Nat /\ j # i + 1
      BY <1>7, <1>9, <2>2
    <3> QED
      BY <1>5, <2>2, <3>1
  <2> QED
    BY <2>1, <2>2, <2>3 DEF Ahead
<1> HIDE DEF key
<1>10. CursorInv'
  <2>1. /\ it'.page = x /\ it'.index = i + 1 /\ it'.high = it.high /\ i + 1 \in Nat
    BY <1>3, <1>5
  <2>2. ASSUME NEW k \in due' \ seen'
        PROVE  /\ k \in Int /\ it.high \in Int /\ k <= it.high
               /\ Ahead(nodes, x, i + 1, k)
    <3>1. k \in due \ seen /\ k # key
      BY <1>3, <2>2
    <3> QED
      BY <1>2, <1>9, <3>1
  <2> QED
    BY <1>3, <1>5, <2>1, <2>2 DEF CursorInv, Pages
<1> QED
  BY <1>3, <1>8, <1>10

\* Where a cursor ends, nothing is due any more or the leaf is empty.
LEMMA EndCursor ==
  ASSUME TreeInv, CursorInv, ~it.exhausted, ~AtEntry
  PROVE  due \subseteq seen \/ (At.page \in Pages /\ nodes[At.page].keys = <<>>)
<1> SUFFICES ASSUME NEW k \in due \ seen
             PROVE  At.page \in Pages /\ nodes[At.page].keys = <<>>
  OBVIOUS
<1> DEFINE x == At.page
           i == At.index
<1>1. PICK h, lvl, own : Tree(nodes, root_page_id, h, lvl, own)
  BY DEF TreeInv, IsTree
<1>2. /\ it.page \in Pages /\ nodes[it.page].leaf /\ it.index \in Nat
      /\ k \in Int /\ it.high \in Int /\ k <= it.high
      /\ Ahead(nodes, it.page, it.index, k)
  BY DEF CursorInv
<1>3. x # INVALID_PAGE_ID /\ Ahead(nodes, x, i, k)
  BY <1>1, <1>2, OnwardAhead DEF At
<1>4. x \in Pages /\ nodes[x].leaf /\ i \in Nat
  BY <1>1, <1>2, <1>3, OnwardIsLeaf DEF At
<1>5. ~(i < Len(nodes[x].keys) /\ nodes[x].keys[i + 1] <= it.high)
  BY <1>4 DEF AtEntry
<1>6. i < Len(nodes[x].keys) \/ i = 0
  BY DEF At, Onward
<1> HIDE DEF x, i
<1>7. LeafOn(nodes[x], x, own[0], leaf_max_keys)
  <2>1. TreeOn(nodes, h, lvl, own, own) /\ x \in DOMAIN nodes
    BY <1>1, <1>4 DEF Tree, Pages
  <2> QED
    BY <1>4, <2>1, NodeFacts
<1>8. /\ nodes[x].keys \in Seq(Keys) /\ DOMAIN nodes[x].keys = 1 .. Len(nodes[x].keys)
      /\ Len(nodes[x].keys) \in Nat /\ Ascending(nodes[x].keys)
      /\ \A j \in DOMAIN nodes[x].keys : nodes[x].keys[j] \in Int
  BY <1>7, LeafShape
<1>9. ~(i < Len(nodes[x].keys))
  <2> SUFFICES ASSUME i < Len(nodes[x].keys) PROVE FALSE
    OBVIOUS
  <2>1. i + 1 \in DOMAIN nodes[x].keys
    BY <1>4, <1>8
  <2>2. k < nodes[x].keys[i + 1]
    BY <1>2, <1>5, <1>8, <2>1
  <2>3. PICK y \in DOMAIN nodes :
          /\ nodes[y].leaf /\ Reaches(nodes, x, y)
          /\ \E j \in DOMAIN nodes[y].keys : nodes[y].keys[j] = k /\ (y = x => j > i)
    BY <1>3 DEF Ahead
  <2>4. PICK j \in DOMAIN nodes[y].keys : nodes[y].keys[j] = k /\ (y = x => j > i)
    BY <2>3
  <2>5. CASE y # x
    <3>1. nodes[x].keys[i + 1] < nodes[y].keys[j]
      BY <1>1, <1>4, <2>1, <2>3, <2>5, FurtherIsGreater DEF Pages
    <3> QED
      BY <1>2, <1>8, <2>1, <2>2, <2>4, <3>1
  <2>6. CASE y = x
    <3>1. j \in Nat /\ j > i
      BY <1>8, <2>4, <2>6
    <3>2. CASE j = i + 1
      BY <1>2, <2>2, <2>4, <2>6, <3>2
    <3>3. CASE j > i + 1
      <4>1. nodes[x].keys[i + 1] < nodes[x].keys[j]
        BY <1>8, <2>1, <2>4, <2>6, <3>3 DEF Ascending
      <4> QED
        BY <1>2, <1>8, <2>1, <2>2, <2>4, <2>6, <4>1
    <3> QED
      BY <1>4, <3>1, <3>2, <3>3
  <2> QED
    BY <2>5, <2>6
<1>10. Len(nodes[x].keys) = 0
  BY <1>6, <1>8, <1>9
<1>11. nodes[x].keys = <<>>
  BY <1>8, <1>10, EmptySeq
<1> QED
  BY <1>4, <1>11 DEF x

\* The invariant of the cursor, and what its steps do.
LEMMA CursorSteps ==
  ASSUME TreeInv, CursorInv, [TreeNext]_indexVars
  PROVE  CursorInv'
<1>1. ASSUME UNCHANGED <<treeVars, iterVars>> PROVE CursorInv'
  <2>1. UNCHANGED iterVars /\ nodes' = nodes
    BY <1>1 DEF treeVars
  <2> QED
    BY <2>1, SameAhead, CursorWaits
<1>2. ASSUME it' = NoIterator PROVE CursorInv'
  BY <1>2 DEF CursorInv, NoIterator
<1>3. ASSUME NEW key \in Keys, bpt_find(key) PROVE CursorInv'
  BY <1>1, <1>3 DEF bpt_find, NotReached
<1>4. ASSUME NEW key \in Keys, bpt_remove(key) PROVE CursorInv'
  BY <1>4, RemoveCursor
<1>5. ASSUME NEW key \in Keys, NEW rid \in RidsOf[key], bpt_insert(key, rid) PROVE CursorInv'
  <2>1. UNCHANGED iterVars
    BY <1>5 DEF bpt_insert, NotReached
  <2> QED
    BY <1>5, <2>1, InsertStays, CursorWaits
<1>6. ASSUME NEW range \in Ranges, index_iterator_init(range[1], range[2]) PROVE CursorInv'
  <2>1. range[1] \in Keys /\ range[2] \in Keys
    BY TreeAssumption
  <2> QED
    BY <1>6, <2>1, InitCursor
<1>7. ASSUME index_iterator_next PROVE CursorInv'
  BY <1>2, <1>7, RowCursor DEF index_iterator_next, IteratorEnd, IteratorStarved, Exhausted
<1>8. ASSUME index_iterator_destroy PROVE CursorInv'
  BY <1>2, <1>8 DEF index_iterator_destroy, Exhausted
<1>9. ASSUME UNCHANGED indexVars PROVE CursorInv'
  BY <1>1, <1>9 DEF indexVars
<1> QED
  BY <1>3, <1>4, <1>5, <1>6, <1>7, <1>8, <1>9 DEF TreeNext

\* IteratorMissesNothing, for cursors over any range of any tree: every entry a
\* cursor returns is in the tree and in its range, and where it ends it has
\* returned all that was there when it was made and has not been removed,
\* however leaves were split under it, unless it met an empty leaf.
THEOREM CursorMissesNothing == TreeSpec => IteratorMissesNothing
<1>1. TreeInit => CursorInv
  BY DEF TreeInit, CursorInv, NoIterator
<1>2. TreeInv /\ CursorInv /\ [TreeNext]_indexVars => CursorInv'
  BY CursorSteps
<1> DEFINE Row == index_iterator_next =>
       /\ ~it'.exhausted =>
             \E k \in Present : seen' = seen \cup {k} /\ k <= it.high
       /\ it'.exhausted /\ ~starved' =>
             due \subseteq seen \/ (At.page \in Pages /\ nodes[At.page].keys = <<>>)
<1>3. TreeInv /\ CursorInv => Row
  <2> SUFFICES ASSUME TreeInv, CursorInv, index_iterator_next
               PROVE  /\ ~it'.exhausted =>
                            \E k \in Present : seen' = seen \cup {k} /\ k <= it.high
                      /\ it'.exhausted /\ ~starved' =>
                            due \subseteq seen \/ (At.page \in Pages /\ nodes[At.page].keys = <<>>)
    OBVIOUS
  <2>1. ~it.exhausted
    BY DEF index_iterator_next
  <2>2. CASE IteratorRow
    <3>1. ~it'.exhausted
      BY <2>2 DEF IteratorRow
    <3> QED
      BY <2>1, <2>2, <3>1, RowCursor
  <2>3. CASE IteratorEnd
    <3>1. it'.exhausted /\ ~AtEntry
      BY <2>3 DEF IteratorEnd, Exhausted, NoIterator
    <3> QED
      BY <2>1, <3>1, EndCursor
  <2>4. CASE IteratorStarved
    <3>1. it'.exhausted /\ starved'
      BY <2>4 DEF IteratorStarved, Exhausted, NoIterator
    <3> QED
      BY <3>1
  <2> QED
    BY <2>2, <2>3, <2>4 DEF index_iterator_next
<1> HIDE DEF Row
<1>4. TreeSpec => [][Row]_indexVars
  BY TreeAlways, <1>1, <1>2, <1>3, PTL DEF TreeSpec
<1> QED
  BY <1>4 DEF Row, IteratorMissesNothing
=============================================================================
