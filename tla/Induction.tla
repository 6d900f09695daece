------------------------------ MODULE Induction ------------------------------
(***************************************************************************)
(* Induction over the natural numbers for the other proof modules, stated  *)
(* with sets, and what it says of functions defined by recursion on a      *)
(* number: the scans of the log, the chain of pages.                       *)
(***************************************************************************)
EXTENDS Integers, Sequences, TLAPS, WellFoundedInduction

Less == {ss \in Nat \X Nat : ss[1] < ss[2]}

\* A set of naturals has a least member.
LEMMA LeastNatural ==
  ASSUME NEW T, T \subseteq Nat, T # {}
  PROVE  \E n \in T : \A m \in T : n <= m
<1>1. IsWellFoundedOn(Less, Nat)
  BY NatLessThanWellFounded DEF OpToRel, Less
<1>2. PICK n \in T : \A m \in T : <<m, n>> \notin Less
  BY <1>1, WFMin
<1>3. ASSUME NEW m \in T PROVE n <= m
  <2>1. m \in Nat /\ n \in Nat
    OBVIOUS
  <2>2. m < n => <<m, n>> \in Less
    BY <2>1 DEF Less
  <2> QED
    BY <1>2, <2>1, <2>2
<1> QED
  BY <1>3

\* A set with 0 and with the successor of each member has all naturals.
LEMMA NatsBelong ==
  ASSUME NEW S, 0 \in S, \A n \in Nat : n \in S => n + 1 \in S
  PROVE  Nat \subseteq S
<1> SUFFICES ASSUME Nat \ S # {} PROVE FALSE
  OBVIOUS
<1>1. PICK n \in Nat \ S : \A m \in Nat \ S : n <= m
  BY LeastNatural
<1>2. n # 0 /\ n - 1 \in Nat /\ n - 1 \in S
  BY <1>1
<1> QED
  BY <1>2

\* A recursion over 0 .. k that starts with a and goes on with step.
Recurs(f, a, step, k) ==
  f = [n \in 0 .. k |-> IF n = 0 THEN a ELSE step[<<f[n - 1], n>>]]

\* There is a function that satisfies the equation of a recursion.
LEMMA RecursionExists ==
  ASSUME NEW S, NEW a \in S, NEW step \in [S \X Nat -> S], NEW k \in Nat
  PROVE  \E f \in [0 .. k -> S] : Recurs(f, a, step, k)
<1> DEFINE G(n) == \E f \in [0 .. n -> S] : Recurs(f, a, step, n)
           Good == {n \in Nat : G(n)}
<1>1. 0 \in Good
  <2> DEFINE f == [i \in 0 .. 0 |-> a]
  <2>1. f \in [0 .. 0 -> S] /\ Recurs(f, a, step, 0)
    BY DEF Recurs
  <2> QED
    BY <2>1
<1>2. ASSUME NEW n \in Nat, n \in Good PROVE n + 1 \in Good
  <2>1. PICK f \in [0 .. n -> S] : Recurs(f, a, step, n)
    BY <1>2
  <2> DEFINE g == [i \in 0 .. n + 1 |-> IF i <= n THEN f[i] ELSE step[<<f[n], n + 1>>]]
  <2>2. g \in [0 .. n + 1 -> S]
    OBVIOUS
  <2>3. ASSUME NEW i \in 0 .. n + 1
        PROVE  g[i] = IF i = 0 THEN a ELSE step[<<g[i - 1], i>>]
    <3>1. CASE i <= n
      <4>1. g[i] = f[i] /\ (i # 0 => g[i - 1] = f[i - 1])
        BY <3>1
      <4>2. f[i] = IF i = 0 THEN a ELSE step[<<f[i - 1], i>>]
        BY <2>1, <3>1 DEF Recurs
      <4> QED
        BY <4>1, <4>2
    <3>2. CASE i = n + 1
      <4>1. i # 0 /\ ~(i <= n) /\ i - 1 = n /\ n \in 0 .. n + 1 /\ n <= n
        BY <3>2
      <4>2. g[i] = step[<<f[n], n + 1>>] /\ g[n] = f[n]
        BY <4>1
      <4> HIDE DEF g
      <4> QED
        BY <3>2, <4>1, <4>2
    <3> QED
      BY <3>1, <3>2
  <2>4. g = [i \in 0 .. n + 1 |-> IF i = 0 THEN a ELSE step[<<g[i - 1], i>>]]
    BY <2>3
  <2> HIDE DEF g
  <2>5. G(n + 1)
    BY <2>2, <2>4 DEF Recurs
  <2> HIDE DEF G
  <2> QED
    BY <2>5
<1> HIDE DEF G
<1>3. Nat \subseteq Good
  <2> HIDE DEF Good
  <2> QED
    BY <1>1, <1>2, NatsBelong
<1>4. G(k)
  BY <1>3
<1> QED
  BY <1>4 DEF G
=============================================================================
