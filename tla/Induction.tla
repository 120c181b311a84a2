------------------------------- MODULE Induction -------------------------------
(***************************************************************************)
(* Induction over the natural numbers, stated for a set in the place of a  *)
(* predicate, and the functions defined by recursion that the models fold  *)
(* a list with.  Both follow from the pigeonhole principle.                *)
(***************************************************************************)
EXTENDS FiniteSetTheorems, TLAPS

\* A number that is not in the set is preceded by as many others that are not:
\* the predecessor maps them into one less.
LEMMA SetInduction ==
    ASSUME NEW S, 0 \in S, \A n \in Nat : n \in S => n + 1 \in S
    PROVE  Nat \subseteq S
<1>1. SUFFICES ASSUME NEW n \in Nat, n \notin S PROVE FALSE
  OBVIOUS
<1> DEFINE A == (0..n) \ S
           B == A \ {n}
           f == [x \in A |-> x - 1]
<1>2. n \in A /\ \A x \in A : x \in Nat /\ x # 0 /\ x - 1 \in B
  BY <1>1
<1>3. /\ IsFiniteSet(A) /\ IsFiniteSet(B)
      /\ Cardinality(B) = Cardinality(A) - 1 /\ Cardinality(A) \in Nat
  <2>1. IsFiniteSet(0..n)
    BY FS_Interval
  <2>2. IsFiniteSet(A)
    BY <2>1, FS_Subset
  <2> QED
    BY <2>2, <1>2, FS_RemoveElement, FS_CardinalityType
<1>4. f \in [A -> B]
  BY <1>2
<1> HIDE DEF A, B
<1>5. PICK x, y \in A : x # y /\ f[x] = f[y]
  <2>1. Cardinality(B) < Cardinality(A)
    BY <1>3
  <2> HIDE DEF f
  <2> QED
    BY <2>1, <1>3, <1>4, FS_PigeonHole
<1> QED
  BY <1>5, <1>2

\* Induction up to a bound.
LEMMA UpTo ==
    ASSUME NEW n \in Nat, NEW S, 0 \in S, \A i \in 1..n : i - 1 \in S => i \in S
    PROVE  \A i \in 0..n : i \in S
<1> DEFINE T == {i \in Nat : i <= n => i \in S}
<1>1. 0 \in T
  OBVIOUS
<1>2. ASSUME NEW i \in Nat, i \in T PROVE i + 1 \in T
  <2>1. SUFFICES ASSUME i + 1 <= n PROVE i + 1 \in S
    OBVIOUS
  <2>2. i + 1 \in 1..n /\ (i + 1) - 1 = i /\ i \in S
    BY <1>2, <2>1
  <2> QED
    BY <2>2
<1>3. Nat \subseteq T
  <2> HIDE DEF T
  <2> QED
    BY <1>1, <1>2, SetInduction
<1> QED
  BY <1>3

Iterate(h, n, s, G) == h[0] = s /\ \A i \in 1..n : h[i] = G[i][h[i - 1]]

\* The function that takes one step after the other exists.
LEMMA Iterates ==
    ASSUME NEW n \in Nat, NEW S, NEW s \in S, NEW G \in [1..n -> [S -> S]]
    PROVE  \E h \in [0..n -> S] : Iterate(h, n, s, G)
<1> DEFINE T == {k \in 0..n : \E h \in [0..k -> S] : Iterate(h, k, s, G)}
<1>1. 0 \in T
  <2> DEFINE h == [i \in 0..0 |-> s]
  <2>1. h \in [0..0 -> S] /\ h[0] = s /\ 1..0 = {}
    OBVIOUS
  <2>2. Iterate(h, 0, s, G)
    BY <2>1 DEF Iterate
  <2> QED
    BY <2>1, <2>2
<1>2. ASSUME NEW k \in 1..n, k - 1 \in T PROVE k \in T
  <2>1. PICK g \in [0..(k - 1) -> S] : Iterate(g, k - 1, s, G)
    BY <1>2
  <2>2. g[k - 1] \in S /\ G[k] \in [S -> S]
    BY <1>2, <2>1
  <2>3. PICK x : x = G[k][g[k - 1]] /\ x \in S
    BY <2>2
  <2> DEFINE h == [i \in 0..k |-> IF i = k THEN x ELSE g[i]]
  <2>4. \A i \in 0..k : i = k \/ i \in 0..(k - 1)
    BY <1>2
  <2>5. h \in [0..k -> S]
    BY <2>1, <2>3, <2>4
  <2>6. h[0] = s /\ h[k] = x /\ \A i \in 0..(k - 1) : h[i] = g[i]
    BY <1>2, <2>1 DEF Iterate
  <2> HIDE DEF h
  <2>7. ASSUME NEW i \in 1..k PROVE h[i] = G[i][h[i - 1]]
    <3>1. CASE i = k
      <4>1. k - 1 \in 0..(k - 1)
        BY <1>2
      <4> QED
        BY <3>1, <4>1, <2>3, <2>6
    <3>2. CASE i # k
      <4>1. i \in 0..(k - 1) /\ i - 1 \in 0..(k - 1) /\ i \in 1..(k - 1)
        BY <3>2, <1>2
      <4> QED
        BY <4>1, <2>1, <2>6 DEF Iterate
    <3> QED
      BY <3>1, <3>2
  <2>8. Iterate(h, k, s, G)
    BY <2>6, <2>7 DEF Iterate
  <2> QED
    BY <2>5, <2>8, <1>2
<1>3. \A i \in 0..n : i \in T
  <2> HIDE DEF T
  <2> QED
    BY <1>1, <1>2, UpTo
<1>4. n \in T
  BY <1>3
<1> QED
  BY <1>4
===============================================================================
