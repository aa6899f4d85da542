------------------------------ MODULE Induction ------------------------------
(***************************************************************************)
(* Induction over the natural numbers for the proofs about recursive       *)
(* functions, stated of sets: what is to be shown of every number is that  *)
(* the set of the numbers it holds for is Nat.                             *)
(***************************************************************************)
EXTENDS Integers, WellFoundedInduction, NaturalsInduction, TLAPS

\* A set of natural numbers has a least element.
LEMMA Least ==
  ASSUME NEW S \in SUBSET Nat, S # {}
  PROVE  \E m \in S : \A k \in S : m <= k
<1>1. PICK m \in S : \A k \in S : <<k, m>> \notin OpToRel(<, Nat)
  BY WFMin, NatLessThanWellFounded, Zenon
<1>2. \A k \in S : ~(k < m)
  BY <1>1, Zenon DEF OpToRel
<1> QED BY <1>2

\* A bounded one has a greatest element.
LEMMA Greatest ==
  ASSUME NEW n \in Nat, NEW S \in SUBSET (1..n), S # {}
  PROVE  \E m \in S : \A k \in S : k <= m
<1>. DEFINE T == {n - k : k \in S}
<1>1. T \in SUBSET Nat /\ T # {}
  <2>1. \A k \in S : n - k \in Nat
    OBVIOUS
  <2>2. PICK k \in S : TRUE
    OBVIOUS
  <2>3. n - k \in T
    BY <2>2
  <2> QED BY <2>1, <2>3
<1>2. PICK t \in T : \A u \in T : t <= u
  <2>. HIDE DEF T
  <2> QED BY <1>1, Least
<1>3. PICK m \in S : t = n - m
  BY <1>2
<1>4. ASSUME NEW k \in S
      PROVE  k <= m
  <2>1. t <= n - k
    BY <1>2
  <2> QED BY <1>3, <2>1
<1> QED BY <1>4

\* Induction.
LEMMA Upwards ==
  ASSUME NEW S \in SUBSET Nat, 0 \in S, \A n \in S : n + 1 \in S
  PROVE  S = Nat
<1>1. SUFFICES ASSUME Nat \ S # {} PROVE FALSE
  OBVIOUS
<1>2. PICK m \in Nat \ S : \A k \in Nat \ S : m <= k
  BY <1>1, Least
<1>3. m # 0 /\ m - 1 \in Nat /\ m - 1 \notin Nat \ S
  BY <1>2
<1> QED BY <1>3

\* f[n] is what the first n steps make of first.
Iteration(f, S, first, step, N) ==
  /\ f \in [0..N -> S]
  /\ f[0] = first
  /\ \A n \in 1..N : f[n] = step[n][f[n - 1]]

\* Definition by recursion: any number of steps can be taken from first.
LEMMA Iterates ==
  ASSUME NEW S, NEW first \in S, NEW step \in [Nat -> [S -> S]], NEW N \in Nat
  PROVE  \E f : Iteration(f, S, first, step, N)
<1>. DEFINE Iterated(f, m) == f[0] = first /\ \A n \in 1..m : f[n] = step[n][f[n - 1]]
            T == {m \in Nat : \E f \in [0..m -> S] : Iterated(f, m)}
<1>1. 0 \in T
  <2>. DEFINE f == [n \in 0..0 |-> first]
  <2>1. f \in [0..0 -> S] /\ Iterated(f, 0)
    OBVIOUS
  <2> QED BY <2>1
<1>2. ASSUME NEW m \in T PROVE m + 1 \in T
  <2>1. PICK f \in [0..m -> S] : Iterated(f, m)
    OBVIOUS
  <2>. DEFINE g == [n \in 0..(m + 1) |-> IF n = m + 1 THEN step[m + 1][f[m]] ELSE f[n]]
  <2>2. m \in Nat /\ \A n \in 0..(m + 1) : n \in 0..m \/ n = m + 1
    OBVIOUS
  <2>3. f[m] \in S /\ step[m + 1][f[m]] \in S
    BY <2>2
  <2>4. g \in [0..(m + 1) -> S]
    BY <2>2, <2>3
  <2>5. \A n \in 0..m : g[n] = f[n]
    BY <2>2
  <2>6. g[m + 1] = step[m + 1][f[m]]
    BY <2>2
  <2>7. Iterated(g, m + 1)
    <3>. HIDE DEF g
    <3>1. \A n \in 1..(m + 1) : n - 1 \in 0..m /\ ((n \in 1..m /\ n \in 0..m) \/ n = m + 1)
      BY <2>2
    <3>2. 0 \in 0..m /\ m \in 0..m /\ (m + 1) - 1 = m
      BY <2>2
    <3>3. ASSUME NEW n \in 1..(m + 1) PROVE g[n] = step[n][g[n - 1]]
      <4>1. CASE n \in 1..m
        BY <2>1, <2>5, <3>1, <4>1
      <4>2. CASE n = m + 1
        BY <2>5, <2>6, <3>2, <4>2
      <4> QED BY <3>1, <4>1, <4>2
    <3> QED BY <2>1, <2>5, <3>2, <3>3
  <2>. HIDE DEF g, Iterated
  <2> QED BY <2>2, <2>4, <2>7
<1>3. T = Nat
  <2>. HIDE DEF T
  <2>1. T \in SUBSET Nat
    BY DEF T
  <2> QED BY <1>1, <1>2, <2>1, Upwards
<1>4. PICK f \in [0..N -> S] : Iterated(f, N)
  BY <1>3
<1>5. Iteration(f, S, first, step, N)
  BY <1>4, Zenon DEF Iteration
<1> QED BY <1>5
=============================================================================
