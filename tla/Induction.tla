------------------------------ MODULE Induction ------------------------------
(***************************************************************************)
(* Induction and recursion on natural numbers, stated with sets and        *)
(* functions where the library's theorems take operators: in this form the *)
(* other proofs can use them.                                              *)
(***************************************************************************)
EXTENDS Integers, WellFoundedInduction, TLAPS

LEMMA LeastNatural ==
  ASSUME NEW T \in SUBSET Nat, T # {}
  PROVE  \E x \in T : \A y \in T : x <= y
  <1>. DEFINE R == OpToRel(<, Nat)
  <1>1. IsWellFoundedOn(R, Nat)
    BY NatLessThanWellFounded
  <1>2. \A x, y \in Nat : y < x => <<y, x>> \in R
    BY DEF OpToRel
  <1>. HIDE DEF R
  <1>3. \E x \in T : \A y \in T : ~ (<<y, x>> \in R)
    BY <1>1, WFMin
  <1>4. \A x, y \in T : y < x \/ x <= y
    OBVIOUS
  <1>. QED  BY <1>2, <1>3, <1>4

\* A set of natural numbers that has 0, and each successor, has them all.
LEMMA SetInduction ==
  ASSUME NEW T, 0 \in T, \A n \in Nat : n \in T => n + 1 \in T
  PROVE  Nat \subseteq T
  <1>. SUFFICES ASSUME Nat \ T # {} PROVE FALSE
    OBVIOUS
  <1>1. PICK x \in Nat \ T : \A y \in Nat \ T : x <= y
    BY LeastNatural
  <1>2. x - 1 \in Nat /\ x - 1 \in T
    BY <1>1
  <1>. QED  BY <1>1, <1>2

\* The same up to a bound.
LEMMA BoundedInduction ==
  ASSUME NEW N \in Nat, NEW T, 0 \in T, \A n \in 0..N : n # N /\ n \in T => n + 1 \in T
  PROVE  0..N \subseteq T
  <1>. DEFINE U == {n \in Nat : n <= N => n \in T}
  <1>1. 0 \in U
    OBVIOUS
  <1>2. \A n \in Nat : n \in U => n + 1 \in U
    OBVIOUS
  <1>3. Nat \subseteq U
    <2>. HIDE DEF U
    <2>. QED  BY <1>1, <1>2, SetInduction
  <1>. QED  BY <1>3

\* F has, for each number up to N, a function on D.
IsStep(F, N, D) == F \in [1..N -> [D -> D]]

\* At 0 the function g is a; at a number it is what F makes of it at the one before.
Iterates(g, N, D, a, F) ==
  g \in [0..N -> D] /\ g[0] = a /\ \A n \in 1..N : g[n] = F[n][g[n - 1]]

LEMMA Recursion ==
  ASSUME NEW N \in Nat, NEW D, NEW a \in D, NEW F, IsStep(F, N, D)
  PROVE  \E g : Iterates(g, N, D, a, F)
  <1>. DEFINE Has(k) == \E g : Iterates(g, k, D, a, F)
              T == {k \in 0..N : Has(k)}
  <1>1. Has(0)
    <2>. DEFINE g == [n \in 0..0 |-> a]
    <2>1. Iterates(g, 0, D, a, F)
      BY DEF Iterates
    <2>. QED  BY <2>1
  <1>2. ASSUME NEW k \in 0..N, k # N, Has(k) PROVE Has(k + 1)
    <2>1. PICK g : Iterates(g, k, D, a, F)
      BY <1>2
    <2>. DEFINE b == F[k + 1][g[k]]
                h == [n \in 0..(k + 1) |-> IF n = k + 1 THEN b ELSE g[n]]
    <2>2. b \in D
      BY <1>2, <2>1 DEF Iterates, IsStep
    <2>3. h \in [0..(k + 1) -> D] /\ h[k + 1] = b /\ \A n \in 0..k : h[n] = g[n]
      BY <2>1, <2>2 DEF Iterates
    <2>. HIDE DEF h
    <2>4. ASSUME NEW n \in 1..(k + 1) PROVE h[n] = F[n][h[n - 1]]
      <3>1. CASE n = k + 1
        BY <2>3, <3>1
      <3>2. CASE n # k + 1
        <4>1. n \in 1..k /\ n - 1 \in 0..k
          BY <3>2
        <4>2. h[n] = g[n] /\ h[n - 1] = g[n - 1]
          BY <2>3, <4>1
        <4>. QED  BY <2>1, <4>1, <4>2 DEF Iterates
      <3>. QED  BY <3>1, <3>2
    <2>5. Iterates(h, k + 1, D, a, F)
      BY <2>1, <2>3, <2>4 DEF Iterates
    <2>. QED  BY <2>5
  <1>. HIDE DEF Has
  <1>3. 0..N \subseteq T
    <2>1. 0 \in T
      BY <1>1
    <2>2. ASSUME NEW k \in 0..N, k # N, k \in T PROVE k + 1 \in T
      BY <1>2, <2>2
    <2>. HIDE DEF T
    <2>. QED  BY <2>1, <2>2, BoundedInduction
  <1>. QED  BY <1>3 DEF Has
=============================================================================
